--------------------------- MODULE MembershipsProofs ---------------------------
(***************************************************************************)
(* What overlapping requests never do to a workspace, an organization or   *)
(* a pair of users, for any number of users, handlers and requests.        *)
(***************************************************************************)
EXTENDS Panels, FiniteSetTheorems, TLAPS

WorkspaceRoutes ==
    {"subscribe", "addMember", "changeRole", "removeMember", "leaveWorkspace",
     "transferOwnership", "createChannel", "createLink", "offerMembership"}
OrganizationRoutes ==
    {"orgAddMember", "orgChangeRole", "orgRemoveMember", "orgLeave", "orgCreateLink",
     "orgOfferMembership"}
Granting ==
    {"addMember", "changeRole", "createLink", "offerMembership",
     "orgAddMember", "orgChangeRole", "orgCreateLink", "orgOfferMembership"}
Answering == {"acceptOffer", "declineOffer"}

\* The routes that write roles or the channel's members, but for the one that makes accounts.
Entering ==
    {"subscribe", "addMember", "changeRole", "removeMember", "leaveWorkspace",
     "transferOwnership", "createChannel", "joinChannel", "addChannelMember",
     "removeChannelMember", "leaveChannel", "orgAddMember", "orgChangeRole",
     "orgRemoveMember", "orgLeave", "acceptLink", "acceptOffer"}

\* Routes that are about nobody, and the checks they may have to come.
Unaddressed ==
    {"idle", "archiveWorkspace", "unarchiveWorkspace", "setVisibility",
     "setManagersCanArchive", "orgArchive", "orgUnarchive", "createLink", "orgCreateLink",
     "revokeLink", "openDirect"}
UnaddressedLeft ==
    {<<>>, <<"notArchived">>, <<"isArchived">>, <<"changesVisibility">>,
     <<"notArchived", "changesVisibility">>, <<"mayRevoke">>}

(* What a handler knows of its request, whatever the others do meanwhile.      *)
SubjectOK(q) ==
    /\ IF q.op = "idle" THEN q.left = <<>> ELSE q.by \in Users
    /\ q.on \in Users \/ (q.op \in Unaddressed /\ q.left \in UnaddressedLeft)
    /\ q.op = "demote" => q.by # q.on

PlaceOK(q) ==
    /\ q.op \in WorkspaceRoutes => kind = "WORKSPACE"
    /\ q.op \in OrganizationRoutes \/ (q.op = "createAccount" /\ q.as = "here") =>
           kind = "ORGANIZATION"
    /\ q.op \in Granting => q.as \in RolesOf(kind) \ {"none", "OWNER"}
    /\ q.op = "createChannel" => q.as \in ChannelTypes

\* A request that enters has seen the scope open, or is about to look.
OpenOK(q) ==
    q.op \in Entering => q.open \/ (q.left # <<>> /\ Head(q.left) = "notArchived")

\* Who is to lose a role was not the owner when that was checked.
TargetOK(q) ==
    /\ q.op \in {"changeRole", "removeMember"} =>
           \/ q.left \in {<<"notArchived", "isNotOwner", "mayChangeManagers">>,
                          <<"isNotOwner", "mayChangeManagers">>}
           \/ q.left \in {<<"mayChangeManagers">>, <<>>} /\ q.saw # "OWNER"
    /\ q.op = "leaveWorkspace" =>
           \/ q.left \in {<<"notArchived", "isNotOwner">>, <<"isNotOwner">>}
           \/ q.left = <<>> /\ q.saw # "OWNER"

\* A link is revoked by one who saw it unanswered.
AnswerOK(q) ==
    /\ q.op = "revokeLink" => \/ q.left = <<"mayRevoke">>
                              \/ q.left = <<>> /\ q.saw \in {"PENDING", "EXPIRED"}
    /\ q.op = "acceptOffer" =>
           q.left \in {<<"notArchived", "membership">>, <<"membership">>, <<>>}
    /\ q.op \in {"declineOffer", "openDirect"} => q.left = <<>>

RequestOK(q) == SubjectOK(q) /\ PlaceOK(q) /\ OpenOK(q) /\ TargetOK(q) /\ AnswerOK(q)

(* What it knows of the row it holds, and that no other request holds it.      *)
RowOK(q) ==
    /\ q.op = "acceptLink" => link.status \in {"PENDING", "EXPIRED"}
    /\ q.op \in Answering => q.row \in Offers /\ offer[q.row].status = "PENDING"
    /\ q.op = "openDirect" => q.row = Cardinality(Made)

Exclusive ==
    \A g, h \in Handlers :
        g # h /\ Holds(req[g]) = Holds(req[h]) => Holds(req[g]) = <<"nothing", 0>>

RequestsOK == \A h \in Handlers : RequestOK(req[h])
RowsOK == \A h \in Handlers : RowOK(req[h])

(* What the rows of the two kinds of invitations promise.                      *)
LinkOK ==
    /\ link.role # "OWNER"
    /\ link.status \in {"none", "PENDING", "EXPIRED"} => born = {}
    /\ born = {} \/ \E u \in Users : born = {u}
    /\ born # {} => link.status = "ACCEPTED" \/ crossed

OffersOK == \A o \in Offers : offer[o].role # "OWNER"

(* The inductive invariant.                                                    *)
MInv ==
    /\ TypeOK /\ RequestsOK /\ RowsOK /\ Exclusive /\ LinkOK /\ OffersOK
    /\ ~doubled /\ OneOwner /\ AdministratorRemains

------------------------------------------------------------------------------
\* A handler without a request.
LEMMA IdleRequest ==
    /\ Idle \in Requests /\ Idle.left = <<>> /\ Idle.op = "idle"
    /\ RequestOK(Idle) /\ RowOK(Idle) /\ Holds(Idle) = <<"nothing", 0>>
<1>1. Idle \in Requests
  BY DEF Idle, Requests, Routes, Asked, Answers, Roles, Checks
<1>2. /\ Idle.left = <<>> /\ Idle.op = "idle"
      /\ SubjectOK(Idle) /\ PlaceOK(Idle) /\ OpenOK(Idle) /\ TargetOK(Idle) /\ AnswerOK(Idle)
  BY DEF Idle, SubjectOK, PlaceOK, OpenOK, TargetOK, AnswerOK, Unaddressed, UnaddressedLeft,
         WorkspaceRoutes, OrganizationRoutes, Granting, Entering
<1>3. RowOK(Idle) /\ Holds(Idle) = <<"nothing", 0>>
  BY <1>2 DEF RowOK, Holds, Answering
<1> QED BY <1>1, <1>2, <1>3 DEF RequestOK

\* The number of channels a pair has.
LEMMA MadeCount == Cardinality(Made) \in Nat
<1>1. Made \subseteq 1 .. MaxDirects
  BY DEF Made, Directs
<1>2. IsFiniteSet(1 .. MaxDirects)
  BY FS_Interval, AccessAssumption
<1> QED BY <1>1, <1>2, FS_Subset, FS_CardinalityType

\* What a check changes of the request that passes it.
LEMMA Learnt ==
    ASSUME NEW q \in Requests
    PROVE  /\ Learn(q).op = q.op /\ Learn(q).by = q.by /\ Learn(q).on = q.on
           /\ Learn(q).as = q.as /\ Learn(q).left = Tail(q.left)
           /\ Learn(q).saw = Sees(q, Head(q.left))
           /\ Learn(q).row = IF Head(q.left) = "freshDirect" THEN Cardinality(Made) ELSE q.row
           /\ Learn(q).open <=> q.open \/ ~archived
BY DEF Learn, Requests, Made

LEMMA Composed ==
    ASSUME NEW q \in Requests, NEW left \in Seq(Checks), NEW saw \in Answers,
           NEW from \in Users \cup {Nobody}, NEW row \in Nat, NEW open \in BOOLEAN
    PROVE  [q EXCEPT !.left = left, !.saw = saw, !.from = from, !.row = row,
                     !.open = open] \in Requests
BY DEF Requests

LEMMA LearntIsRequest ==
    ASSUME TypeOK, NEW q \in Requests, q.left # <<>>, Sees(q, Head(q.left)) \in Answers
    PROVE  Learn(q) \in Requests
<1> DEFINE from == IF Head(q.left) = "owner" THEN owner ELSE q.from
           row == IF Head(q.left) = "freshDirect"
                  THEN Cardinality({d \in Directs : direct[d] # "none"}) ELSE q.row
           open == q.open \/ ~archived
           left == Tail(q.left)
           saw == Sees(q, Head(q.left))
<1>1. from \in Users \cup {Nobody} /\ row \in Nat /\ left \in Seq(Checks) /\ saw \in Answers
  BY MadeCount DEF Requests, TypeOK, Made
<1>2. open \in BOOLEAN
  OBVIOUS
<1>3. Learn(q) = [q EXCEPT !.left = left, !.saw = saw, !.from = from, !.row = row, !.open = open]
  BY Zenon DEF Learn
<1> HIDE DEF from, row, open, left, saw
<1>4. \A l \in Seq(Checks), s \in Answers, f \in Users \cup {Nobody}, r \in Nat, o \in BOOLEAN :
          [q EXCEPT !.left = l, !.saw = s, !.from = f, !.row = r, !.open = o] \in Requests
  BY Composed, Zenon
<1>5. [q EXCEPT !.left = left, !.saw = saw, !.from = from, !.row = row,
                !.open = open] \in Requests
  BY <1>1, <1>2, <1>4, Zenon
<1> QED BY <1>3, <1>5, Zenon

\* The checks that are left, one after another.
LEMMA Tails ==
    /\ \A x : Tail(<<x>>) = <<>> /\ Head(<<x>>) = x /\ <<x>> # <<>>
    /\ \A x, y : Tail(<<x, y>>) = <<y>> /\ Head(<<x, y>>) = x /\ <<x, y>> # <<>>
    /\ \A x, y, z : Tail(<<x, y, z>>) = <<y, z>> /\ Head(<<x, y, z>>) = x /\ <<x, y, z>> # <<>>
OBVIOUS

\* The answer of the next check is an answer.
LEMMA Seen ==
    ASSUME TypeOK, NEW q \in Requests, SubjectOK(q), q.left # <<>>
    PROVE  Sees(q, Head(q.left)) \in Answers
<1>1. /\ \A u \in Users : role[u] \in Answers
      /\ q.saw \in Answers /\ link.status \in Answers
      /\ {"override", "found", "missing"} \subseteq Answers
  BY DEF TypeOK, Answers, Requests, RolesOf, Roles, Kinds
<1>2. q.by \in Users
  BY DEF SubjectOK
<1>3. CASE q.on \in Users
  BY <1>1, <1>2, <1>3 DEF Sees
<1>4. CASE q.left \in UnaddressedLeft
  <2>1. Head(q.left) \in {"notArchived", "isArchived", "changesVisibility", "mayRevoke"}
    BY <1>4 DEF UnaddressedLeft
  <2> QED BY <1>1, <2>1 DEF Sees
<1> QED BY <1>3, <1>4 DEF SubjectOK

\* A request that passes its next check keeps what it knows.
LEMMA LearntKnows ==
    ASSUME TypeOK, NEW q \in Requests, RequestOK(q), RowOK(q), q.left # <<>>,
           Passes(q, Head(q.left))
    PROVE  RequestOK(Learn(q)) /\ RowOK(Learn(q)) /\ Holds(Learn(q)) = Holds(q)
<1> DEFINE l == Learn(q)
<1>1. /\ l.op = q.op /\ l.by = q.by /\ l.on = q.on /\ l.as = q.as /\ l.left = Tail(q.left)
      /\ l.saw = Sees(q, Head(q.left)) /\ (l.open <=> q.open \/ ~archived)
      /\ l.row = IF Head(q.left) = "freshDirect" THEN Cardinality(Made) ELSE q.row
  BY Learnt
<1> HIDE DEF l
<1>2. SubjectOK(l)
  <2>1. q.op # "idle" /\ q.by \in Users
    BY DEF RequestOK, SubjectOK
  <2>2. q.left \in UnaddressedLeft => Tail(q.left) \in UnaddressedLeft
    BY Tails DEF UnaddressedLeft
  <2> QED BY <1>1, <2>1, <2>2 DEF RequestOK, SubjectOK
<1>3. PlaceOK(l)
  BY <1>1 DEF RequestOK, PlaceOK
<1>4. OpenOK(l)
  <2>1. Head(q.left) = "notArchived" => ~archived
    BY DEF Passes, Permissions
  <2> QED BY <1>1, <2>1 DEF RequestOK, OpenOK
<1>5. TargetOK(l)
  <2>1. Head(q.left) = "isNotOwner" => l.saw # "OWNER"
    BY <1>1 DEF Passes, Permissions, Sees
  <2>2. Head(q.left) = "mayChangeManagers" => l.saw = q.saw
    BY <1>1 DEF Sees
  <2>3. CASE q.op \in {"changeRole", "removeMember"}
    <3>1. CASE q.left = <<"notArchived", "isNotOwner", "mayChangeManagers">>
      <4>1. l.left = <<"isNotOwner", "mayChangeManagers">>
        BY <1>1, <3>1
      <4> QED BY <1>1, <2>3, <4>1 DEF TargetOK
    <3>2. CASE q.left = <<"isNotOwner", "mayChangeManagers">>
      <4>1. l.left = <<"mayChangeManagers">> /\ l.saw # "OWNER"
        BY <1>1, <2>1, <3>2
      <4> QED BY <1>1, <2>3, <4>1 DEF TargetOK
    <3>3. CASE q.left = <<"mayChangeManagers">> /\ q.saw # "OWNER"
      <4>1. l.left = <<>> /\ l.saw # "OWNER"
        BY <1>1, <2>2, <3>3
      <4> QED BY <1>1, <2>3, <4>1 DEF TargetOK
    <3> QED BY <2>3, <3>1, <3>2, <3>3 DEF RequestOK, TargetOK
  <2>4. CASE q.op = "leaveWorkspace"
    <3>1. CASE q.left = <<"notArchived", "isNotOwner">>
      <4>1. l.left = <<"isNotOwner">>
        BY <1>1, <3>1
      <4> QED BY <1>1, <2>4, <4>1 DEF TargetOK
    <3>2. CASE q.left = <<"isNotOwner">>
      <4>1. l.left = <<>> /\ l.saw # "OWNER"
        BY <1>1, <2>1, <3>2
      <4> QED BY <1>1, <2>4, <4>1 DEF TargetOK
    <3> QED BY <2>4, <3>1, <3>2 DEF RequestOK, TargetOK
  <2> QED BY <1>1, <2>3, <2>4 DEF TargetOK
<1>6. AnswerOK(l)
  <2>1. Head(q.left) = "mayRevoke" => l.saw \in {"PENDING", "EXPIRED"}
    BY <1>1 DEF Passes, Permissions, Sees
  <2>2. CASE q.op = "revokeLink"
    <3>1. q.left = <<"mayRevoke">>
      BY <2>2 DEF RequestOK, AnswerOK
    <3>2. l.left = <<>> /\ l.saw \in {"PENDING", "EXPIRED"}
      BY <1>1, <2>1, <3>1
    <3> QED BY <1>1, <2>2, <3>2 DEF AnswerOK
  <2>3. CASE q.op = "acceptOffer"
    <3>1. q.left = <<"notArchived", "membership">> \/ q.left = <<"membership">>
      BY <2>3 DEF RequestOK, AnswerOK
    <3>2. CASE q.left = <<"notArchived", "membership">>
      <4>1. l.left = <<"membership">>
        BY <1>1, <3>2
      <4> QED BY <1>1, <2>3, <4>1 DEF AnswerOK
    <3>3. CASE q.left = <<"membership">>
      <4>1. l.left = <<>>
        BY <1>1, <3>3
      <4> QED BY <1>1, <2>3, <4>1 DEF AnswerOK
    <3> QED BY <3>1, <3>2, <3>3
  <2> QED BY <1>1, <2>2, <2>3 DEF RequestOK, AnswerOK
<1>7. RowOK(l) /\ Holds(l) = Holds(q)
  <2>1. q.op \in Answering \cup {"openDirect"} => l.row = q.row
    BY <1>1 DEF RequestOK, AnswerOK, Answering
  <2> QED BY <1>1, <2>1 DEF RowOK, Holds, Answering
<1> QED BY <1>2, <1>3, <1>4, <1>5, <1>6, <1>7 DEF RequestOK, l

\* A step that only moves a request of one handler keeps the invariant, when the handler
\* knows what it should of its new request and holds no row of another's.
LEMMA OneRequest ==
    ASSUME MInv, NEW h \in Handlers, NEW q \in Requests, req' = [req EXCEPT ![h] = q],
           UNCHANGED <<scope, members, rooms, links, offer, administrators, directs>>,
           started' \in 0 .. MaxRequests, RequestOK(q), RowOK(q),
           Holds(q) = <<"nothing", 0>> \/ Free(Holds(q), h)
    PROVE  MInv'
<1> USE DEF scope, members, rooms, links, administrators, directs
<1>1. TypeOK'
  BY DEF MInv, TypeOK
<1>2. RequestsOK' /\ RowsOK'
  <2>1. \A g \in Handlers : req'[g] = IF g = h THEN q ELSE req[g]
    BY DEF MInv, TypeOK
  <2>2. \A g \in Handlers : RequestOK(req'[g]) /\ RowOK(req'[g])
    BY <2>1 DEF MInv, RequestsOK, RowsOK
  <2>3. \A g \in Handlers : RequestOK(req[g])' /\ RowOK(req[g])'
    <3>1. \A g \in Handlers : PlaceOK(req[g])'
      BY <2>2 DEF RequestOK, PlaceOK, RolesOf
    <3>2. \A g \in Handlers : RowOK(req[g])'
      BY <2>2 DEF RowOK, Made
    <3>3. \A g \in Handlers : SubjectOK(req[g])' /\ OpenOK(req[g])'
      BY <2>2 DEF RequestOK, SubjectOK, OpenOK
    <3>4. \A g \in Handlers : TargetOK(req[g])' /\ AnswerOK(req[g])'
      BY <2>2 DEF RequestOK, TargetOK, AnswerOK
    <3> QED BY <3>1, <3>2, <3>3, <3>4 DEF RequestOK
  <2> QED BY <2>3 DEF RequestsOK, RowsOK
<1>3. Exclusive'
  BY DEF MInv, Exclusive, Free, Holds, TypeOK
<1>4. LinkOK' /\ OffersOK' /\ ~doubled' /\ OneOwner' /\ AdministratorRemains'
  BY DEF MInv, LinkOK, OffersOK, OneOwner, AdministratorRemains
<1> QED BY <1>1, <1>2, <1>3, <1>4 DEF MInv

\* The next check of a request.
LEMMA CheckKeeps == ASSUME MInv, NEW h \in Handlers, Check(h) PROVE MInv'
<1> DEFINE q == req[h]
<1>1. /\ q \in Requests /\ RequestOK(q) /\ RowOK(q) /\ q.left # <<>>
      /\ started' \in 0 .. MaxRequests
  BY DEF MInv, TypeOK, RequestsOK, RowsOK, Check
<1>2. UNCHANGED <<scope, members, rooms, links, offer, administrators, directs>>
  BY DEF Check
<1>3. CASE Passes(q, Head(q.left))
  <2>1. Learn(q) \in Requests
    BY <1>1, Seen, LearntIsRequest DEF MInv, RequestOK
  <2>2. RequestOK(Learn(q)) /\ RowOK(Learn(q)) /\ Holds(Learn(q)) = Holds(q)
    BY <1>1, <1>3, LearntKnows DEF MInv
  <2>3. Holds(Learn(q)) = <<"nothing", 0>> \/ Free(Holds(Learn(q)), h)
    BY <2>2 DEF MInv, Exclusive, Free
  <2>4. req' = [req EXCEPT ![h] = Learn(q)]
    BY <1>3 DEF Check
  <2> QED BY <1>1, <1>2, <2>1, <2>2, <2>3, <2>4, OneRequest
<1>4. CASE ~Passes(q, Head(q.left))
  <2>1. req' = [req EXCEPT ![h] = Idle]
    BY <1>4 DEF Check
  <2> QED BY <1>1, <1>2, <2>1, IdleRequest, OneRequest
<1> QED BY <1>3, <1>4

------------------------------------------------------------------------------
(* Requests that are taken up.                                                 *)

\* A request with this route, caller, subject, demand and list of checks knows what it
\* should, whatever its first check has shown.
Shaped(op, by, on, as, left) ==
    \A q \in Requests :
        /\ q.op = op /\ q.by = by /\ q.on = on /\ q.as = as /\ q.left = left
        => RequestOK(q)

\* The routes whose request holds no row.
Plain ==
    {"subscribe", "addMember", "changeRole", "removeMember", "leaveWorkspace",
     "transferOwnership", "archiveWorkspace", "unarchiveWorkspace", "setVisibility",
     "setManagersCanArchive", "createChannel", "joinChannel", "addChannelMember",
     "removeChannelMember", "leaveChannel", "orgAddMember", "orgChangeRole", "orgRemoveMember",
     "orgLeave", "orgArchive", "orgUnarchive", "createAccount", "promote", "demote",
     "createLink", "orgCreateLink", "revokeLink", "offerMembership", "orgOfferMembership"}

LEMMA AskKeeps ==
    ASSUME MInv, NEW h \in Handlers,
           NEW op \in Plain,
           NEW by \in Users, NEW on \in Users \cup {Nobody}, NEW as \in Asked,
           NEW checks \in Seq(Checks), checks # <<>>, NEW left, left = Tail(checks),
           Head(checks) \notin {"isMember", "isNotOwner", "isHeir", "membership"},
           Shaped(op, by, on, as, left), Ask(h, op, by, on, as, checks)
    PROVE  MInv'
<1> DEFINE q == [Idle EXCEPT !.op = op, !.by = by, !.on = on, !.as = as, !.left = checks]
<1>1. /\ q \in Requests /\ q.saw = "none"
      /\ q.op = op /\ q.by = by /\ q.on = on /\ q.as = as /\ q.left = checks
  <2>1. op \in Routes /\ op \notin Answering \cup {"acceptLink", "openDirect"}
    BY DEF Plain, Routes, Answering
  <2>2. q \in Requests
    BY <2>1, IdleRequest DEF Requests
  <2> QED BY <2>2 DEF Idle
<1>2. Take(h, q)
  BY DEF Ask
<1> HIDE DEF q
<1>3. Sees(q, Head(checks)) \in Answers
  <2>1. \A u \in Users : role[u] \in Answers
    BY DEF MInv, TypeOK, Answers, RolesOf, Roles, Kinds
  <2>2. link.status \in Answers /\ {"none", "override", "found", "missing"} \subseteq Answers
    BY DEF MInv, TypeOK, Answers, Roles
  <2> QED BY <1>1, <2>1, <2>2 DEF Sees
<1>4. Learn(q) \in Requests
  BY <1>1, <1>3, LearntIsRequest DEF MInv
<1>5. RequestOK(Learn(q))
  BY <1>1, <1>4, Learnt DEF Shaped
<1>6. RowOK(Learn(q)) /\ Holds(Learn(q)) = <<"nothing", 0>>
  <2>1. Learn(q).op \notin {"acceptLink", "acceptOffer", "declineOffer", "openDirect"}
    BY <1>1, Learnt DEF Plain
  <2> QED BY <2>1 DEF RowOK, Holds, Answering
<1>7. /\ req' = [req EXCEPT ![h] = Learn(q)] /\ started' \in 0 .. MaxRequests
      /\ UNCHANGED <<scope, members, rooms, links, offer, administrators, directs>>
  BY <1>2, AccessAssumption DEF Take, MInv, TypeOK
<1> QED BY <1>4, <1>5, <1>6, <1>7, OneRequest

------------------------------------------------------------------------------
(* Writes.                                                                     *)

\* A write ends the handler's request and no other.
LEMMA Served ==
    ASSUME MInv, NEW h \in Handlers, NEW op, Writes(h, op), kind' = kind
    PROVE  /\ req' \in [Handlers -> Requests] /\ started' \in 0 .. MaxRequests
           /\ req'[h] = Idle /\ \A g \in Handlers \ {h} : req'[g] = req[g]
           /\ RequestsOK' /\ Exclusive'
<1>1. /\ req' \in [Handlers -> Requests] /\ started' \in 0 .. MaxRequests
      /\ req'[h] = Idle /\ \A g \in Handlers \ {h} : req'[g] = req[g]
  BY IdleRequest DEF Writes, MInv, TypeOK
<1>2. \A g \in Handlers : RequestOK(req'[g])
  BY <1>1, IdleRequest DEF MInv, RequestsOK
<1>3. \A g \in Handlers : SubjectOK(req[g])' /\ OpenOK(req[g])'
  BY <1>2 DEF RequestOK, SubjectOK, OpenOK
<1>4. \A g \in Handlers : TargetOK(req[g])' /\ AnswerOK(req[g])'
  BY <1>2 DEF RequestOK, TargetOK, AnswerOK
<1>5. \A g \in Handlers : PlaceOK(req[g])'
  BY <1>2 DEF RequestOK, PlaceOK, RolesOf
<1>6. RequestsOK'
  BY <1>3, <1>4, <1>5 DEF RequestsOK, RequestOK
<1>7. Exclusive'
  <2>1. \A g \in Handlers : Holds(req[g])' = Holds(req'[g])
    BY DEF Holds
  <2> QED BY <1>1, <2>1, IdleRequest DEF MInv, Exclusive
<1> QED BY <1>1, <1>6, <1>7

\* A write to members, rooms and settings.
LEMMA MembersWritten ==
    ASSUME MInv, NEW h \in Handlers, NEW op, Writes(h, op),
           UNCHANGED <<kind, link, born, crossed, offer, administrators, directs>>,
           role' \in [Users -> RolesOf(kind)], owner' \in Users \cup {Nobody},
           contested' \in BOOLEAN, archived' \in BOOLEAN, delegated' \in BOOLEAN,
           discoverable' \in BOOLEAN, channel' \in {"none"} \cup ChannelTypes,
           inChannel' \subseteq Users, visitors' \subseteq Users, accounts' \subseteq Users,
           OneOwner'
    PROVE  MInv'
<1> USE DEF administrators, directs
<1>1. /\ req' \in [Handlers -> Requests] /\ started' \in 0 .. MaxRequests
      /\ req'[h] = Idle /\ \A g \in Handlers \ {h} : req'[g] = req[g]
      /\ RequestsOK' /\ Exclusive'
  BY Served
<1>2. TypeOK'
  BY <1>1 DEF MInv, TypeOK, RolesOf
<1>3. RowsOK'
  <2>1. \A g \in Handlers : RowOK(req'[g])
    BY <1>1, IdleRequest DEF MInv, RowsOK
  <2> QED BY <2>1 DEF RowsOK, RowOK, Made
<1>4. LinkOK' /\ OffersOK' /\ ~doubled' /\ AdministratorRemains'
  BY DEF MInv, LinkOK, OffersOK, AdministratorRemains
<1> QED BY <1>1, <1>2, <1>3, <1>4 DEF MInv

\* A write that keeps the owners.
LEMMA OwnersKept ==
    ASSUME OneOwner, UNCHANGED <<kind, owner>>, contested => contested',
           \A u \in Users : role'[u] = "OWNER" <=> role[u] = "OWNER"
    PROVE  OneOwner'
BY DEF OneOwner

LEMMA Enrolment ==
    ASSUME TypeOK, NEW u \in Users, NEW r \in RolesOf(kind), r # "OWNER"
    PROVE  /\ Enrolled(u, r) \in [Users -> RolesOf(kind)]
           /\ \A v \in Users : Enrolled(u, r)[v] = "OWNER" <=> role[v] = "OWNER"
BY DEF Enrolled, IsMember, TypeOK

\* What is known of the request that a handler ends with its write.
LEMMA Serving ==
    ASSUME MInv, NEW h \in Handlers, NEW op, op # "idle", Writes(h, op)
    PROVE  /\ req[h] \in Requests /\ req[h].op = op /\ req[h].left = <<>>
           /\ RequestOK(req[h]) /\ RowOK(req[h])
           /\ req[h].by \in Users /\ (op \notin Unaddressed => req[h].on \in Users)
BY DEF Writes, MInv, TypeOK, RequestsOK, RowsOK, RequestOK, SubjectOK

\* A write to roles that makes and unmakes no owner.
LEMMA RolesWritten ==
    ASSUME MInv, NEW h \in Handlers, NEW op, Writes(h, op),
           UNCHANGED <<scope, owner, contested, rooms, links, offer, administrators, directs>>,
           role' \in [Users -> RolesOf(kind)],
           \A v \in Users : role'[v] = "OWNER" <=> role[v] = "OWNER"
    PROVE  MInv'
<1>1. OneOwner'
  BY OwnersKept DEF MInv, scope
<1> QED BY <1>1, MembersWritten DEF MInv, TypeOK, scope, rooms, links

\* A write to the channel.
LEMMA RoomsWritten ==
    ASSUME MInv, NEW h \in Handlers, NEW op, Writes(h, op),
           UNCHANGED <<scope, members, links, offer, administrators, directs>>,
           channel' \in {"none"} \cup ChannelTypes, inChannel' \subseteq Users,
           visitors' \subseteq Users
    PROVE  MInv'
<1>1. OneOwner'
  BY OwnersKept DEF MInv, scope, members
<1> QED BY <1>1, MembersWritten DEF MInv, TypeOK, scope, members, links

\* A write to a setting.
LEMMA ScopeWritten ==
    ASSUME MInv, NEW h \in Handlers, NEW op, Writes(h, op),
           UNCHANGED <<kind, members, rooms, links, offer, administrators, directs>>,
           archived' \in BOOLEAN, delegated' \in BOOLEAN, discoverable' \in BOOLEAN
    PROVE  MInv'
<1>1. OneOwner'
  BY OwnersKept DEF MInv, members
<1> QED BY <1>1, MembersWritten DEF MInv, TypeOK, members, rooms, links

------------------------------------------------------------------------------
(* The members of a workspace.                                                 *)

LEMMA SubscribeKeeps == ASSUME MInv, NEW h \in Handlers, Subscribe(h) PROVE MInv'
<1>1. ASSUME NEW u \in accounts,
             WorkspaceAsks(h, "subscribe", u, u, "MEMBER",
                     SubscribeChecks)
      PROVE  MInv'
  <2>1. /\ u \in Users /\ kind = "WORKSPACE"
       /\ Ask(h, "subscribe", u, u, "MEMBER", SubscribeChecks)
    BY <1>1 DEF MInv, TypeOK, WorkspaceAsks
  <2>2. Shaped("subscribe", u, u, "MEMBER", <<"notArchived", "isNoMember">>)
    BY <1>1, <2>1 DEF Shaped, RequestOK, SubjectOK, PlaceOK, OpenOK, TargetOK, AnswerOK,
                WorkspaceRoutes, OrganizationRoutes, Granting, Entering, Unaddressed,
                UnaddressedLeft, RolesOf, WorkspaceRoles, OrgRoles, ChannelTypes
  <2>3. /\ SubscribeChecks \in Seq(Checks) /\ SubscribeChecks # <<>>
        /\ Head(SubscribeChecks) = "discoverable"
        /\ Tail(SubscribeChecks) = <<"notArchived", "isNoMember">>
    BY <1>1 DEF SubscribeChecks, Checks, Permissions
  <2> QED BY <1>1, <2>1, <2>2, <2>3, AskKeeps
          DEF Plain, Asked, Roles, WorkspaceRoles, OrgRoles, ChannelTypes
<1>2. ASSUME Writes(h, "subscribe"), role' = Enrolled(req[h].on, "MEMBER"),
             UNCHANGED <<owner, contested>>, UnchangedButMembers
      PROVE  MInv'
  <2>1. req[h].on \in Users /\ kind = "WORKSPACE"
    BY <1>2, Serving DEF RequestOK, PlaceOK, Unaddressed, WorkspaceRoutes
  <2>2. "MEMBER" \in RolesOf(kind)
    BY <2>1 DEF RolesOf, WorkspaceRoles
  <2> QED BY <1>2, <2>1, <2>2, Enrolment, RolesWritten DEF MInv, UnchangedButMembers
<1> QED BY <1>1, <1>2 DEF Subscribe

LEMMA AddMemberKeeps == ASSUME MInv, NEW h \in Handlers, AddMember(h) PROVE MInv'
<1>1. ASSUME NEW u \in accounts, NEW v \in accounts, NEW r \in WorkspaceRoles,
             WorkspaceAsks(h, "addMember", u, v, r,
                     AddMemberChecks(r))
      PROVE  MInv'
  <2>1. /\ u \in Users /\ v \in Users /\ kind = "WORKSPACE"
       /\ Ask(h, "addMember", u, v, r, AddMemberChecks(r))
    BY <1>1 DEF MInv, TypeOK, WorkspaceAsks
  <2>2. Shaped("addMember", u, v, r, <<"notArchived", "isNoMember">>)
    BY <1>1, <2>1 DEF Shaped, RequestOK, SubjectOK, PlaceOK, OpenOK, TargetOK, AnswerOK,
                WorkspaceRoutes, OrganizationRoutes, Granting, Entering, Unaddressed,
                UnaddressedLeft, RolesOf, WorkspaceRoles, OrgRoles, ChannelTypes
  <2>3. /\ AddMemberChecks(r) \in Seq(Checks) /\ AddMemberChecks(r) # <<>>
        /\ Head(AddMemberChecks(r)) \in {"MANAGE_MANAGERS", "MANAGE_MEMBERS"}
        /\ Tail(AddMemberChecks(r)) = <<"notArchived", "isNoMember">>
    BY <1>1 DEF AddMemberChecks, ToGrant, Checks, Permissions
  <2> QED BY <1>1, <2>1, <2>2, <2>3, AskKeeps
          DEF Plain, Asked, Roles, WorkspaceRoles, OrgRoles, ChannelTypes
<1>2. ASSUME Writes(h, "addMember"), role' = Enrolled(req[h].on, req[h].as),
             UNCHANGED <<owner, contested>>, UnchangedButMembers
      PROVE  MInv'
  <2>1. req[h].on \in Users /\ req[h].as \in RolesOf(kind) \ {"none", "OWNER"}
    BY <1>2, Serving DEF RequestOK, PlaceOK, Unaddressed, Granting
  <2> QED BY <1>2, <2>1, Enrolment, RolesWritten DEF MInv, UnchangedButMembers
<1> QED BY <1>1, <1>2 DEF AddMember

\* A role that its owner's checks have seen is lost or changed; another owner's is contested.
LEMMA TargetWritten ==
    ASSUME MInv, NEW h \in Handlers, NEW op \in {"changeRole", "removeMember", "leaveWorkspace"},
           Writes(h, op), UNCHANGED <<scope, owner, links, offer, administrators, directs>>,
           contested' = (contested \/ (role[req[h].on] = "OWNER" /\ req[h].saw # "OWNER")),
           NEW r \in RolesOf(kind), r # "OWNER", role' = [role EXCEPT ![req[h].on] = r],
           channel' = channel, inChannel' \subseteq Users, visitors' \subseteq Users
    PROVE  MInv'
<1>1. req[h].on \in Users /\ req[h].saw # "OWNER"
  <2>1. /\ req[h].op = op /\ req[h].left = <<>> /\ TargetOK(req[h])
        /\ req[h].on \in Users
    BY Serving DEF RequestOK, Unaddressed
  <2>2. req[h].saw # "OWNER"
    BY <2>1, Tails DEF TargetOK
  <2> QED BY <2>1, <2>2
<1>2. contested' \in BOOLEAN
  <2>1. contested \in BOOLEAN
    BY DEF MInv, TypeOK
  <2> QED BY <2>1
<1>3. role' \in [Users -> RolesOf(kind)]
  BY <1>1 DEF MInv, TypeOK
<1>4. OneOwner'
  <2>1. SUFFICES ASSUME kind = "WORKSPACE", ~contested'
                 PROVE  {u \in Users : role'[u] = "OWNER"} = {owner}
    BY DEF OneOwner, scope
  <2>2. ~contested /\ role[req[h].on] # "OWNER"
    BY <1>1, <2>1
  <2>3. \A u \in Users : role'[u] = "OWNER" <=> role[u] = "OWNER"
    BY <1>1, <2>2 DEF MInv, TypeOK
  <2> QED BY <2>1, <2>2, <2>3 DEF MInv, OneOwner
<1> QED BY <1>2, <1>3, <1>4, MembersWritten DEF MInv, TypeOK, scope, links

LEMMA ChangeRoleKeeps == ASSUME MInv, NEW h \in Handlers, ChangeRole(h) PROVE MInv'
<1>1. ASSUME NEW u \in accounts, NEW v \in accounts, NEW r \in WorkspaceRoles,
             WorkspaceAsks(h, "changeRole", u, v, r,
                     <<"MANAGE_MEMBERS", "notArchived", "isNotOwner", "mayChangeManagers">>)
      PROVE  MInv'
  <2>1. /\ u \in Users /\ v \in Users /\ kind = "WORKSPACE"
       /\ Ask(h, "changeRole", u, v, r,
              <<"MANAGE_MEMBERS", "notArchived", "isNotOwner", "mayChangeManagers">>)
    BY <1>1 DEF MInv, TypeOK, WorkspaceAsks
  <2>2. Shaped("changeRole", u, v, r, <<"notArchived", "isNotOwner", "mayChangeManagers">>)
    BY <1>1, <2>1 DEF Shaped, RequestOK, SubjectOK, PlaceOK, OpenOK, TargetOK, AnswerOK,
                WorkspaceRoutes, OrganizationRoutes, Granting, Entering, Unaddressed,
                UnaddressedLeft, RolesOf, WorkspaceRoles, OrgRoles, ChannelTypes
  <2>3. /\ <<"MANAGE_MEMBERS", "notArchived", "isNotOwner", "mayChangeManagers">> \in Seq(Checks)
        /\ <<"MANAGE_MEMBERS", "notArchived", "isNotOwner", "mayChangeManagers">> # <<>>
        /\ Head(<<"MANAGE_MEMBERS", "notArchived", "isNotOwner", "mayChangeManagers">>)
           = "MANAGE_MEMBERS"
        /\ Tail(<<"MANAGE_MEMBERS", "notArchived", "isNotOwner", "mayChangeManagers">>)
           = <<"notArchived", "isNotOwner", "mayChangeManagers">>
    BY <1>1 DEF Checks, Permissions
  <2> QED BY <1>1, <2>1, <2>2, <2>3, AskKeeps
          DEF Plain, Asked, Roles, WorkspaceRoles, OrgRoles, ChannelTypes
<1>2. ASSUME Writes(h, "changeRole"), UnchangedButMembers, owner' = owner,
             role' = [role EXCEPT ![req[h].on] = IF @ = "none" THEN @ ELSE req[h].as],
             contested' = (contested \/ (role[req[h].on] = "OWNER" /\ req[h].saw # "OWNER"))
      PROVE  MInv'
  <2> DEFINE r == IF role[req[h].on] = "none" THEN "none" ELSE req[h].as
  <2>1. req[h].on \in Users /\ req[h].as \in RolesOf(kind) \ {"none", "OWNER"}
    BY <1>2, Serving DEF RequestOK, PlaceOK, Unaddressed, Granting
  <2>2. role' = [role EXCEPT ![req[h].on] = r] /\ r \in RolesOf(kind) /\ r # "OWNER"
    BY <1>2, <2>1 DEF RolesOf
  <2>3. /\ UNCHANGED <<scope, owner, links, offer, administrators, directs>>
        /\ channel' = channel /\ inChannel' \subseteq Users /\ visitors' \subseteq Users
    BY <1>2 DEF UnchangedButMembers, MInv, TypeOK, rooms
  <2> HIDE DEF r
  <2> QED BY <1>2, <2>2, <2>3, TargetWritten
<1> QED BY <1>1, <1>2 DEF ChangeRole, MemberChecks

LEMMA RemoveMemberKeeps == ASSUME MInv, NEW h \in Handlers, RemoveMember(h) PROVE MInv'
<1>1. ASSUME NEW u \in accounts, NEW v \in accounts,
             WorkspaceAsks(h, "removeMember", u, v, "none",
                     <<"MANAGE_MEMBERS", "notArchived", "isNotOwner", "mayChangeManagers">>)
      PROVE  MInv'
  <2>1. /\ u \in Users /\ v \in Users /\ kind = "WORKSPACE"
       /\ Ask(h, "removeMember", u, v, "none",
              <<"MANAGE_MEMBERS", "notArchived", "isNotOwner", "mayChangeManagers">>)
    BY <1>1 DEF MInv, TypeOK, WorkspaceAsks
  <2>2. Shaped("removeMember", u, v, "none", <<"notArchived", "isNotOwner", "mayChangeManagers">>)
    BY <1>1, <2>1 DEF Shaped, RequestOK, SubjectOK, PlaceOK, OpenOK, TargetOK, AnswerOK,
                WorkspaceRoutes, OrganizationRoutes, Granting, Entering, Unaddressed,
                UnaddressedLeft, RolesOf, WorkspaceRoles, OrgRoles, ChannelTypes
  <2>3. /\ <<"MANAGE_MEMBERS", "notArchived", "isNotOwner", "mayChangeManagers">> \in Seq(Checks)
        /\ <<"MANAGE_MEMBERS", "notArchived", "isNotOwner", "mayChangeManagers">> # <<>>
        /\ Head(<<"MANAGE_MEMBERS", "notArchived", "isNotOwner", "mayChangeManagers">>)
           = "MANAGE_MEMBERS"
        /\ Tail(<<"MANAGE_MEMBERS", "notArchived", "isNotOwner", "mayChangeManagers">>)
           = <<"notArchived", "isNotOwner", "mayChangeManagers">>
    BY <1>1 DEF Checks, Permissions
  <2> QED BY <1>1, <2>1, <2>2, <2>3, AskKeeps
          DEF Plain, Asked, Roles, WorkspaceRoles, OrgRoles, ChannelTypes
<1>2. ASSUME Writes(h, "removeMember"), Dismissed(h)
      PROVE  MInv'
  <2>1. /\ UNCHANGED <<scope, owner, links, offer, administrators, directs>>
        /\ contested' = (contested \/ (role[req[h].on] = "OWNER" /\ req[h].saw # "OWNER"))
        /\ role' = [role EXCEPT ![req[h].on] = "none"] /\ "none" \in RolesOf(kind)
        /\ channel' = channel /\ inChannel' \subseteq Users /\ visitors' \subseteq Users
    BY <1>2 DEF Dismissed, Removed, MInv, TypeOK, RolesOf
  <2> QED BY <1>2, <2>1, TargetWritten
<1> QED BY <1>1, <1>2 DEF RemoveMember, MemberChecks

LEMMA LeaveWorkspaceKeeps ==
    ASSUME MInv, NEW h \in Handlers, LeaveWorkspace(h)
    PROVE  MInv'
<1>1. ASSUME NEW u \in accounts,
             WorkspaceAsks(h, "leaveWorkspace", u, u, "none",
                     <<"member", "notArchived", "isNotOwner">>)
      PROVE  MInv'
  <2>1. /\ u \in Users /\ kind = "WORKSPACE"
       /\ Ask(h, "leaveWorkspace", u, u, "none", <<"member", "notArchived", "isNotOwner">>)
    BY <1>1 DEF MInv, TypeOK, WorkspaceAsks
  <2>2. Shaped("leaveWorkspace", u, u, "none", <<"notArchived", "isNotOwner">>)
    BY <1>1, <2>1 DEF Shaped, RequestOK, SubjectOK, PlaceOK, OpenOK, TargetOK, AnswerOK,
                WorkspaceRoutes, OrganizationRoutes, Granting, Entering, Unaddressed,
                UnaddressedLeft, RolesOf, WorkspaceRoles, OrgRoles, ChannelTypes
  <2>3. /\ <<"member", "notArchived", "isNotOwner">> \in Seq(Checks)
        /\ <<"member", "notArchived", "isNotOwner">> # <<>>
        /\ Head(<<"member", "notArchived", "isNotOwner">>) = "member"
        /\ Tail(<<"member", "notArchived", "isNotOwner">>) = <<"notArchived", "isNotOwner">>
    BY <1>1 DEF Checks, Permissions
  <2> QED BY <1>1, <2>1, <2>2, <2>3, AskKeeps
          DEF Plain, Asked, Roles, WorkspaceRoles, OrgRoles, ChannelTypes
<1>2. ASSUME Writes(h, "leaveWorkspace"), Dismissed(h)
      PROVE  MInv'
  <2>1. /\ UNCHANGED <<scope, owner, links, offer, administrators, directs>>
        /\ contested' = (contested \/ (role[req[h].on] = "OWNER" /\ req[h].saw # "OWNER"))
        /\ role' = [role EXCEPT ![req[h].on] = "none"] /\ "none" \in RolesOf(kind)
        /\ channel' = channel /\ inChannel' \subseteq Users /\ visitors' \subseteq Users
    BY <1>2 DEF Dismissed, Removed, MInv, TypeOK, RolesOf
  <2> QED BY <1>2, <2>1, TargetWritten
<1> QED BY <1>1, <1>2 DEF LeaveWorkspace, LeaveWorkspaceChecks

LEMMA TransferOwnershipKeeps ==
    ASSUME MInv, NEW h \in Handlers, TransferOwnership(h)
    PROVE  MInv'
<1>1. ASSUME NEW u \in accounts, NEW v \in accounts,
             WorkspaceAsks(h, "transferOwnership", u, v, "none",
                     <<"TRANSFER_OWNERSHIP", "notArchived", "owner", "isHeir">>)
      PROVE  MInv'
  <2>1. /\ u \in Users /\ v \in Users /\ kind = "WORKSPACE"
       /\ Ask(h, "transferOwnership", u, v, "none",
              <<"TRANSFER_OWNERSHIP", "notArchived", "owner", "isHeir">>)
    BY <1>1 DEF MInv, TypeOK, WorkspaceAsks
  <2>2. Shaped("transferOwnership", u, v, "none", <<"notArchived", "owner", "isHeir">>)
    BY <1>1, <2>1 DEF Shaped, RequestOK, SubjectOK, PlaceOK, OpenOK, TargetOK, AnswerOK,
                WorkspaceRoutes, OrganizationRoutes, Granting, Entering, Unaddressed,
                UnaddressedLeft, RolesOf, WorkspaceRoles, OrgRoles, ChannelTypes
  <2>3. /\ <<"TRANSFER_OWNERSHIP", "notArchived", "owner", "isHeir">> \in Seq(Checks)
        /\ <<"TRANSFER_OWNERSHIP", "notArchived", "owner", "isHeir">> # <<>>
        /\ Head(<<"TRANSFER_OWNERSHIP", "notArchived", "owner", "isHeir">>)
           = "TRANSFER_OWNERSHIP"
        /\ Tail(<<"TRANSFER_OWNERSHIP", "notArchived", "owner", "isHeir">>)
           = <<"notArchived", "owner", "isHeir">>
    BY <1>1 DEF Checks, Permissions
  <2> QED BY <1>1, <2>1, <2>2, <2>3, AskKeeps
          DEF Plain, Asked, Roles, WorkspaceRoles, OrgRoles, ChannelTypes
<1>2. ASSUME Writes(h, "transferOwnership"), role' = Heired(req[h]), owner' = req[h].on,
             contested' = (contested \/ req[h].from # owner \/ ~IsMember(req[h].on)),
             UnchangedButMembers
      PROVE  MInv'
  <2>1. req[h].on \in Users /\ kind = "WORKSPACE"
    BY <1>2, Serving DEF RequestOK, PlaceOK, Unaddressed, WorkspaceRoutes
  <2>2. contested' \in BOOLEAN
    <3>1. contested \in BOOLEAN
      BY DEF MInv, TypeOK
    <3> QED BY <1>2, <3>1
  <2>3. role' \in [Users -> RolesOf(kind)]
    BY <1>2, <2>1 DEF Heired, MInv, TypeOK, RolesOf, WorkspaceRoles
  <2>4. UNCHANGED <<scope, rooms, links, offer, administrators, directs>>
    BY <1>2 DEF UnchangedButMembers
  <2>5. OneOwner'
    <3>1. SUFFICES ASSUME ~contested'
                   PROVE  {u \in Users : role'[u] = "OWNER"} = {req[h].on}
      BY <1>2 DEF OneOwner
    <3>2. ~contested /\ req[h].from = owner /\ IsMember(req[h].on)
      BY <1>2, <3>1
    <3>3. {u \in Users : role[u] = "OWNER"} = {owner}
      BY <2>1, <3>2 DEF MInv, OneOwner
    <3>4. \A u \in Users : role'[u] = "OWNER" <=> u = req[h].on
      BY <1>2, <2>1, <3>2, <3>3 DEF Heired, IsMember
    <3> QED BY <2>1, <3>4
  <2> QED BY <1>2, <2>1, <2>2, <2>3, <2>4, <2>5, MembersWritten
          DEF MInv, TypeOK, scope, rooms, links
<1> QED BY <1>1, <1>2 DEF TransferOwnership, TransferChecks

------------------------------------------------------------------------------
(* The settings of a scope.                                                    *)

LEMMA ArchiveWorkspaceKeeps ==
    ASSUME MInv, NEW h \in Handlers, ArchiveWorkspace(h)
    PROVE  MInv'
<1>1. ASSUME NEW u \in accounts,
             WorkspaceAsks(h, "archiveWorkspace", u, Nobody, "none",
                     <<"ARCHIVE", "notArchived">>)
      PROVE  MInv'
  <2>1. /\ u \in Users /\ kind = "WORKSPACE"
       /\ Ask(h, "archiveWorkspace", u, Nobody, "none", <<"ARCHIVE", "notArchived">>)
    BY <1>1 DEF MInv, TypeOK, WorkspaceAsks
  <2>2. Shaped("archiveWorkspace", u, Nobody, "none", <<"notArchived">>)
    BY <1>1, <2>1 DEF Shaped, RequestOK, SubjectOK, PlaceOK, OpenOK, TargetOK, AnswerOK,
                WorkspaceRoutes, OrganizationRoutes, Granting, Entering, Unaddressed,
                UnaddressedLeft, RolesOf, WorkspaceRoles, OrgRoles, ChannelTypes
  <2>3. /\ <<"ARCHIVE", "notArchived">> \in Seq(Checks)
        /\ <<"ARCHIVE", "notArchived">> # <<>>
        /\ Head(<<"ARCHIVE", "notArchived">>) = "ARCHIVE"
        /\ Tail(<<"ARCHIVE", "notArchived">>) = <<"notArchived">>
    BY <1>1 DEF Checks, Permissions
  <2> QED BY <1>1, <2>1, <2>2, <2>3, AskKeeps
          DEF Plain, Asked, Roles, WorkspaceRoles, OrgRoles, ChannelTypes
<1>2. ASSUME Writes(h, "archiveWorkspace"), archived' = TRUE,
             UNCHANGED <<kind, delegated, discoverable>>,
             UnchangedButScope
      PROVE  MInv'
  <2>1. archived' \in BOOLEAN /\ delegated' \in BOOLEAN /\ discoverable' \in BOOLEAN
    BY <1>2 DEF MInv, TypeOK
  <2>2. UNCHANGED <<kind, members, rooms, links, offer, administrators, directs>>
    BY <1>2 DEF UnchangedButScope
  <2> QED BY <1>2, <2>1, <2>2, ScopeWritten
<1> QED BY <1>1, <1>2 DEF ArchiveWorkspace, ArchiveChecks

LEMMA UnarchiveWorkspaceKeeps ==
    ASSUME MInv, NEW h \in Handlers, UnarchiveWorkspace(h)
    PROVE  MInv'
<1>1. ASSUME NEW u \in accounts,
             WorkspaceAsks(h, "unarchiveWorkspace", u, Nobody, "none",
                     <<"ARCHIVE", "isArchived">>)
      PROVE  MInv'
  <2>1. /\ u \in Users /\ kind = "WORKSPACE"
       /\ Ask(h, "unarchiveWorkspace", u, Nobody, "none", <<"ARCHIVE", "isArchived">>)
    BY <1>1 DEF MInv, TypeOK, WorkspaceAsks
  <2>2. Shaped("unarchiveWorkspace", u, Nobody, "none", <<"isArchived">>)
    BY <1>1, <2>1 DEF Shaped, RequestOK, SubjectOK, PlaceOK, OpenOK, TargetOK, AnswerOK,
                WorkspaceRoutes, OrganizationRoutes, Granting, Entering, Unaddressed,
                UnaddressedLeft, RolesOf, WorkspaceRoles, OrgRoles, ChannelTypes
  <2>3. /\ <<"ARCHIVE", "isArchived">> \in Seq(Checks)
        /\ <<"ARCHIVE", "isArchived">> # <<>>
        /\ Head(<<"ARCHIVE", "isArchived">>) = "ARCHIVE"
        /\ Tail(<<"ARCHIVE", "isArchived">>) = <<"isArchived">>
    BY <1>1 DEF Checks, Permissions
  <2> QED BY <1>1, <2>1, <2>2, <2>3, AskKeeps
          DEF Plain, Asked, Roles, WorkspaceRoles, OrgRoles, ChannelTypes
<1>2. ASSUME Writes(h, "unarchiveWorkspace"), archived' = FALSE,
             UNCHANGED <<kind, delegated, discoverable>>,
             UnchangedButScope
      PROVE  MInv'
  <2>1. archived' \in BOOLEAN /\ delegated' \in BOOLEAN /\ discoverable' \in BOOLEAN
    BY <1>2 DEF MInv, TypeOK
  <2>2. UNCHANGED <<kind, members, rooms, links, offer, administrators, directs>>
    BY <1>2 DEF UnchangedButScope
  <2> QED BY <1>2, <2>1, <2>2, ScopeWritten
<1> QED BY <1>1, <1>2 DEF UnarchiveWorkspace, UnarchiveChecks

LEMMA SetVisibilityKeeps ==
    ASSUME MInv, NEW h \in Handlers, SetVisibility(h)
    PROVE  MInv'
<1>1. ASSUME NEW u \in accounts, NEW v \in {"DISCOVERABLE", "PRIVATE"},
             WorkspaceAsks(h, "setVisibility", u, Nobody, v,
                     <<"CHANGE_VISIBILITY", "notArchived", "changesVisibility">>)
      PROVE  MInv'
  <2>1. /\ u \in Users /\ kind = "WORKSPACE"
       /\ Ask(h, "setVisibility", u, Nobody, v,
              <<"CHANGE_VISIBILITY", "notArchived", "changesVisibility">>)
    BY <1>1 DEF MInv, TypeOK, WorkspaceAsks
  <2>2. Shaped("setVisibility", u, Nobody, v, <<"notArchived", "changesVisibility">>)
    BY <1>1, <2>1 DEF Shaped, RequestOK, SubjectOK, PlaceOK, OpenOK, TargetOK, AnswerOK,
                WorkspaceRoutes, OrganizationRoutes, Granting, Entering, Unaddressed,
                UnaddressedLeft, RolesOf, WorkspaceRoles, OrgRoles, ChannelTypes
  <2>3. /\ <<"CHANGE_VISIBILITY", "notArchived", "changesVisibility">> \in Seq(Checks)
        /\ <<"CHANGE_VISIBILITY", "notArchived", "changesVisibility">> # <<>>
        /\ Head(<<"CHANGE_VISIBILITY", "notArchived", "changesVisibility">>)
           = "CHANGE_VISIBILITY"
        /\ Tail(<<"CHANGE_VISIBILITY", "notArchived", "changesVisibility">>)
           = <<"notArchived", "changesVisibility">>
    BY <1>1 DEF Checks, Permissions
  <2> QED BY <1>1, <2>1, <2>2, <2>3, AskKeeps
          DEF Plain, Asked, Roles, WorkspaceRoles, OrgRoles, ChannelTypes
<1>2. ASSUME Writes(h, "setVisibility"), discoverable' = (req[h].as = "DISCOVERABLE"),
             UNCHANGED <<kind, archived, delegated>>,
             UnchangedButScope
      PROVE  MInv'
  <2>1. archived' \in BOOLEAN /\ delegated' \in BOOLEAN /\ discoverable' \in BOOLEAN
    BY <1>2 DEF MInv, TypeOK
  <2>2. UNCHANGED <<kind, members, rooms, links, offer, administrators, directs>>
    BY <1>2 DEF UnchangedButScope
  <2> QED BY <1>2, <2>1, <2>2, ScopeWritten
<1> QED BY <1>1, <1>2 DEF SetVisibility, VisibilityChecks

LEMMA SetManagersCanArchiveKeeps ==
    ASSUME MInv, NEW h \in Handlers, SetManagersCanArchive(h)
    PROVE  MInv'
<1>1. ASSUME NEW u \in accounts, NEW v \in {"delegated", "kept"},
             WorkspaceAsks(h, "setManagersCanArchive", u, Nobody, v,
                     <<"MANAGE_SETTINGS">>)
      PROVE  MInv'
  <2>1. /\ u \in Users /\ kind = "WORKSPACE"
       /\ Ask(h, "setManagersCanArchive", u, Nobody, v, <<"MANAGE_SETTINGS">>)
    BY <1>1 DEF MInv, TypeOK, WorkspaceAsks
  <2>2. Shaped("setManagersCanArchive", u, Nobody, v, <<>>)
    BY <1>1, <2>1 DEF Shaped, RequestOK, SubjectOK, PlaceOK, OpenOK, TargetOK, AnswerOK,
                WorkspaceRoutes, OrganizationRoutes, Granting, Entering, Unaddressed,
                UnaddressedLeft, RolesOf, WorkspaceRoles, OrgRoles, ChannelTypes
  <2>3. /\ <<"MANAGE_SETTINGS">> \in Seq(Checks) /\ <<"MANAGE_SETTINGS">> # <<>>
        /\ Head(<<"MANAGE_SETTINGS">>) = "MANAGE_SETTINGS"
        /\ Tail(<<"MANAGE_SETTINGS">>) = <<>>
    BY <1>1 DEF Checks, Permissions
  <2> QED BY <1>1, <2>1, <2>2, <2>3, AskKeeps
          DEF Plain, Asked, Roles, WorkspaceRoles, OrgRoles, ChannelTypes
<1>2. ASSUME Writes(h, "setManagersCanArchive"), delegated' = (req[h].as = "delegated"),
             UNCHANGED <<kind, archived, discoverable>>,
             UnchangedButScope
      PROVE  MInv'
  <2>1. archived' \in BOOLEAN /\ delegated' \in BOOLEAN /\ discoverable' \in BOOLEAN
    BY <1>2 DEF MInv, TypeOK
  <2>2. UNCHANGED <<kind, members, rooms, links, offer, administrators, directs>>
    BY <1>2 DEF UnchangedButScope
  <2> QED BY <1>2, <2>1, <2>2, ScopeWritten
<1> QED BY <1>1, <1>2 DEF SetManagersCanArchive, SettingsChecks

LEMMA OrgArchiveKeeps == ASSUME MInv, NEW h \in Handlers, OrgArchive(h) PROVE MInv'
<1>1. ASSUME NEW u \in accounts,
             OrganizationAsks(h, "orgArchive", u, Nobody, "none",
                     <<"systemAdmin", "notArchived">>)
      PROVE  MInv'
  <2>1. /\ u \in Users /\ kind = "ORGANIZATION"
       /\ Ask(h, "orgArchive", u, Nobody, "none", <<"systemAdmin", "notArchived">>)
    BY <1>1 DEF MInv, TypeOK, OrganizationAsks
  <2>2. Shaped("orgArchive", u, Nobody, "none", <<"notArchived">>)
    BY <1>1, <2>1 DEF Shaped, RequestOK, SubjectOK, PlaceOK, OpenOK, TargetOK, AnswerOK,
                WorkspaceRoutes, OrganizationRoutes, Granting, Entering, Unaddressed,
                UnaddressedLeft, RolesOf, WorkspaceRoles, OrgRoles, ChannelTypes
  <2>3. /\ <<"systemAdmin", "notArchived">> \in Seq(Checks)
        /\ <<"systemAdmin", "notArchived">> # <<>>
        /\ Head(<<"systemAdmin", "notArchived">>) = "systemAdmin"
        /\ Tail(<<"systemAdmin", "notArchived">>) = <<"notArchived">>
    BY <1>1 DEF Checks, Permissions
  <2> QED BY <1>1, <2>1, <2>2, <2>3, AskKeeps
          DEF Plain, Asked, Roles, WorkspaceRoles, OrgRoles, ChannelTypes
<1>2. ASSUME Writes(h, "orgArchive"), archived' = TRUE,
             UNCHANGED <<kind, delegated, discoverable>>,
             UNCHANGED <<members, rooms, links, offer, administrators, directs>>
      PROVE  MInv'
  <2>1. archived' \in BOOLEAN /\ delegated' \in BOOLEAN /\ discoverable' \in BOOLEAN
    BY <1>2 DEF MInv, TypeOK
  <2>2. UNCHANGED <<kind, members, rooms, links, offer, administrators, directs>>
    BY <1>2 DEF members
  <2> QED BY <1>2, <2>1, <2>2, ScopeWritten
<1> QED BY <1>1, <1>2 DEF OrgArchive, OrgArchiveChecks

LEMMA OrgUnarchiveKeeps == ASSUME MInv, NEW h \in Handlers, OrgUnarchive(h) PROVE MInv'
<1>1. ASSUME NEW u \in accounts,
             OrganizationAsks(h, "orgUnarchive", u, Nobody, "none",
                     <<"systemAdmin", "isArchived">>)
      PROVE  MInv'
  <2>1. /\ u \in Users /\ kind = "ORGANIZATION"
       /\ Ask(h, "orgUnarchive", u, Nobody, "none", <<"systemAdmin", "isArchived">>)
    BY <1>1 DEF MInv, TypeOK, OrganizationAsks
  <2>2. Shaped("orgUnarchive", u, Nobody, "none", <<"isArchived">>)
    BY <1>1, <2>1 DEF Shaped, RequestOK, SubjectOK, PlaceOK, OpenOK, TargetOK, AnswerOK,
                WorkspaceRoutes, OrganizationRoutes, Granting, Entering, Unaddressed,
                UnaddressedLeft, RolesOf, WorkspaceRoles, OrgRoles, ChannelTypes
  <2>3. /\ <<"systemAdmin", "isArchived">> \in Seq(Checks)
        /\ <<"systemAdmin", "isArchived">> # <<>>
        /\ Head(<<"systemAdmin", "isArchived">>) = "systemAdmin"
        /\ Tail(<<"systemAdmin", "isArchived">>) = <<"isArchived">>
    BY <1>1 DEF Checks, Permissions
  <2> QED BY <1>1, <2>1, <2>2, <2>3, AskKeeps
          DEF Plain, Asked, Roles, WorkspaceRoles, OrgRoles, ChannelTypes
<1>2. ASSUME Writes(h, "orgUnarchive"), archived' = FALSE,
             UNCHANGED <<kind, delegated, discoverable>>,
             UNCHANGED <<members, rooms, links, offer, administrators, directs>>
      PROVE  MInv'
  <2>1. archived' \in BOOLEAN /\ delegated' \in BOOLEAN /\ discoverable' \in BOOLEAN
    BY <1>2 DEF MInv, TypeOK
  <2>2. UNCHANGED <<kind, members, rooms, links, offer, administrators, directs>>
    BY <1>2 DEF members
  <2> QED BY <1>2, <2>1, <2>2, ScopeWritten
<1> QED BY <1>1, <1>2 DEF OrgUnarchive, OrgUnarchiveChecks

------------------------------------------------------------------------------
(* The channel.                                                                *)

LEMMA CreateChannelKeeps ==
    ASSUME MInv, NEW h \in Handlers, CreateChannel(h)
    PROVE  MInv'
<1>1. ASSUME NEW u \in accounts, NEW type \in ChannelTypes,
             WorkspaceAsks(h, "createChannel", u, u, type,
                     <<"memberOrSystemAdmin", "notArchived">>)
      PROVE  MInv'
  <2>1. /\ u \in Users /\ kind = "WORKSPACE"
       /\ Ask(h, "createChannel", u, u, type, <<"memberOrSystemAdmin", "notArchived">>)
    BY <1>1 DEF MInv, TypeOK, WorkspaceAsks
  <2>2. Shaped("createChannel", u, u, type, <<"notArchived">>)
    BY <1>1, <2>1 DEF Shaped, RequestOK, SubjectOK, PlaceOK, OpenOK, TargetOK, AnswerOK,
                WorkspaceRoutes, OrganizationRoutes, Granting, Entering, Unaddressed,
                UnaddressedLeft, RolesOf, WorkspaceRoles, OrgRoles, ChannelTypes
  <2>3. /\ <<"memberOrSystemAdmin", "notArchived">> \in Seq(Checks)
        /\ <<"memberOrSystemAdmin", "notArchived">> # <<>>
        /\ Head(<<"memberOrSystemAdmin", "notArchived">>) = "memberOrSystemAdmin"
        /\ Tail(<<"memberOrSystemAdmin", "notArchived">>) = <<"notArchived">>
    BY <1>1 DEF Checks, Permissions
  <2> QED BY <1>1, <2>1, <2>2, <2>3, AskKeeps
          DEF Plain, Asked, Roles, WorkspaceRoles, OrgRoles, ChannelTypes
<1>2. ASSUME Writes(h, "createChannel"), UnchangedButRooms,
             \/ /\ channel' = req[h].as
                /\ \/ UNCHANGED <<inChannel, visitors>> \/ Seated(req[h].by, req[h].saw)
             \/ UNCHANGED rooms
      PROVE  MInv'
  <2>1. req[h].by \in Users /\ req[h].as \in ChannelTypes
    BY <1>2, Serving DEF RequestOK, PlaceOK
  <2>2. inChannel' \subseteq Users /\ visitors' \subseteq Users
    BY <1>2, <2>1 DEF Seated, MInv, TypeOK, rooms
  <2>3. channel' \in {"none"} \cup ChannelTypes
    BY <1>2, <2>1 DEF MInv, TypeOK, rooms
  <2> QED BY <1>2, <2>2, <2>3, RoomsWritten DEF UnchangedButRooms
<1> QED BY <1>1, <1>2 DEF CreateChannel, CreateChannelChecks

LEMMA JoinChannelKeeps == ASSUME MInv, NEW h \in Handlers, JoinChannel(h) PROVE MInv'
<1>1. ASSUME NEW u \in accounts,
             WorkspaceAsks(h, "joinChannel", u, u, "none",
                     JoinChannelChecks)
      PROVE  MInv'
  <2>1. /\ u \in Users /\ kind = "WORKSPACE"
       /\ Ask(h, "joinChannel", u, u, "none", JoinChannelChecks)
    BY <1>1 DEF MInv, TypeOK, WorkspaceAsks
  <2>2. Shaped("joinChannel", u, u, "none", <<"notArchived", "isPublic", "isNotInChannel">>)
    BY <1>1, <2>1 DEF Shaped, RequestOK, SubjectOK, PlaceOK, OpenOK, TargetOK, AnswerOK,
                WorkspaceRoutes, OrganizationRoutes, Granting, Entering, Unaddressed,
                UnaddressedLeft, RolesOf, WorkspaceRoles, OrgRoles, ChannelTypes
  <2>3. /\ JoinChannelChecks \in Seq(Checks) /\ JoinChannelChecks # <<>>
        /\ Head(JoinChannelChecks) = "memberOrSystemAdmin"
        /\ Tail(JoinChannelChecks) = <<"notArchived", "isPublic", "isNotInChannel">>
    BY <1>1 DEF JoinChannelChecks, Checks, Permissions
  <2> QED BY <1>1, <2>1, <2>2, <2>3, AskKeeps
          DEF Plain, Asked, Roles, WorkspaceRoles, OrgRoles, ChannelTypes
<1>2. ASSUME Writes(h, "joinChannel"), UnchangedButRooms, channel' = channel,
             Seated(req[h].on, req[h].saw)
      PROVE  MInv'
  <2>1. req[h].on \in Users
    BY <1>2, Serving DEF Unaddressed
  <2>2. inChannel' \subseteq Users /\ visitors' \subseteq Users
    BY <1>2, <2>1 DEF Seated, MInv, TypeOK
  <2>3. channel' \in {"none"} \cup ChannelTypes
    BY <1>2 DEF MInv, TypeOK
  <2> QED BY <1>2, <2>2, <2>3, RoomsWritten DEF UnchangedButRooms
<1> QED BY <1>1, <1>2 DEF JoinChannel

LEMMA AddChannelMemberKeeps ==
    ASSUME MInv, NEW h \in Handlers, AddChannelMember(h)
    PROVE  MInv'
<1>1. ASSUME NEW u \in accounts, NEW v \in accounts,
             WorkspaceAsks(h, "addChannelMember", u, v, "none",
                     AddChannelMemberChecks)
      PROVE  MInv'
  <2>1. /\ u \in Users /\ v \in Users /\ kind = "WORKSPACE"
       /\ Ask(h, "addChannelMember", u, v, "none", AddChannelMemberChecks)
    BY <1>1 DEF MInv, TypeOK, WorkspaceAsks
  <2>2. Shaped("addChannelMember", u, v, "none", <<"notArchived", "isMember", "isNotInChannel">>)
    BY <1>1, <2>1 DEF Shaped, RequestOK, SubjectOK, PlaceOK, OpenOK, TargetOK, AnswerOK,
                WorkspaceRoutes, OrganizationRoutes, Granting, Entering, Unaddressed,
                UnaddressedLeft, RolesOf, WorkspaceRoles, OrgRoles, ChannelTypes
  <2>3. /\ AddChannelMemberChecks \in Seq(Checks) /\ AddChannelMemberChecks # <<>>
        /\ Head(AddChannelMemberChecks) = "channelMemberOrSystemAdmin"
        /\ Tail(AddChannelMemberChecks) = <<"notArchived", "isMember", "isNotInChannel">>
    BY <1>1 DEF AddChannelMemberChecks, Checks, Permissions
  <2> QED BY <1>1, <2>1, <2>2, <2>3, AskKeeps
          DEF Plain, Asked, Roles, WorkspaceRoles, OrgRoles, ChannelTypes
<1>2. ASSUME Writes(h, "addChannelMember"), UnchangedButRooms, channel' = channel,
             Seated(req[h].on, req[h].saw)
      PROVE  MInv'
  <2>1. req[h].on \in Users
    BY <1>2, Serving DEF Unaddressed
  <2>2. inChannel' \subseteq Users /\ visitors' \subseteq Users
    BY <1>2, <2>1 DEF Seated, MInv, TypeOK
  <2>3. channel' \in {"none"} \cup ChannelTypes
    BY <1>2 DEF MInv, TypeOK
  <2> QED BY <1>2, <2>2, <2>3, RoomsWritten DEF UnchangedButRooms
<1> QED BY <1>1, <1>2 DEF AddChannelMember

LEMMA RemoveChannelMemberKeeps ==
    ASSUME MInv, NEW h \in Handlers, RemoveChannelMember(h)
    PROVE  MInv'
<1>1. ASSUME NEW u \in accounts, NEW v \in accounts,
             WorkspaceAsks(h, "removeChannelMember", u, v, "none",
                     <<"channelMemberOrSystemAdmin", "notArchived", "isInChannel">>)
      PROVE  MInv'
  <2>1. /\ u \in Users /\ v \in Users /\ kind = "WORKSPACE"
       /\ Ask(h, "removeChannelMember", u, v, "none",
              <<"channelMemberOrSystemAdmin", "notArchived", "isInChannel">>)
    BY <1>1 DEF MInv, TypeOK, WorkspaceAsks
  <2>2. Shaped("removeChannelMember", u, v, "none", <<"notArchived", "isInChannel">>)
    BY <1>1, <2>1 DEF Shaped, RequestOK, SubjectOK, PlaceOK, OpenOK, TargetOK, AnswerOK,
                WorkspaceRoutes, OrganizationRoutes, Granting, Entering, Unaddressed,
                UnaddressedLeft, RolesOf, WorkspaceRoles, OrgRoles, ChannelTypes
  <2>3. /\ <<"channelMemberOrSystemAdmin", "notArchived", "isInChannel">> \in Seq(Checks)
        /\ <<"channelMemberOrSystemAdmin", "notArchived", "isInChannel">> # <<>>
        /\ Head(<<"channelMemberOrSystemAdmin", "notArchived", "isInChannel">>)
           = "channelMemberOrSystemAdmin"
        /\ Tail(<<"channelMemberOrSystemAdmin", "notArchived", "isInChannel">>)
           = <<"notArchived", "isInChannel">>
    BY <1>1 DEF Checks, Permissions
  <2> QED BY <1>1, <2>1, <2>2, <2>3, AskKeeps
          DEF Plain, Asked, Roles, WorkspaceRoles, OrgRoles, ChannelTypes
<1>2. ASSUME Writes(h, "removeChannelMember"), Unseated(req[h].on)
      PROVE  MInv'
  <2>1. inChannel' \subseteq Users /\ visitors' \subseteq Users
    BY <1>2 DEF Unseated, MInv, TypeOK
  <2>2. channel' \in {"none"} \cup ChannelTypes
    BY <1>2 DEF Unseated, MInv, TypeOK
  <2> QED BY <1>2, <2>1, <2>2, RoomsWritten DEF Unseated, UnchangedButRooms
<1> QED BY <1>1, <1>2 DEF RemoveChannelMember, RemoveChannelMemberChecks

LEMMA LeaveChannelKeeps == ASSUME MInv, NEW h \in Handlers, LeaveChannel(h) PROVE MInv'
<1>1. ASSUME NEW u \in accounts,
             WorkspaceAsks(h, "leaveChannel", u, u, "none",
                     <<"channelMember", "notArchived">>)
      PROVE  MInv'
  <2>1. /\ u \in Users /\ kind = "WORKSPACE"
       /\ Ask(h, "leaveChannel", u, u, "none", <<"channelMember", "notArchived">>)
    BY <1>1 DEF MInv, TypeOK, WorkspaceAsks
  <2>2. Shaped("leaveChannel", u, u, "none", <<"notArchived">>)
    BY <1>1, <2>1 DEF Shaped, RequestOK, SubjectOK, PlaceOK, OpenOK, TargetOK, AnswerOK,
                WorkspaceRoutes, OrganizationRoutes, Granting, Entering, Unaddressed,
                UnaddressedLeft, RolesOf, WorkspaceRoles, OrgRoles, ChannelTypes
  <2>3. /\ <<"channelMember", "notArchived">> \in Seq(Checks)
        /\ <<"channelMember", "notArchived">> # <<>>
        /\ Head(<<"channelMember", "notArchived">>) = "channelMember"
        /\ Tail(<<"channelMember", "notArchived">>) = <<"notArchived">>
    BY <1>1 DEF Checks, Permissions
  <2> QED BY <1>1, <2>1, <2>2, <2>3, AskKeeps
          DEF Plain, Asked, Roles, WorkspaceRoles, OrgRoles, ChannelTypes
<1>2. ASSUME Writes(h, "leaveChannel"), Unseated(req[h].on)
      PROVE  MInv'
  <2>1. inChannel' \subseteq Users /\ visitors' \subseteq Users
    BY <1>2 DEF Unseated, MInv, TypeOK
  <2>2. channel' \in {"none"} \cup ChannelTypes
    BY <1>2 DEF Unseated, MInv, TypeOK
  <2> QED BY <1>2, <2>1, <2>2, RoomsWritten DEF Unseated, UnchangedButRooms
<1> QED BY <1>1, <1>2 DEF LeaveChannel, LeaveChannelChecks

------------------------------------------------------------------------------
(* The members of an organization.                                             *)

LEMMA OrgAddMemberKeeps == ASSUME MInv, NEW h \in Handlers, OrgAddMember(h) PROVE MInv'
<1>1. ASSUME NEW u \in accounts, NEW v \in accounts, NEW r \in OrgRoles,
             OrganizationAsks(h, "orgAddMember", u, v, r,
                     OrgAddMemberChecks)
      PROVE  MInv'
  <2>1. /\ u \in Users /\ v \in Users /\ kind = "ORGANIZATION"
       /\ Ask(h, "orgAddMember", u, v, r, OrgAddMemberChecks)
    BY <1>1 DEF MInv, TypeOK, OrganizationAsks
  <2>2. Shaped("orgAddMember", u, v, r, <<"notArchived", "isNoMember">>)
    BY <1>1, <2>1 DEF Shaped, RequestOK, SubjectOK, PlaceOK, OpenOK, TargetOK, AnswerOK,
                WorkspaceRoutes, OrganizationRoutes, Granting, Entering, Unaddressed,
                UnaddressedLeft, RolesOf, WorkspaceRoles, OrgRoles, ChannelTypes
  <2>3. /\ OrgAddMemberChecks \in Seq(Checks) /\ OrgAddMemberChecks # <<>>
        /\ Head(OrgAddMemberChecks) = "ORG_MANAGE_MEMBERS"
        /\ Tail(OrgAddMemberChecks) = <<"notArchived", "isNoMember">>
    BY <1>1 DEF OrgAddMemberChecks, Checks, Permissions
  <2> QED BY <1>1, <2>1, <2>2, <2>3, AskKeeps
          DEF Plain, Asked, Roles, WorkspaceRoles, OrgRoles, ChannelTypes
<1>2. ASSUME Writes(h, "orgAddMember"), role' = Enrolled(req[h].on, req[h].as), UnchangedButRoles
      PROVE  MInv'
  <2>1. req[h].on \in Users /\ req[h].as \in RolesOf(kind) \ {"none", "OWNER"}
    BY <1>2, Serving DEF RequestOK, PlaceOK, Unaddressed, Granting
  <2> QED BY <1>2, <2>1, Enrolment, RolesWritten DEF MInv, UnchangedButRoles
<1> QED BY <1>1, <1>2 DEF OrgAddMember

\* An organization has no owner to lose.
LEMMA OrgRoleWritten ==
    ASSUME MInv, NEW h \in Handlers, NEW op \in {"orgChangeRole", "orgRemoveMember", "orgLeave"},
           Writes(h, op), UnchangedButRoles, NEW r \in RolesOf(kind), r # "OWNER",
           role' = [role EXCEPT ![req[h].on] = r]
    PROVE  MInv'
<1>1. req[h].on \in Users /\ kind = "ORGANIZATION"
  BY Serving DEF RequestOK, PlaceOK, Unaddressed, OrganizationRoutes
<1>2. role' \in [Users -> RolesOf(kind)]
  BY <1>1 DEF MInv, TypeOK
<1>3. \A v \in Users : role'[v] = "OWNER" <=> role[v] = "OWNER"
  BY <1>1, <1>2 DEF MInv, TypeOK, RolesOf, OrgRoles
<1> QED BY <1>2, <1>3, RolesWritten DEF UnchangedButRoles

LEMMA OrgChangeRoleKeeps ==
    ASSUME MInv, NEW h \in Handlers, OrgChangeRole(h)
    PROVE  MInv'
<1>1. ASSUME NEW u \in accounts, NEW v \in accounts, NEW r \in OrgRoles,
             OrganizationAsks(h, "orgChangeRole", u, v, r,
                     <<"ORG_MANAGE_MEMBERS", "notArchived", "isMember">>)
      PROVE  MInv'
  <2>1. /\ u \in Users /\ v \in Users /\ kind = "ORGANIZATION"
       /\ Ask(h, "orgChangeRole", u, v, r, <<"ORG_MANAGE_MEMBERS", "notArchived", "isMember">>)
    BY <1>1 DEF MInv, TypeOK, OrganizationAsks
  <2>2. Shaped("orgChangeRole", u, v, r, <<"notArchived", "isMember">>)
    BY <1>1, <2>1 DEF Shaped, RequestOK, SubjectOK, PlaceOK, OpenOK, TargetOK, AnswerOK,
                WorkspaceRoutes, OrganizationRoutes, Granting, Entering, Unaddressed,
                UnaddressedLeft, RolesOf, WorkspaceRoles, OrgRoles, ChannelTypes
  <2>3. /\ <<"ORG_MANAGE_MEMBERS", "notArchived", "isMember">> \in Seq(Checks)
        /\ <<"ORG_MANAGE_MEMBERS", "notArchived", "isMember">> # <<>>
        /\ Head(<<"ORG_MANAGE_MEMBERS", "notArchived", "isMember">>) = "ORG_MANAGE_MEMBERS"
        /\ Tail(<<"ORG_MANAGE_MEMBERS", "notArchived", "isMember">>) = <<"notArchived", "isMember">>
    BY <1>1 DEF Checks, Permissions
  <2> QED BY <1>1, <2>1, <2>2, <2>3, AskKeeps
          DEF Plain, Asked, Roles, WorkspaceRoles, OrgRoles, ChannelTypes
<1>2. ASSUME Writes(h, "orgChangeRole"), UnchangedButRoles,
             role' = [role EXCEPT ![req[h].on] = IF @ = "none" THEN @ ELSE req[h].as]
      PROVE  MInv'
  <2> DEFINE r == IF role[req[h].on] = "none" THEN "none" ELSE req[h].as
  <2>1. req[h].on \in Users /\ req[h].as \in RolesOf(kind) \ {"none", "OWNER"}
    BY <1>2, Serving DEF RequestOK, PlaceOK, Unaddressed, Granting
  <2>2. role' = [role EXCEPT ![req[h].on] = r] /\ r \in RolesOf(kind) /\ r # "OWNER"
    BY <1>2, <2>1 DEF RolesOf
  <2> HIDE DEF r
  <2> QED BY <1>2, <2>2, OrgRoleWritten
<1> QED BY <1>1, <1>2 DEF OrgChangeRole, OrgMemberChecks

LEMMA OrgRemoveMemberKeeps ==
    ASSUME MInv, NEW h \in Handlers, OrgRemoveMember(h)
    PROVE  MInv'
<1>1. ASSUME NEW u \in accounts, NEW v \in accounts,
             OrganizationAsks(h, "orgRemoveMember", u, v, "none",
                     <<"ORG_MANAGE_MEMBERS", "notArchived", "isMember">>)
      PROVE  MInv'
  <2>1. /\ u \in Users /\ v \in Users /\ kind = "ORGANIZATION"
       /\ Ask(h, "orgRemoveMember", u, v, "none",
              <<"ORG_MANAGE_MEMBERS", "notArchived", "isMember">>)
    BY <1>1 DEF MInv, TypeOK, OrganizationAsks
  <2>2. Shaped("orgRemoveMember", u, v, "none", <<"notArchived", "isMember">>)
    BY <1>1, <2>1 DEF Shaped, RequestOK, SubjectOK, PlaceOK, OpenOK, TargetOK, AnswerOK,
                WorkspaceRoutes, OrganizationRoutes, Granting, Entering, Unaddressed,
                UnaddressedLeft, RolesOf, WorkspaceRoles, OrgRoles, ChannelTypes
  <2>3. /\ <<"ORG_MANAGE_MEMBERS", "notArchived", "isMember">> \in Seq(Checks)
        /\ <<"ORG_MANAGE_MEMBERS", "notArchived", "isMember">> # <<>>
        /\ Head(<<"ORG_MANAGE_MEMBERS", "notArchived", "isMember">>) = "ORG_MANAGE_MEMBERS"
        /\ Tail(<<"ORG_MANAGE_MEMBERS", "notArchived", "isMember">>) = <<"notArchived", "isMember">>
    BY <1>1 DEF Checks, Permissions
  <2> QED BY <1>1, <2>1, <2>2, <2>3, AskKeeps
          DEF Plain, Asked, Roles, WorkspaceRoles, OrgRoles, ChannelTypes
<1>2. ASSUME Writes(h, "orgRemoveMember"), UnchangedButRoles,
             role' = [role EXCEPT ![req[h].on] = "none"]
      PROVE  MInv'
  <2>1. "none" \in RolesOf(kind)
    BY DEF RolesOf
  <2> QED BY <1>2, <2>1, OrgRoleWritten
<1> QED BY <1>1, <1>2 DEF OrgRemoveMember, OrgMemberChecks

LEMMA OrgLeaveKeeps == ASSUME MInv, NEW h \in Handlers, OrgLeave(h) PROVE MInv'
<1>1. ASSUME NEW u \in accounts,
             OrganizationAsks(h, "orgLeave", u, u, "none",
                     <<"member", "notArchived", "isMember">>)
      PROVE  MInv'
  <2>1. /\ u \in Users /\ kind = "ORGANIZATION"
       /\ Ask(h, "orgLeave", u, u, "none", <<"member", "notArchived", "isMember">>)
    BY <1>1 DEF MInv, TypeOK, OrganizationAsks
  <2>2. Shaped("orgLeave", u, u, "none", <<"notArchived", "isMember">>)
    BY <1>1, <2>1 DEF Shaped, RequestOK, SubjectOK, PlaceOK, OpenOK, TargetOK, AnswerOK,
                WorkspaceRoutes, OrganizationRoutes, Granting, Entering, Unaddressed,
                UnaddressedLeft, RolesOf, WorkspaceRoles, OrgRoles, ChannelTypes
  <2>3. /\ <<"member", "notArchived", "isMember">> \in Seq(Checks)
        /\ <<"member", "notArchived", "isMember">> # <<>>
        /\ Head(<<"member", "notArchived", "isMember">>) = "member"
        /\ Tail(<<"member", "notArchived", "isMember">>) = <<"notArchived", "isMember">>
    BY <1>1 DEF Checks, Permissions
  <2> QED BY <1>1, <2>1, <2>2, <2>3, AskKeeps
          DEF Plain, Asked, Roles, WorkspaceRoles, OrgRoles, ChannelTypes
<1>2. ASSUME Writes(h, "orgLeave"), UnchangedButRoles,
             role' = [role EXCEPT ![req[h].on] = "none"]
      PROVE  MInv'
  <2>1. "none" \in RolesOf(kind)
    BY DEF RolesOf
  <2> QED BY <1>2, <2>1, OrgRoleWritten
<1> QED BY <1>1, <1>2 DEF OrgLeave, OrgLeaveChecks

------------------------------------------------------------------------------
(* Accounts and administrators.                                                *)

LEMMA CreateAccountKeeps ==
    ASSUME MInv, NEW h \in Handlers, CreateAccount(h)
    PROVE  MInv'
<1>1. ASSUME NEW u \in admins, NEW v \in Users \ accounts,
             NEW place \in {"here", "elsewhere"}, place = "here" => kind = "ORGANIZATION",
             Ask(h, "createAccount", u, v, place,
                     <<"systemAdmin", "nameIsFree">>)
      PROVE  MInv'
  <2>1. u \in Users /\ v \in Users
    BY <1>1 DEF MInv, TypeOK
  <2>2. Shaped("createAccount", u, v, place, <<"nameIsFree">>)
    BY <1>1, <2>1 DEF Shaped, RequestOK, SubjectOK, PlaceOK, OpenOK, TargetOK, AnswerOK,
                WorkspaceRoutes, OrganizationRoutes, Granting, Entering, Unaddressed,
                UnaddressedLeft, RolesOf, WorkspaceRoles, OrgRoles, ChannelTypes
  <2>3. /\ <<"systemAdmin", "nameIsFree">> \in Seq(Checks)
        /\ <<"systemAdmin", "nameIsFree">> # <<>>
        /\ Head(<<"systemAdmin", "nameIsFree">>) = "systemAdmin"
        /\ Tail(<<"systemAdmin", "nameIsFree">>) = <<"nameIsFree">>
    BY <1>1 DEF Checks, Permissions
  <2> QED BY <1>1, <2>1, <2>2, <2>3, AskKeeps
          DEF Plain, Asked, Roles, WorkspaceRoles, OrgRoles, ChannelTypes
<1>2. ASSUME Writes(h, "createAccount"), 
             \/ UNCHANGED <<accounts, role>>
             \/ /\ accounts' = accounts \cup {req[h].on}
                /\ role' = IF req[h].as = "here" THEN Enrolled(req[h].on, "ORG_MEMBER") ELSE role,
             UNCHANGED <<scope, owner, contested, rooms, link, born, crossed, offer,
                         administrators, directs>>
      PROVE  MInv'
  <2>1. req[h].on \in Users /\ (req[h].as = "here" => kind = "ORGANIZATION")
    BY <1>2, Serving DEF RequestOK, PlaceOK, Unaddressed
  <2>2. req[h].as = "here" => "ORG_MEMBER" \in RolesOf(kind)
    BY <2>1 DEF RolesOf, OrgRoles
  <2>3. /\ role' \in [Users -> RolesOf(kind)]
        /\ \A v \in Users : role'[v] = "OWNER" <=> role[v] = "OWNER"
    BY <1>2, <2>1, <2>2, Enrolment DEF MInv, TypeOK
  <2>4. accounts' \subseteq Users
    BY <1>2, <2>1 DEF MInv, TypeOK
  <2>5. OneOwner'
    BY <1>2, <2>3, OwnersKept DEF MInv, scope
  <2> QED BY <1>2, <2>3, <2>4, <2>5, MembersWritten DEF MInv, TypeOK, scope, rooms
<1> QED BY <1>1, <1>2 DEF CreateAccount

LEMMA AdministratorsWritten ==
    ASSUME MInv, NEW h \in Handlers, NEW op, Writes(h, op), UnchangedButAdministrators,
           admins' \subseteq Users, orphaned' \in BOOLEAN, admins' # {} \/ orphaned'
    PROVE  MInv'
<1> USE DEF UnchangedButAdministrators, scope, members, rooms, links, directs
<1>1. /\ req' \in [Handlers -> Requests] /\ started' \in 0 .. MaxRequests
      /\ req'[h] = Idle /\ \A g \in Handlers \ {h} : req'[g] = req[g]
      /\ RequestsOK' /\ Exclusive'
  BY Served
<1>2. TypeOK'
  BY <1>1 DEF MInv, TypeOK, RolesOf
<1>3. RowsOK'
  <2>1. \A g \in Handlers : RowOK(req'[g])
    BY <1>1, IdleRequest DEF MInv, RowsOK
  <2> QED BY <2>1 DEF RowsOK, RowOK, Made
<1>4. LinkOK' /\ OffersOK' /\ ~doubled' /\ OneOwner' /\ AdministratorRemains'
  BY DEF MInv, LinkOK, OffersOK, OneOwner, AdministratorRemains
<1> QED BY <1>1, <1>2, <1>3, <1>4 DEF MInv

LEMMA PromoteKeeps == ASSUME MInv, NEW h \in Handlers, Promote(h) PROVE MInv'
<1>1. ASSUME NEW u \in accounts, NEW v \in accounts,
             Ask(h, "promote", u, v, "none",
                     <<"systemAdmin", "isNoAdministrator">>)
      PROVE  MInv'
  <2>1. u \in Users /\ v \in Users
    BY <1>1 DEF MInv, TypeOK
  <2>2. Shaped("promote", u, v, "none", <<"isNoAdministrator">>)
    BY <1>1, <2>1 DEF Shaped, RequestOK, SubjectOK, PlaceOK, OpenOK, TargetOK, AnswerOK,
                WorkspaceRoutes, OrganizationRoutes, Granting, Entering, Unaddressed,
                UnaddressedLeft, RolesOf, WorkspaceRoles, OrgRoles, ChannelTypes
  <2>3. /\ <<"systemAdmin", "isNoAdministrator">> \in Seq(Checks)
        /\ <<"systemAdmin", "isNoAdministrator">> # <<>>
        /\ Head(<<"systemAdmin", "isNoAdministrator">>) = "systemAdmin"
        /\ Tail(<<"systemAdmin", "isNoAdministrator">>) = <<"isNoAdministrator">>
    BY <1>1 DEF Checks, Permissions
  <2> QED BY <1>1, <2>1, <2>2, <2>3, AskKeeps
          DEF Plain, Asked, Roles, WorkspaceRoles, OrgRoles, ChannelTypes
<1>2. ASSUME Writes(h, "promote"), admins' = admins \cup {req[h].on}, orphaned' = orphaned,
             UnchangedButAdministrators
      PROVE  MInv'
  <2>1. req[h].on \in Users
    BY <1>2, Serving DEF Unaddressed
  <2>2. admins' \subseteq Users /\ orphaned' \in BOOLEAN
    BY <1>2, <2>1 DEF MInv, TypeOK
  <2>3. admins' # {} \/ orphaned'
    BY <1>2
  <2> QED BY <1>2, <2>2, <2>3, AdministratorsWritten
<1> QED BY <1>1, <1>2 DEF Promote, PromoteChecks

LEMMA DemoteKeeps == ASSUME MInv, NEW h \in Handlers, Demote(h) PROVE MInv'
<1>1. ASSUME NEW u \in accounts, NEW v \in accounts \ {u},
             Ask(h, "demote", u, v, "none",
                     <<"systemAdmin", "isAdministrator">>)
      PROVE  MInv'
  <2>1. u \in Users /\ v \in Users
    BY <1>1 DEF MInv, TypeOK
  <2>2. Shaped("demote", u, v, "none", <<"isAdministrator">>)
    BY <1>1, <2>1 DEF Shaped, RequestOK, SubjectOK, PlaceOK, OpenOK, TargetOK, AnswerOK,
                WorkspaceRoutes, OrganizationRoutes, Granting, Entering, Unaddressed,
                UnaddressedLeft, RolesOf, WorkspaceRoles, OrgRoles, ChannelTypes
  <2>3. /\ <<"systemAdmin", "isAdministrator">> \in Seq(Checks)
        /\ <<"systemAdmin", "isAdministrator">> # <<>>
        /\ Head(<<"systemAdmin", "isAdministrator">>) = "systemAdmin"
        /\ Tail(<<"systemAdmin", "isAdministrator">>) = <<"isAdministrator">>
    BY <1>1 DEF Checks, Permissions
  <2> QED BY <1>1, <2>1, <2>2, <2>3, AskKeeps
          DEF Plain, Asked, Roles, WorkspaceRoles, OrgRoles, ChannelTypes
<1>2. ASSUME Writes(h, "demote"), Demoted(h)
      PROVE  MInv'
  <2>1. req[h].by # req[h].on
    BY <1>2, Serving DEF RequestOK, SubjectOK
  <2>2. admins' \subseteq Users
    BY <1>2 DEF Demoted, MInv, TypeOK
  <2>3. orphaned' \in BOOLEAN
    <3>1. orphaned \in BOOLEAN
      BY DEF MInv, TypeOK
    <3> QED BY <1>2, <3>1 DEF Demoted
  <2>4. admins' # {} \/ orphaned'
    BY <1>2, <2>1 DEF Demoted
  <2> QED BY <1>2, <2>2, <2>3, <2>4, AdministratorsWritten DEF Demoted
<1> QED BY <1>1, <1>2 DEF Demote, DemoteChecks

------------------------------------------------------------------------------
(* Links.                                                                      *)

\* A write to the link leaves no other request in doubt that holds it.
LEMMA LinkWritten ==
    ASSUME MInv, NEW h \in Handlers, NEW op, Writes(h, op),
           UnchangedButLinks, role' \in [Users -> RolesOf(kind)],
           \A v \in Users : role'[v] = "OWNER" <=> role[v] = "OWNER",
           accounts' \subseteq Users, born' \subseteq Users, crossed' \in BOOLEAN,
           link' \in [status : LinkStates, by : Users \cup {Nobody}, role : RolesOf(kind)],
           LinkOK',
           link' = link \/ \A g \in Handlers \ {h} : req[g].op # "acceptLink"
    PROVE  MInv'
<1> USE DEF UnchangedButLinks, scope, rooms, administrators, directs
<1>1. /\ req' \in [Handlers -> Requests] /\ started' \in 0 .. MaxRequests
      /\ req'[h] = Idle /\ \A g \in Handlers \ {h} : req'[g] = req[g]
      /\ RequestsOK' /\ Exclusive'
  BY Served
<1>2. TypeOK'
  BY <1>1 DEF MInv, TypeOK, RolesOf
<1>3. RowsOK'
  <2>1. \A g \in Handlers : RowOK(req'[g])
    BY <1>1, IdleRequest DEF MInv, RowsOK
  <2>2. req'[h].op # "acceptLink"
    BY <1>1, IdleRequest
  <2>3. link' = link \/ \A g \in Handlers : req'[g].op # "acceptLink"
    BY <1>1, <2>2
  <2> QED BY <2>1, <2>3 DEF RowsOK, RowOK, Made
<1>4. OneOwner'
  BY OwnersKept DEF MInv
<1>5. OffersOK' /\ ~doubled' /\ AdministratorRemains'
  BY DEF MInv, OffersOK, AdministratorRemains
<1> QED BY <1>1, <1>2, <1>3, <1>4, <1>5 DEF MInv

LEMMA LinkInsertedKeeps ==
    ASSUME MInv, NEW h \in Handlers, NEW op \in {"createLink", "orgCreateLink"}, Writes(h, op),
           LinkInserted(h)
    PROVE  MInv'
<1>1. req[h].by \in Users /\ req[h].as \in RolesOf(kind) \ {"none", "OWNER"}
  BY Serving DEF RequestOK, PlaceOK, Granting
<1>2. /\ link' \in [status : LinkStates, by : Users \cup {Nobody}, role : RolesOf(kind)]
      /\ link' = link \/ \A g \in Handlers \ {h} : req[g].op # "acceptLink"
  <2>1. link.status = "none" => \A g \in Handlers : req[g].op # "acceptLink"
    BY DEF MInv, RowsOK, RowOK
  <2> QED BY <1>1, <2>1 DEF LinkInserted, MInv, TypeOK, LinkStates
<1>3. LinkOK'
  BY <1>1 DEF LinkInserted, MInv, LinkOK
<1>4. /\ role' \in [Users -> RolesOf(kind)] /\ accounts' \subseteq Users
      /\ born' \subseteq Users /\ crossed' \in BOOLEAN
      /\ \A v \in Users : role'[v] = "OWNER" <=> role[v] = "OWNER"
  BY DEF LinkInserted, MInv, TypeOK
<1> QED BY <1>2, <1>3, <1>4, LinkWritten DEF LinkInserted

LEMMA CreateWorkspaceLinkKeeps ==
    ASSUME MInv, NEW h \in Handlers, CreateWorkspaceLink(h)
    PROVE  MInv'
<1>1. ASSUME NEW u \in accounts, NEW r \in WorkspaceRoles,
             WorkspaceAsks(h, "createLink", u, Nobody, r,
                     <<ToGrant(r), "notArchived">>)
      PROVE  MInv'
  <2>1. /\ u \in Users /\ kind = "WORKSPACE"
       /\ Ask(h, "createLink", u, Nobody, r, <<ToGrant(r), "notArchived">>)
    BY <1>1 DEF MInv, TypeOK, WorkspaceAsks
  <2>2. Shaped("createLink", u, Nobody, r, <<"notArchived">>)
    BY <1>1, <2>1 DEF Shaped, RequestOK, SubjectOK, PlaceOK, OpenOK, TargetOK, AnswerOK,
                WorkspaceRoutes, OrganizationRoutes, Granting, Entering, Unaddressed,
                UnaddressedLeft, RolesOf, WorkspaceRoles, OrgRoles, ChannelTypes
  <2>3. /\ <<ToGrant(r), "notArchived">> \in Seq(Checks)
        /\ <<ToGrant(r), "notArchived">> # <<>>
        /\ Head(<<ToGrant(r), "notArchived">>) \in {"MANAGE_MANAGERS", "MANAGE_MEMBERS"}
        /\ Tail(<<ToGrant(r), "notArchived">>) = <<"notArchived">>
    BY <1>1 DEF ToGrant, Checks, Permissions
  <2> QED BY <1>1, <2>1, <2>2, <2>3, AskKeeps
          DEF Plain, Asked, Roles, WorkspaceRoles, OrgRoles, ChannelTypes
<1>2. ASSUME Writes(h, "createLink"), LinkInserted(h) PROVE MInv'
  BY <1>2, LinkInsertedKeeps
<1> QED BY <1>1, <1>2 DEF CreateWorkspaceLink, LinkChecks

LEMMA CreateOrgLinkKeeps ==
    ASSUME MInv, NEW h \in Handlers, CreateOrgLink(h)
    PROVE  MInv'
<1>1. ASSUME NEW u \in accounts, NEW r \in OrgRoles,
             OrganizationAsks(h, "orgCreateLink", u, Nobody, r,
                     <<"ORG_INVITE", "notArchived">>)
      PROVE  MInv'
  <2>1. /\ u \in Users /\ kind = "ORGANIZATION"
       /\ Ask(h, "orgCreateLink", u, Nobody, r, <<"ORG_INVITE", "notArchived">>)
    BY <1>1 DEF MInv, TypeOK, OrganizationAsks
  <2>2. Shaped("orgCreateLink", u, Nobody, r, <<"notArchived">>)
    BY <1>1, <2>1 DEF Shaped, RequestOK, SubjectOK, PlaceOK, OpenOK, TargetOK, AnswerOK,
                WorkspaceRoutes, OrganizationRoutes, Granting, Entering, Unaddressed,
                UnaddressedLeft, RolesOf, WorkspaceRoles, OrgRoles, ChannelTypes
  <2>3. /\ <<"ORG_INVITE", "notArchived">> \in Seq(Checks)
        /\ <<"ORG_INVITE", "notArchived">> # <<>>
        /\ Head(<<"ORG_INVITE", "notArchived">>) = "ORG_INVITE"
        /\ Tail(<<"ORG_INVITE", "notArchived">>) = <<"notArchived">>
    BY <1>1 DEF Checks, Permissions
  <2> QED BY <1>1, <2>1, <2>2, <2>3, AskKeeps
          DEF Plain, Asked, Roles, WorkspaceRoles, OrgRoles, ChannelTypes
<1>2. ASSUME Writes(h, "orgCreateLink"), LinkInserted(h) PROVE MInv'
  BY <1>2, LinkInsertedKeeps
<1> QED BY <1>1, <1>2 DEF CreateOrgLink, OrgLinkChecks

LEMMA RevokeLinkKeeps == ASSUME MInv, NEW h \in Handlers, RevokeLink(h) PROVE MInv'
<1>1. ASSUME NEW u \in accounts, NEW p \in {"ORG_INVITE", "MANAGE_MEMBERS"},
             Ask(h, "revokeLink", u, Nobody, p,
                     <<"linkExists", "mayRevoke">>)
      PROVE  MInv'
  <2>1. u \in Users
    BY <1>1 DEF MInv, TypeOK
  <2>2. Shaped("revokeLink", u, Nobody, p, <<"mayRevoke">>)
    BY <1>1, <2>1 DEF Shaped, RequestOK, SubjectOK, PlaceOK, OpenOK, TargetOK, AnswerOK,
                WorkspaceRoutes, OrganizationRoutes, Granting, Entering, Unaddressed,
                UnaddressedLeft, RolesOf, WorkspaceRoles, OrgRoles, ChannelTypes
  <2>3. /\ <<"linkExists", "mayRevoke">> \in Seq(Checks)
        /\ <<"linkExists", "mayRevoke">> # <<>>
        /\ Head(<<"linkExists", "mayRevoke">>) = "linkExists"
        /\ Tail(<<"linkExists", "mayRevoke">>) = <<"mayRevoke">>
    BY <1>1 DEF Checks, Permissions
  <2> QED BY <1>1, <2>1, <2>2, <2>3, AskKeeps
          DEF Plain, Asked, Roles, WorkspaceRoles, OrgRoles, ChannelTypes
<1>2. ASSUME Free(<<"link", 0>>, h), Writes(h, "revokeLink"),
             link' = [link EXCEPT !.status = "REVOKED"],
             crossed' = (crossed \/ (link.status = "ACCEPTED" /\ req[h].saw # "ACCEPTED")),
             UNCHANGED <<role, accounts, born>>, UnchangedButLinks
      PROVE  MInv'
  <2>1. req[h].saw # "ACCEPTED"
    <3>1. req[h].op = "revokeLink" /\ req[h].left = <<>> /\ AnswerOK(req[h])
      BY <1>2, Serving DEF RequestOK
    <3> QED BY <3>1, Tails DEF AnswerOK
  <2>2. \A g \in Handlers \ {h} : req[g].op # "acceptLink"
    BY <1>2 DEF Free, Holds
  <2>3. link' \in [status : LinkStates, by : Users \cup {Nobody}, role : RolesOf(kind)]
    BY <1>2 DEF MInv, TypeOK, LinkStates
  <2>4. crossed' \in BOOLEAN
    <3>1. crossed \in BOOLEAN
      BY DEF MInv, TypeOK
    <3> QED BY <1>2, <3>1
  <2>5. LinkOK'
    <3>1. link'.status = "REVOKED" /\ link'.role = link.role
      BY <1>2 DEF MInv, TypeOK
    <3>2. crossed' <=> crossed \/ link.status = "ACCEPTED"
      BY <1>2, <2>1
    <3> QED BY <1>2, <3>1, <3>2 DEF MInv, LinkOK
  <2>6. /\ role' \in [Users -> RolesOf(kind)] /\ accounts' \subseteq Users
        /\ born' \subseteq Users
        /\ \A v \in Users : role'[v] = "OWNER" <=> role[v] = "OWNER"
    BY <1>2 DEF MInv, TypeOK
  <2> QED BY <1>2, <2>2, <2>3, <2>4, <2>5, <2>6, LinkWritten
<1> QED BY <1>1, <1>2 DEF RevokeLink, RevokeChecks

\* A request that takes the row it will work on.
LEMMA TakeKeeps ==
    ASSUME MInv, NEW h \in Handlers, NEW q \in Requests, Take(h, q), q.left # <<>>,
           Sees(q, Head(q.left)) \in Answers, RequestOK(Learn(q)), RowOK(Learn(q)),
           Holds(Learn(q)) = <<"nothing", 0>> \/ Free(Holds(Learn(q)), h)
    PROVE  MInv'
<1>1. Learn(q) \in Requests
  BY LearntIsRequest DEF MInv
<1>2. /\ req' = [req EXCEPT ![h] = Learn(q)] /\ started' \in 0 .. MaxRequests
      /\ UNCHANGED <<scope, members, rooms, links, offer, administrators, directs>>
  BY AccessAssumption DEF Take, MInv, TypeOK
<1> QED BY <1>1, <1>2, OneRequest

LEMMA AcceptLinkKeeps == ASSUME MInv, NEW h \in Handlers, AcceptLink(h) PROVE MInv'
<1>1. ASSUME NEW u \in Users \ accounts, Free(<<"link", 0>>, h),
             Ask(h, "acceptLink", u, u, "none", AcceptLinkChecks)
      PROVE  MInv'
  <2> DEFINE q == [Idle EXCEPT !.op = "acceptLink", !.by = u, !.on = u, !.as = "none",
                               !.left = AcceptLinkChecks]
  <2>1. q \in Requests
    <3>1. AcceptLinkChecks \in Seq(Checks) /\ "acceptLink" \in Routes /\ "none" \in Asked
      BY DEF Routes, Asked, Roles, AcceptLinkChecks, Checks
    <3> QED BY <3>1, IdleRequest DEF Requests
  <2>2. /\ q.op = "acceptLink" /\ q.by = u /\ q.on = u /\ q.as = "none" /\ q.saw = "none"
        /\ q.left = <<"linkIsPending", "notArchived">>
    BY DEF Idle, AcceptLinkChecks
  <2>3. Take(h, q)
    BY <1>1 DEF Ask
  <2> HIDE DEF q
  <2>4. /\ Head(q.left) = "linkIsPending" /\ q.left # <<>>
        /\ Tail(q.left) = <<"notArchived">>
    BY <2>2
  <2>5. Sees(q, Head(q.left)) \in Answers /\ link.status = "PENDING"
    BY <2>2, <2>3, <2>4 DEF Sees, Answers, Roles, Take, Passes, Permissions
  <2>6. RequestOK(Learn(q))
    <3>1. /\ Learn(q).op = "acceptLink" /\ Learn(q).by = u /\ Learn(q).on = u
          /\ Learn(q).left = <<"notArchived">>
      BY <2>1, <2>2, <2>4, Learnt
    <3>2. SubjectOK(Learn(q)) /\ OpenOK(Learn(q))
      BY <3>1, Tails DEF SubjectOK, OpenOK
    <3>3. PlaceOK(Learn(q)) /\ TargetOK(Learn(q)) /\ AnswerOK(Learn(q))
      BY <3>1 DEF PlaceOK, TargetOK, AnswerOK, WorkspaceRoutes, OrganizationRoutes, Granting
    <3> QED BY <3>2, <3>3 DEF RequestOK
  <2>7. RowOK(Learn(q)) /\ Holds(Learn(q)) = <<"link", 0>>
    BY <2>1, <2>2, <2>5, Learnt DEF RowOK, Holds, Answering
  <2> QED BY <1>1, <2>1, <2>3, <2>4, <2>5, <2>6, <2>7, TakeKeeps
<1>2. ASSUME Writes(h, "acceptLink"), Redeemed(h) PROVE MInv'
  <2> DEFINE u == req[h].by
  <2>1. u \in Users /\ link.status \in {"PENDING", "EXPIRED"}
    BY <1>2, Serving DEF RowOK
  <2>2. born = {} /\ link.role # "OWNER" /\ link.role \in RolesOf(kind)
    BY <2>1 DEF MInv, LinkOK, TypeOK
  <2>3. \A g \in Handlers \ {h} : req[g].op # "acceptLink"
    <3>1. \A g \in Handlers : req[g].op = "acceptLink" => Holds(req[g]) = <<"link", 0>>
      BY DEF Holds
    <3>2. req[h].op = "acceptLink"
      BY <1>2, Serving
    <3> QED BY <3>1, <3>2 DEF MInv, Exclusive
  <2>4. CASE u \in accounts
    <3>1. UNCHANGED <<accounts, born, role, link, crossed>> /\ UnchangedButLinks
      BY <1>2, <2>4 DEF Redeemed
    <3>2. LinkOK'
      BY <3>1 DEF MInv, LinkOK
    <3> QED BY <1>2, <3>1, <3>2, LinkWritten DEF MInv, TypeOK
  <2>5. CASE u \notin accounts
    <3>1. /\ accounts' = accounts \cup {u} /\ born' = born \cup {u}
          /\ role' = Enrolled(u, link.role) /\ link' = [link EXCEPT !.status = "ACCEPTED"]
          /\ crossed' = crossed /\ UnchangedButLinks
      BY <1>2, <2>5 DEF Redeemed
    <3>2. /\ role' \in [Users -> RolesOf(kind)]
          /\ \A v \in Users : role'[v] = "OWNER" <=> role[v] = "OWNER"
      BY <2>1, <2>2, <3>1, Enrolment DEF MInv
    <3>3. link' \in [status : LinkStates, by : Users \cup {Nobody}, role : RolesOf(kind)]
      BY <3>1 DEF MInv, TypeOK, LinkStates
    <3>4. LinkOK'
      <4>1. link'.status = "ACCEPTED" /\ link'.role = link.role
        BY <3>1 DEF MInv, TypeOK
      <4>2. born' = {u}
        BY <2>2, <3>1
      <4> QED BY <2>1, <2>2, <4>1, <4>2 DEF LinkOK
    <3>5. accounts' \subseteq Users /\ born' \subseteq Users /\ crossed' \in BOOLEAN
      BY <2>1, <3>1 DEF MInv, TypeOK
    <3> QED BY <1>2, <2>3, <3>1, <3>2, <3>3, <3>4, <3>5, LinkWritten
  <2> QED BY <2>4, <2>5
<1> QED BY <1>1, <1>2 DEF AcceptLink

LEMMA LinkExpiresKeeps == ASSUME MInv, LinkExpires PROVE MInv'
<1> USE DEF LinkExpires, UnchangedButLinks, scope, rooms, administrators, directs
<1>1. /\ link' \in [status : LinkStates, by : Users \cup {Nobody}, role : RolesOf(kind)]
      /\ link'.status = "EXPIRED" /\ link'.role = link.role
  BY DEF MInv, TypeOK, LinkStates
<1>2. TypeOK'
  BY <1>1 DEF MInv, TypeOK, RolesOf
<1>3. \A g \in Handlers : RequestOK(req[g])'
  <2>1. \A g \in Handlers : PlaceOK(req[g])'
    BY DEF MInv, RequestsOK, RequestOK, PlaceOK, RolesOf
  <2>2. \A g \in Handlers : SubjectOK(req[g])' /\ OpenOK(req[g])'
    BY DEF MInv, RequestsOK, RequestOK, SubjectOK, OpenOK
  <2>3. \A g \in Handlers : TargetOK(req[g])' /\ AnswerOK(req[g])'
    BY DEF MInv, RequestsOK, RequestOK, TargetOK, AnswerOK
  <2> QED BY <2>1, <2>2, <2>3 DEF RequestOK
<1>4. RowsOK' /\ Exclusive'
  BY <1>1 DEF MInv, RowsOK, RowOK, Made, Exclusive, Holds
<1>5. LinkOK' /\ OffersOK' /\ ~doubled' /\ OneOwner' /\ AdministratorRemains'
  BY <1>1 DEF MInv, LinkOK, OffersOK, OneOwner, AdministratorRemains
<1> QED BY <1>2, <1>3, <1>4, <1>5 DEF MInv, RequestsOK

------------------------------------------------------------------------------
(* Offers.                                                                     *)

\* A write to the offers leaves the ones alone that other requests hold.
LEMMA OffersWritten ==
    ASSUME MInv, NEW h \in Handlers, NEW op, Writes(h, op),
           UnchangedButOffers, role' \in [Users -> RolesOf(kind)],
           \A v \in Users : role'[v] = "OWNER" <=> role[v] = "OWNER",
           offer' \in [Offers -> [status : OfferStates, to : Users \cup {Nobody},
                                  role : RolesOf(kind)]],
           OffersOK',
           \A g \in Handlers \ {h} :
               req[g].op \in Answering => offer'[req[g].row] = offer[req[g].row]
    PROVE  MInv'
<1> USE DEF UnchangedButOffers, scope, rooms, links, administrators, directs
<1>1. /\ req' \in [Handlers -> Requests] /\ started' \in 0 .. MaxRequests
      /\ req'[h] = Idle /\ \A g \in Handlers \ {h} : req'[g] = req[g]
      /\ RequestsOK' /\ Exclusive'
  BY Served
<1>2. TypeOK'
  BY <1>1 DEF MInv, TypeOK, RolesOf
<1>3. RowsOK'
  <2>1. \A g \in Handlers : RowOK(req'[g])
    BY <1>1, IdleRequest DEF MInv, RowsOK
  <2>2. req'[h].op \notin Answering
    BY <1>1, IdleRequest DEF Answering
  <2>3. \A g \in Handlers :
            req'[g].op \in Answering => offer'[req'[g].row] = offer[req'[g].row]
    BY <1>1, <2>2
  <2> QED BY <2>1, <2>3 DEF RowsOK, RowOK, Made
<1>4. OneOwner'
  BY OwnersKept DEF MInv
<1>5. LinkOK' /\ ~doubled' /\ AdministratorRemains'
  BY DEF MInv, LinkOK, AdministratorRemains
<1> QED BY <1>1, <1>2, <1>3, <1>4, <1>5 DEF MInv

LEMMA OfferInsertedKeeps ==
    ASSUME MInv, NEW h \in Handlers, NEW op \in {"offerMembership", "orgOfferMembership"},
           Writes(h, op), OfferInserted(h)
    PROVE  MInv'
<1>1. req[h].on \in Users /\ req[h].as \in RolesOf(kind) \ {"none", "OWNER"}
  BY Serving DEF RequestOK, PlaceOK, Granting, Unaddressed
<1>2. PICK o \in Offers :
          /\ offer[o].status = "none"
          /\ offer' = [offer EXCEPT ![o] =
                          [status |-> "PENDING", to |-> req[h].on, role |-> req[h].as]]
  BY DEF OfferInserted
<1>3. offer' \in [Offers -> [status : OfferStates, to : Users \cup {Nobody},
                             role : RolesOf(kind)]]
  BY <1>1, <1>2 DEF MInv, TypeOK, OfferStates
<1>4. OffersOK'
  BY <1>1, <1>2 DEF MInv, TypeOK, OffersOK
<1>5. \A g \in Handlers \ {h} :
          req[g].op \in Answering => offer'[req[g].row] = offer[req[g].row]
  BY <1>2 DEF MInv, TypeOK, RowsOK, RowOK
<1>6. /\ role' \in [Users -> RolesOf(kind)] /\ UnchangedButOffers
      /\ \A v \in Users : role'[v] = "OWNER" <=> role[v] = "OWNER"
  BY DEF OfferInserted, MInv, TypeOK
<1> QED BY <1>3, <1>4, <1>5, <1>6, OffersWritten

LEMMA OfferWorkspaceMembershipKeeps ==
    ASSUME MInv, NEW h \in Handlers, OfferWorkspaceMembership(h)
    PROVE  MInv'
<1>1. ASSUME NEW u \in accounts, NEW v \in accounts, NEW r \in WorkspaceRoles,
             WorkspaceAsks(h, "offerMembership", u, v, r,
                     <<ToGrant(r), "notArchived", "isNoMember", "noOfferPending">>)
      PROVE  MInv'
  <2>1. /\ u \in Users /\ v \in Users /\ kind = "WORKSPACE"
       /\ Ask(h, "offerMembership", u, v, r,
              <<ToGrant(r), "notArchived", "isNoMember", "noOfferPending">>)
    BY <1>1 DEF MInv, TypeOK, WorkspaceAsks
  <2>2. Shaped("offerMembership", u, v, r, <<"notArchived", "isNoMember", "noOfferPending">>)
    BY <1>1, <2>1 DEF Shaped, RequestOK, SubjectOK, PlaceOK, OpenOK, TargetOK, AnswerOK,
                WorkspaceRoutes, OrganizationRoutes, Granting, Entering, Unaddressed,
                UnaddressedLeft, RolesOf, WorkspaceRoles, OrgRoles, ChannelTypes
  <2>3. /\ <<ToGrant(r), "notArchived", "isNoMember", "noOfferPending">> \in Seq(Checks)
        /\ <<ToGrant(r), "notArchived", "isNoMember", "noOfferPending">> # <<>>
        /\ Head(<<ToGrant(r), "notArchived", "isNoMember", "noOfferPending">>)
           \in {"MANAGE_MANAGERS", "MANAGE_MEMBERS"}
        /\ Tail(<<ToGrant(r), "notArchived", "isNoMember", "noOfferPending">>)
           = <<"notArchived", "isNoMember", "noOfferPending">>
    BY <1>1 DEF ToGrant, Checks, Permissions
  <2> QED BY <1>1, <2>1, <2>2, <2>3, AskKeeps
          DEF Plain, Asked, Roles, WorkspaceRoles, OrgRoles, ChannelTypes
<1>2. ASSUME Writes(h, "offerMembership"), OfferInserted(h) PROVE MInv'
  BY <1>2, OfferInsertedKeeps
<1> QED BY <1>1, <1>2 DEF OfferWorkspaceMembership, OfferChecks

LEMMA OfferOrgMembershipKeeps ==
    ASSUME MInv, NEW h \in Handlers, OfferOrgMembership(h)
    PROVE  MInv'
<1>1. ASSUME NEW u \in accounts, NEW v \in accounts, NEW r \in OrgRoles,
             OrganizationAsks(h, "orgOfferMembership", u, v, r,
                     <<"ORG_MANAGE_MEMBERS", "notArchived", "isNoMember", "noOfferPending">>)
      PROVE  MInv'
  <2>1. /\ u \in Users /\ v \in Users /\ kind = "ORGANIZATION"
       /\ Ask(h, "orgOfferMembership", u, v, r,
              <<"ORG_MANAGE_MEMBERS", "notArchived", "isNoMember", "noOfferPending">>)
    BY <1>1 DEF MInv, TypeOK, OrganizationAsks
  <2>2. Shaped("orgOfferMembership", u, v, r, <<"notArchived", "isNoMember", "noOfferPending">>)
    BY <1>1, <2>1 DEF Shaped, RequestOK, SubjectOK, PlaceOK, OpenOK, TargetOK, AnswerOK,
                WorkspaceRoutes, OrganizationRoutes, Granting, Entering, Unaddressed,
                UnaddressedLeft, RolesOf, WorkspaceRoles, OrgRoles, ChannelTypes
  <2>3. /\ <<"ORG_MANAGE_MEMBERS", "notArchived", "isNoMember", "noOfferPending">> \in Seq(Checks)
        /\ <<"ORG_MANAGE_MEMBERS", "notArchived", "isNoMember", "noOfferPending">> # <<>>
        /\ Head(<<"ORG_MANAGE_MEMBERS", "notArchived", "isNoMember", "noOfferPending">>)
           = "ORG_MANAGE_MEMBERS"
        /\ Tail(<<"ORG_MANAGE_MEMBERS", "notArchived", "isNoMember", "noOfferPending">>)
           = <<"notArchived", "isNoMember", "noOfferPending">>
    BY <1>1 DEF Checks, Permissions
  <2> QED BY <1>1, <2>1, <2>2, <2>3, AskKeeps
          DEF Plain, Asked, Roles, WorkspaceRoles, OrgRoles, ChannelTypes
<1>2. ASSUME Writes(h, "orgOfferMembership"), OfferInserted(h) PROVE MInv'
  BY <1>2, OfferInsertedKeeps
<1> QED BY <1>1, <1>2 DEF OfferOrgMembership, OrgOfferChecks

\* An offer that is taken is pending, and of no other request.
LEMMA TakeOfferKeeps ==
    ASSUME MInv, NEW h \in Handlers, NEW op, NEW checks, NEW left,
           \/ op = "declineOffer" /\ checks = <<"ownOfferPending">> /\ left = <<>>
           \/ /\ op = "acceptOffer" /\ left = <<"notArchived", "membership">>
              /\ checks = <<"ownOfferPending", "notArchived", "membership">>,
           TakeOffer(h, op, checks)
    PROVE  MInv'
<1>1. PICK u \in accounts, o \in Offers :
          /\ Free(<<"offer", o>>, h)
          /\ Take(h, [Idle EXCEPT !.op = op, !.by = u, !.on = u, !.row = o, !.left = checks])
  BY DEF TakeOffer
<1> DEFINE q == [Idle EXCEPT !.op = op, !.by = u, !.on = u, !.row = o, !.left = checks]
<1>2. /\ checks \in Seq(Checks) /\ op \in Routes /\ o \in Nat /\ u \in Users
      /\ checks # <<>> /\ Head(checks) = "ownOfferPending" /\ Tail(checks) = left
  <2>1. op \in Routes /\ o \in Nat /\ u \in Users
    BY DEF Routes, Offers, MInv, TypeOK
  <2>2. CASE checks = <<"ownOfferPending">> /\ left = <<>>
    BY <2>1, <2>2 DEF Checks
  <2>3. CASE /\ checks = <<"ownOfferPending", "notArchived", "membership">>
             /\ left = <<"notArchived", "membership">>
    BY <2>1, <2>3 DEF Checks
  <2> QED BY <2>2, <2>3
<1>3. q \in Requests
  BY <1>2, IdleRequest DEF Requests
<1>4. /\ q.op = op /\ q.by = u /\ q.on = u /\ q.row = o /\ q.saw = "none" /\ q.left = checks
      /\ Take(h, q)
  BY <1>1 DEF Idle
<1> HIDE DEF q
<1>5. offer[o].status = "PENDING"
  BY <1>2, <1>4 DEF Take, Passes, Permissions
<1>6. Sees(q, Head(q.left)) \in Answers
  BY <1>2, <1>4 DEF Sees, Answers, Roles
<1>7. /\ Learn(q).op = op /\ Learn(q).by = u /\ Learn(q).on = u /\ Learn(q).row = o
      /\ Learn(q).left = left
  BY <1>2, <1>3, <1>4, Learnt
<1>8. RequestOK(Learn(q))
  <2>1. SubjectOK(Learn(q)) /\ PlaceOK(Learn(q)) /\ TargetOK(Learn(q))
    BY <1>2, <1>7 DEF SubjectOK, PlaceOK, TargetOK, WorkspaceRoutes, OrganizationRoutes, Granting
  <2>2. OpenOK(Learn(q))
    BY <1>7, Tails DEF OpenOK, Entering
  <2>3. AnswerOK(Learn(q))
    BY <1>7 DEF AnswerOK
  <2> QED BY <2>1, <2>2, <2>3 DEF RequestOK
<1>9. RowOK(Learn(q)) /\ Holds(Learn(q)) = <<"offer", o>>
  BY <1>5, <1>7 DEF RowOK, Holds, Answering
<1> QED BY <1>1, <1>2, <1>3, <1>4, <1>6, <1>8, <1>9, TakeKeeps

\* An offer is answered by the one request that holds it.
LEMMA AnswerKeeps ==
    ASSUME MInv, NEW h \in Handlers, NEW op \in Answering, Writes(h, op), UnchangedButOffers,
           NEW answer \in OfferStates, offer' = [offer EXCEPT ![req[h].row].status = answer],
           role' \in [Users -> RolesOf(kind)],
           \A v \in Users : role'[v] = "OWNER" <=> role[v] = "OWNER"
    PROVE  MInv'
<1>1. req[h].op = op /\ req[h].row \in Offers
  BY Serving DEF RowOK, Answering
<1>2. \A g \in Handlers \ {h} : req[g].op \in Answering => req[g].row # req[h].row
  <2>1. \A g \in Handlers : req[g].op \in Answering => Holds(req[g]) = <<"offer", req[g].row>>
    BY DEF Holds, Answering
  <2> QED BY <1>1, <2>1 DEF MInv, Exclusive
<1>3. /\ offer' \in [Offers -> [status : OfferStates, to : Users \cup {Nobody},
                                role : RolesOf(kind)]]
      /\ \A o \in Offers : offer'[o].role = offer[o].role
  BY <1>1 DEF MInv, TypeOK
<1>4. OffersOK'
  BY <1>3 DEF MInv, OffersOK
<1>5. \A g \in Handlers \ {h} :
          req[g].op \in Answering => offer'[req[g].row] = offer[req[g].row]
  BY <1>1, <1>2 DEF MInv, TypeOK, RowsOK, RowOK
<1> QED BY <1>3, <1>4, <1>5, OffersWritten

LEMMA AcceptOfferKeeps == ASSUME MInv, NEW h \in Handlers, AcceptOffer(h) PROVE MInv'
<1>1. ASSUME TakeOffer(h, "acceptOffer", AcceptOfferChecks) PROVE MInv'
  BY <1>1, TakeOfferKeeps DEF AcceptOfferChecks
<1>2. ASSUME Writes(h, "acceptOffer"), UNCHANGED <<role, offer>>, UnchangedButOffers PROVE MInv'
  BY <1>2, RolesWritten DEF MInv, TypeOK, UnchangedButOffers
<1>3. ASSUME Writes(h, "acceptOffer"), UnchangedButOffers,
             role' = Enrolled(req[h].on, offer[req[h].row].role),
             offer' = [offer EXCEPT ![req[h].row].status = "ACCEPTED"]
      PROVE  MInv'
  <2>1. req[h].on \in Users /\ req[h].row \in Offers
    BY <1>3, Serving DEF RowOK, Answering, Unaddressed
  <2>2. offer[req[h].row].role \in RolesOf(kind) /\ offer[req[h].row].role # "OWNER"
    BY <2>1 DEF MInv, TypeOK, OffersOK
  <2>3. /\ role' \in [Users -> RolesOf(kind)]
        /\ \A v \in Users : role'[v] = "OWNER" <=> role[v] = "OWNER"
    BY <1>3, <2>1, <2>2, Enrolment DEF MInv
  <2> QED BY <1>3, <2>3, AnswerKeeps DEF OfferStates, Answering
<1> QED BY <1>1, <1>2, <1>3 DEF AcceptOffer

LEMMA DeclineOfferKeeps == ASSUME MInv, NEW h \in Handlers, DeclineOffer(h) PROVE MInv'
<1>1. ASSUME TakeOffer(h, "declineOffer", <<"ownOfferPending">>) PROVE MInv'
  BY <1>1, TakeOfferKeeps
<1>2. ASSUME Writes(h, "declineOffer"), UnchangedButOffers, role' = role,
             offer' = [offer EXCEPT ![req[h].row].status = "DECLINED"]
      PROVE  MInv'
  BY <1>2, AnswerKeeps DEF MInv, TypeOK, OfferStates, Answering
<1> QED BY <1>1, <1>2 DEF DeclineOffer, DeclineOfferChecks

------------------------------------------------------------------------------
(* Direct channels.                                                            *)

LEMMA OpenDirectKeeps == ASSUME MInv, NEW h \in Handlers, OpenDirect(h) PROVE MInv'
<1>1. ASSUME Free(<<"pair", 0>>, h), NEW u \in accounts, NEW age \in {"recent", "anyAge"},
             Ask(h, "openDirect", u, Nobody, age, <<"freshDirect">>)
      PROVE  MInv'
  <2> DEFINE q == [Idle EXCEPT !.op = "openDirect", !.by = u, !.on = Nobody, !.as = age,
                               !.left = <<"freshDirect">>]
  <2>1. q \in Requests
    <3>1. /\ <<"freshDirect">> \in Seq(Checks) /\ "openDirect" \in Routes /\ age \in Asked
          /\ u \in Users
      BY DEF Routes, Asked, Checks, MInv, TypeOK
    <3> QED BY <3>1, IdleRequest DEF Requests
  <2>2. /\ q.op = "openDirect" /\ q.by = u /\ q.on = Nobody /\ q.left = <<"freshDirect">>
        /\ u \in Users
    BY DEF Idle, MInv, TypeOK
  <2>3. Take(h, q)
    BY <1>1 DEF Ask
  <2> HIDE DEF q
  <2>4. Head(q.left) = "freshDirect" /\ q.left # <<>> /\ Tail(q.left) = <<>>
    BY <2>2
  <2>5. Sees(q, Head(q.left)) \in Answers
    BY <2>4 DEF Sees, Answers
  <2>6. /\ Learn(q).op = "openDirect" /\ Learn(q).by = u /\ Learn(q).on = Nobody
        /\ Learn(q).left = <<>> /\ Learn(q).row = Cardinality(Made)
    BY <2>1, <2>2, <2>4, Learnt
  <2>7. RequestOK(Learn(q))
    BY <2>2, <2>6
    DEF RequestOK, SubjectOK, PlaceOK, OpenOK, TargetOK, AnswerOK, WorkspaceRoutes,
        OrganizationRoutes, Granting, Entering, Unaddressed, UnaddressedLeft
  <2>8. RowOK(Learn(q)) /\ Holds(Learn(q)) = <<"pair", 0>>
    BY <2>6 DEF RowOK, Holds, Answering
  <2> QED BY <1>1, <2>1, <2>3, <2>4, <2>5, <2>7, <2>8, TakeKeeps
<1>2. ASSUME Writes(h, "openDirect"),
             UNCHANGED <<scope, members, rooms, links, offer, administrators>>,
             \/ UNCHANGED directs
             \/ \E d \in Directs :
                   /\ direct' = [direct EXCEPT ![d] = "fresh"]
                   /\ doubled' = (doubled \/ Cardinality(Made) # req[h].row)
      PROVE  MInv'
  <2> USE DEF scope, members, rooms, links, administrators, directs
  <2>1. /\ req' \in [Handlers -> Requests] /\ started' \in 0 .. MaxRequests
        /\ req'[h] = Idle /\ \A g \in Handlers \ {h} : req'[g] = req[g]
        /\ RequestsOK' /\ Exclusive'
    BY <1>2, Served
  <2>2. req[h].op = "openDirect" /\ req[h].row = Cardinality(Made)
    BY <1>2, Serving DEF RowOK
  <2>3. /\ direct' \in [Directs -> {"none", "fresh", "aged"}] /\ ~doubled'
        /\ doubled' \in BOOLEAN
    <3>1. ~doubled /\ doubled \in BOOLEAN /\ direct \in [Directs -> {"none", "fresh", "aged"}]
      BY DEF MInv, TypeOK
    <3> QED BY <1>2, <2>2, <3>1
  <2>4. TypeOK'
    BY <1>2, <2>1, <2>3 DEF MInv, TypeOK, RolesOf
  <2>5. RowsOK'
    <3>1. \A g \in Handlers : RowOK(req'[g])
      BY <2>1, IdleRequest DEF MInv, RowsOK
    <3>2. \A g \in Handlers : req'[g].op # "openDirect"
      <4>1. \A g \in Handlers : req[g].op = "openDirect" => Holds(req[g]) = <<"pair", 0>>
        BY DEF Holds
      <4>2. \A g \in Handlers \ {h} : req[g].op # "openDirect"
        BY <2>2, <4>1 DEF MInv, Exclusive
      <4> QED BY <2>1, <4>2, IdleRequest
    <3> QED BY <1>2, <3>1, <3>2 DEF RowsOK, RowOK
  <2>6. LinkOK' /\ OffersOK' /\ OneOwner' /\ AdministratorRemains'
    BY <1>2 DEF MInv, LinkOK, OffersOK, OneOwner, AdministratorRemains
  <2> QED BY <2>1, <2>3, <2>4, <2>5, <2>6 DEF MInv
<1> QED BY <1>1, <1>2 DEF OpenDirect

LEMMA DirectAgesKeeps == ASSUME MInv, DirectAges PROVE MInv'
<1> USE DEF scope, members, rooms, links, administrators
<1>1. PICK d \in Made, age \in {"fresh", "aged"} :
          /\ direct' = [direct EXCEPT ![d] = age]
          /\ UNCHANGED <<scope, members, rooms, links, offer, administrators, doubled, req, started>>
  BY DEF DirectAges
<1>2. direct' \in [Directs -> {"none", "fresh", "aged"}] /\ Made' = Made
  BY <1>1 DEF MInv, TypeOK, Made
<1>3. TypeOK'
  BY <1>1, <1>2 DEF MInv, TypeOK, RolesOf
<1>4. \A g \in Handlers : RequestOK(req[g])'
  <2>1. \A g \in Handlers : PlaceOK(req[g])'
    BY <1>1 DEF MInv, RequestsOK, RequestOK, PlaceOK, RolesOf
  <2>2. \A g \in Handlers : SubjectOK(req[g])' /\ OpenOK(req[g])'
    BY <1>1 DEF MInv, RequestsOK, RequestOK, SubjectOK, OpenOK
  <2>3. \A g \in Handlers : TargetOK(req[g])' /\ AnswerOK(req[g])'
    BY <1>1 DEF MInv, RequestsOK, RequestOK, TargetOK, AnswerOK
  <2> QED BY <2>1, <2>2, <2>3 DEF RequestOK
<1>5. RowsOK' /\ Exclusive'
  BY <1>1, <1>2 DEF MInv, RowsOK, RowOK, Exclusive, Holds
<1>6. LinkOK' /\ OffersOK' /\ ~doubled' /\ OneOwner' /\ AdministratorRemains'
  BY <1>1 DEF MInv, LinkOK, OffersOK, OneOwner, AdministratorRemains
<1> QED BY <1>3, <1>4, <1>5, <1>6 DEF MInv, RequestsOK

------------------------------------------------------------------------------
(* The specification.                                                          *)

LEMMA MembershipsInit == Init => MInv
<1> SUFFICES ASSUME Init PROVE MInv
  OBVIOUS
<1>1. \A h \in Handlers : req[h] = Idle
  BY DEF Init
<1>2. TypeOK
  <2>1. req \in [Handlers -> Requests]
    BY IdleRequest DEF Init
  <2>2. link \in [status : LinkStates, by : Users \cup {Nobody}, role : RolesOf(kind)]
    BY DEF Init, LinkStates, RolesOf
  <2>3. offer \in [Offers -> [status : OfferStates, to : Users \cup {Nobody},
                             role : RolesOf(kind)]]
    <3>1. \A x : x \in [status : {"none"}, to : {Nobody}, role : {"none"}]
                       \cup [status : {"PENDING"}, to : accounts,
                             role : RolesOf(kind) \ {"none", "OWNER"}]
                 => x \in [status : OfferStates, to : Users \cup {Nobody}, role : RolesOf(kind)]
      BY DEF Init, OfferStates, RolesOf
    <3> QED BY <3>1 DEF Init
  <2>4. /\ role \in [Users -> RolesOf(kind)]
        /\ direct \in [Directs -> {"none", "fresh", "aged"}]
        /\ started \in 0 .. MaxRequests
    BY AccessAssumption DEF Init
  <2> QED BY <2>1, <2>2, <2>3, <2>4 DEF Init, TypeOK
<1>3. RequestsOK /\ RowsOK /\ Exclusive
  BY <1>1, IdleRequest DEF RequestsOK, RowsOK, Exclusive
<1>4. LinkOK
  BY DEF Init, LinkOK
<1>5. OffersOK
  <2>1. \A x : x \in [status : {"none"}, to : {Nobody}, role : {"none"}]
                     \cup [status : {"PENDING"}, to : accounts,
                           role : RolesOf(kind) \ {"none", "OWNER"}]
               => x.role # "OWNER"
    OBVIOUS
  <2> QED BY <2>1 DEF Init, OffersOK
<1>6. ~doubled /\ OneOwner /\ AdministratorRemains
  BY DEF Init, Settled, OneOwner, AdministratorRemains
<1> QED BY <1>2, <1>3, <1>4, <1>5, <1>6 DEF MInv

LEMMA WorkspaceKeeps == ASSUME MInv, NEW h \in Handlers, WorkspaceRequest(h) PROVE MInv'
BY SubscribeKeeps, AddMemberKeeps, ChangeRoleKeeps, RemoveMemberKeeps, LeaveWorkspaceKeeps,
   TransferOwnershipKeeps, ArchiveWorkspaceKeeps, UnarchiveWorkspaceKeeps, SetVisibilityKeeps,
   SetManagersCanArchiveKeeps, CreateChannelKeeps, JoinChannelKeeps, AddChannelMemberKeeps,
   RemoveChannelMemberKeeps, LeaveChannelKeeps
DEF WorkspaceRequest

LEMMA OrganizationKeeps ==
    ASSUME MInv, NEW h \in Handlers, OrganizationRequest(h)
    PROVE  MInv'
BY OrgAddMemberKeeps, OrgChangeRoleKeeps, OrgRemoveMemberKeeps, OrgLeaveKeeps,
   OrgArchiveKeeps, OrgUnarchiveKeeps, CreateAccountKeeps, PromoteKeeps, DemoteKeeps
DEF OrganizationRequest

LEMMA InvitationKeeps ==
    ASSUME MInv, NEW h \in Handlers, InvitationRequest(h)
    PROVE  MInv'
BY CreateWorkspaceLinkKeeps, CreateOrgLinkKeeps, AcceptLinkKeeps, RevokeLinkKeeps,
   OfferWorkspaceMembershipKeeps, OfferOrgMembershipKeeps, AcceptOfferKeeps, DeclineOfferKeeps
DEF InvitationRequest

\* The invariant holds throughout, whatever requests overlap.
THEOREM MembershipsInvariance == Spec => []MInv
<1>1. Init => MInv
  BY MembershipsInit
<1>2. MInv /\ [Next]_vars => MInv'
  <2> SUFFICES ASSUME MInv, [Next]_vars PROVE MInv'
    OBVIOUS
  <2>1. CASE Next
    BY <2>1, CheckKeeps, WorkspaceKeeps, OrganizationKeeps, InvitationKeeps, OpenDirectKeeps,
       LinkExpiresKeeps, DirectAgesKeeps DEF Next
  <2>2. CASE UNCHANGED vars
    <3> USE <2>2 DEF vars, scope, members, rooms, links, administrators, directs
    <3>1. TypeOK'
      BY DEF MInv, TypeOK, RolesOf
    <3>2. \A g \in Handlers : RequestOK(req[g])'
      <4>1. \A g \in Handlers : PlaceOK(req[g])'
        BY DEF MInv, RequestsOK, RequestOK, PlaceOK, RolesOf
      <4>2. \A g \in Handlers : SubjectOK(req[g])' /\ OpenOK(req[g])'
        BY DEF MInv, RequestsOK, RequestOK, SubjectOK, OpenOK
      <4>3. \A g \in Handlers : TargetOK(req[g])' /\ AnswerOK(req[g])'
        BY DEF MInv, RequestsOK, RequestOK, TargetOK, AnswerOK
      <4> QED BY <4>1, <4>2, <4>3 DEF RequestOK
    <3>3. RowsOK' /\ Exclusive'
      BY DEF MInv, RowsOK, RowOK, Made, Exclusive, Holds
    <3>4. LinkOK' /\ OffersOK' /\ ~doubled' /\ OneOwner' /\ AdministratorRemains'
      BY DEF MInv, LinkOK, OffersOK, OneOwner, AdministratorRemains
    <3> QED BY <3>1, <3>2, <3>3, <3>4 DEF MInv, RequestsOK
  <2> QED BY <2>1, <2>2
<1> QED BY <1>1, <1>2, PTL DEF Spec

\* All variables keep their types, the requests under way included.
THEOREM TypeCorrect == Spec => []TypeOK
<1>1. MInv => TypeOK
  BY DEF MInv
<1> QED BY <1>1, MembershipsInvariance, PTL

\* A workspace has exactly one owner, the one owner_id names, unless a write has met an owner
\* that its own checks had not seen (routes/workspaces.js).
THEOREM OneOwnerHolds == Spec => []OneOwner
<1>1. MInv => OneOwner
  BY DEF MInv
<1> QED BY <1>1, MembershipsInvariance, PTL

\* An administrator remains, unless two demote each other (routes/admin.js).
THEOREM AdministratorStays == Spec => []AdministratorRemains
<1>1. MInv => AdministratorRemains
  BY DEF MInv
<1> QED BY <1>1, MembershipsInvariance, PTL

\* One account from a link, one direct channel of a pair, however requests for them overlap.
THEOREM MadeOnce == Spec => []NothingIsMadeTwice
<1>1. MInv => NothingIsMadeTwice
  <2> SUFFICES ASSUME MInv PROVE NothingIsMadeTwice
    OBVIOUS
  <2>1. Cardinality(born) <= 1
    <3>1. CASE born = {}
      BY <3>1, FS_EmptySet
    <3>2. CASE \E u \in Users : born = {u}
      <4>1. PICK u \in Users : born = {u}
        BY <3>2
      <4>2. Cardinality({u}) = 1
        BY FS_Singleton
      <4> QED BY <4>1, <4>2
    <3> QED BY <3>1, <3>2 DEF MInv, LinkOK
  <2> QED BY <2>1 DEF MInv, LinkOK, NothingIsMadeTwice
<1> QED BY <1>1, MembershipsInvariance, PTL

------------------------------------------------------------------------------
(* What single steps never do.                                                 *)

\* Roles and the channel are written by a request that saw the scope open.
LEMMA WritesAreOpen ==
    ASSUME MInv, NEW h \in Handlers, NEW op \in Entering \cup {"createAccount"}, Writes(h, op)
    PROVE  \E g \in Handlers : /\ req[g].left = <<>> /\ req'[g] = Idle
                             /\ (req[g].open \/ req[g].op = "createAccount")
<1>1. req[h].op = op /\ req[h].left = <<>> /\ OpenOK(req[h])
  BY Serving DEF Entering, RequestOK
<1>2. req'[h] = Idle
  BY DEF Writes, MInv, TypeOK
<1>3. req[h].open \/ req[h].op = "createAccount"
  BY <1>1 DEF OpenOK
<1> QED BY <1>1, <1>2, <1>3

\* Taking a request writes nothing.
LEMMA TakeWritesNothing ==
    ASSUME NEW h, NEW q, Take(h, q)
    PROVE  UNCHANGED <<role, inChannel, link, offer, crossed>>
BY DEF Take, members, rooms, links

LEMMA AskWritesNothing ==
    ASSUME NEW h, NEW op, NEW by, NEW on, NEW as, NEW checks, Ask(h, op, by, on, as, checks)
    PROVE  UNCHANGED <<role, inChannel, link, offer, crossed>>
BY TakeWritesNothing DEF Ask

\* The routes of workspaces, of organizations and of invitations.
LEMMA WorkspaceRequestsWrite ==
    ASSUME NEW h \in Handlers, WorkspaceRequest(h)
    PROVE  \/ UNCHANGED <<role, inChannel, link, offer, crossed>>
           \/ /\ \E op \in Entering : Writes(h, op)
              /\ UNCHANGED <<link, offer, crossed>>
<1> USE AskWritesNothing DEF WorkspaceAsks, Entering, UnchangedButMembers, UnchangedButRooms,
        UnchangedButScope, members, rooms, links
<1>1. CASE Subscribe(h) \/ AddMember(h) \/ ChangeRole(h) \/ TransferOwnership(h)
  BY <1>1 DEF Subscribe, AddMember, ChangeRole, MemberChecks, TransferOwnership, TransferChecks
<1>2. CASE RemoveMember(h) \/ LeaveWorkspace(h)
  BY <1>2 DEF RemoveMember, MemberChecks, LeaveWorkspace, LeaveWorkspaceChecks, Dismissed, Removed
<1>3. CASE ArchiveWorkspace(h) \/ UnarchiveWorkspace(h) \/ SetVisibility(h)
           \/ SetManagersCanArchive(h)
  BY <1>3
     DEF ArchiveWorkspace, ArchiveChecks, UnarchiveWorkspace, UnarchiveChecks, SetVisibility,
         VisibilityChecks, SetManagersCanArchive, SettingsChecks
<1>4. CASE CreateChannel(h) \/ JoinChannel(h) \/ AddChannelMember(h)
           \/ RemoveChannelMember(h) \/ LeaveChannel(h)
  BY <1>4
     DEF CreateChannel, CreateChannelChecks, JoinChannel, AddChannelMember,
         RemoveChannelMember, RemoveChannelMemberChecks, LeaveChannel, LeaveChannelChecks,
         Unseated
<1> QED BY <1>1, <1>2, <1>3, <1>4 DEF WorkspaceRequest

LEMMA OrganizationRequestsWrite ==
    ASSUME NEW h \in Handlers, OrganizationRequest(h)
    PROVE  \/ UNCHANGED <<role, inChannel, link, offer, crossed>>
           \/ /\ \E op \in Entering \cup {"createAccount"} : Writes(h, op)
              /\ UNCHANGED <<link, offer, crossed>>
<1> USE AskWritesNothing DEF OrganizationAsks, Entering, UnchangedButRoles,
        UnchangedButAdministrators, members, rooms, links
<1>1. CASE OrgAddMember(h) \/ OrgChangeRole(h) \/ OrgRemoveMember(h) \/ OrgLeave(h)
  BY <1>1
     DEF OrgAddMember, OrgChangeRole, OrgMemberChecks, OrgRemoveMember, OrgLeave,
         OrgLeaveChecks
<1>2. CASE OrgArchive(h) \/ OrgUnarchive(h)
  BY <1>2 DEF OrgArchive, OrgArchiveChecks, OrgUnarchive, OrgUnarchiveChecks
<1>3. CASE CreateAccount(h)
  BY <1>3 DEF CreateAccount
<1>4. CASE Promote(h) \/ Demote(h)
  BY <1>4 DEF Promote, PromoteChecks, Demote, DemoteChecks, Demoted
<1> QED BY <1>1, <1>2, <1>3, <1>4 DEF OrganizationRequest

LEMMA InvitationRequestsWrite ==
    ASSUME NEW h \in Handlers, InvitationRequest(h)
    PROVE  \/ UNCHANGED <<role, inChannel>>
           \/ \E op \in {"acceptLink", "acceptOffer"} : Writes(h, op)
<1> USE AskWritesNothing DEF UnchangedButLinks, UnchangedButOffers, rooms
<1>1. CASE CreateWorkspaceLink(h) \/ CreateOrgLink(h)
  BY <1>1
     DEF CreateWorkspaceLink, LinkChecks, CreateOrgLink, OrgLinkChecks, LinkInserted,
         WorkspaceAsks, OrganizationAsks
<1>2. CASE AcceptLink(h) \/ RevokeLink(h)
  BY <1>2 DEF AcceptLink, RevokeLink, RevokeChecks
<1>3. CASE OfferWorkspaceMembership(h) \/ OfferOrgMembership(h)
  BY <1>3
     DEF OfferWorkspaceMembership, OfferChecks, OfferOrgMembership, OrgOfferChecks,
         OfferInserted, WorkspaceAsks,
              OrganizationAsks
<1>4. CASE AcceptOffer(h) \/ DeclineOffer(h)
  BY <1>4, TakeWritesNothing DEF AcceptOffer, DeclineOffer, DeclineOfferChecks, TakeOffer
<1> QED BY <1>1, <1>2, <1>3, <1>4 DEF InvitationRequest

\* Nobody enters, leaves or changes role in an archived scope but by a request that found it
\* open (the notArchived checks of the routes), or as a new account.
THEOREM ArchivedStaysClosed == Spec => ArchivedIsClosed
<1> DEFINE ByOneWhoSawItOpen ==
        \E h \in Handlers : /\ req[h].left = <<>> /\ req'[h] = Idle
                          /\ (req[h].open \/ req[h].op = "createAccount")
<1>1. MInv /\ Next => UNCHANGED <<role, inChannel>> \/ ByOneWhoSawItOpen
  <2> SUFFICES ASSUME MInv, Next PROVE UNCHANGED <<role, inChannel>> \/ ByOneWhoSawItOpen
    OBVIOUS
  <2> HIDE DEF ByOneWhoSawItOpen
  <2>1. \A h \in Handlers, op \in Entering \cup {"createAccount"} :
            Writes(h, op) => ByOneWhoSawItOpen
    BY WritesAreOpen DEF ByOneWhoSawItOpen
  <2>2. ASSUME NEW h \in Handlers, Check(h) PROVE UNCHANGED <<role, inChannel>>
    BY <2>2 DEF Check, members, rooms
  <2>3. ASSUME NEW h \in Handlers, WorkspaceRequest(h) \/ OrganizationRequest(h)
        PROVE  UNCHANGED <<role, inChannel>> \/ ByOneWhoSawItOpen
    BY <2>1, <2>3, WorkspaceRequestsWrite, OrganizationRequestsWrite
  <2>4. ASSUME NEW h \in Handlers, InvitationRequest(h)
        PROVE  UNCHANGED <<role, inChannel>> \/ ByOneWhoSawItOpen
    BY <2>1, <2>4, InvitationRequestsWrite DEF Entering
  <2>5. ASSUME NEW h \in Handlers, OpenDirect(h) PROVE UNCHANGED <<role, inChannel>>
    BY <2>5, AskWritesNothing DEF OpenDirect, members, rooms
  <2>6. CASE LinkExpires \/ DirectAges
    BY <2>6 DEF LinkExpires, DirectAges, UnchangedButLinks, members, rooms
  <2> QED BY <2>2, <2>3, <2>4, <2>5, <2>6 DEF Next
<1>2. UNCHANGED vars => UNCHANGED <<role, inChannel>>
  BY DEF vars, members, rooms
<1>3. MInv /\ [Next]_vars =>
          [archived /\ <<role, inChannel>>' # <<role, inChannel>> => ByOneWhoSawItOpen]_vars
  BY <1>1, <1>2
<1> QED BY <1>3, MembershipsInvariance, PTL DEF Spec, ArchivedIsClosed

\* What a step leaves of the invitations that have been answered or revoked.
AnswersStay ==
    /\ \A o \in Offers : offer[o].status \in {"ACCEPTED", "DECLINED"} => offer'[o] = offer[o]
    /\ link.status \in {"ACCEPTED", "REVOKED"} => link' = link \/ crossed'

LEMMA LinkAnswersStay ==
    ASSUME MInv, NEW h \in Handlers,
           CreateWorkspaceLink(h) \/ CreateOrgLink(h) \/ AcceptLink(h) \/ RevokeLink(h)
    PROVE  AnswersStay
<1> USE DEF AnswersStay, UnchangedButLinks
<1>1. CASE UNCHANGED <<link, offer>>
  BY <1>1
<1>2. CASE LinkInserted(h)
  BY <1>2 DEF LinkInserted
<1>3. CASE Writes(h, "acceptLink") /\ Redeemed(h)
  <2>1. link.status \in {"PENDING", "EXPIRED"}
    BY <1>3, Serving DEF RowOK
  <2> QED BY <1>3, <2>1 DEF Redeemed
<1>4. CASE /\ Writes(h, "revokeLink")
           /\ link' = [link EXCEPT !.status = "REVOKED"]
           /\ crossed' = (crossed \/ (link.status = "ACCEPTED" /\ req[h].saw # "ACCEPTED"))
           /\ UnchangedButLinks
  <2>1. req[h].saw # "ACCEPTED"
    <3>1. req[h].op = "revokeLink" /\ req[h].left = <<>> /\ AnswerOK(req[h])
      BY <1>4, Serving DEF RequestOK
    <3> QED BY <3>1, Tails DEF AnswerOK
  <2>2. link.status = "REVOKED" => link' = link
    BY <1>4 DEF MInv, TypeOK
  <2> QED BY <1>4, <2>1, <2>2
<1>5. CASE CreateWorkspaceLink(h) \/ CreateOrgLink(h)
  BY <1>1, <1>2, <1>5, AskWritesNothing
     DEF CreateWorkspaceLink, LinkChecks, CreateOrgLink, OrgLinkChecks, WorkspaceAsks,
         OrganizationAsks
<1>6. CASE AcceptLink(h) \/ RevokeLink(h)
  BY <1>1, <1>3, <1>4, <1>6, AskWritesNothing DEF AcceptLink, RevokeLink, RevokeChecks
<1> QED BY <1>5, <1>6

LEMMA OfferAnswersStay ==
    ASSUME MInv, NEW h \in Handlers,
           \/ OfferWorkspaceMembership(h) \/ OfferOrgMembership(h)
           \/ AcceptOffer(h) \/ DeclineOffer(h)
    PROVE  AnswersStay
<1> USE DEF AnswersStay, UnchangedButOffers, links
<1>1. CASE UNCHANGED <<link, offer>>
  BY <1>1
<1>2. CASE OfferInserted(h)
  <2>1. PICK o \in Offers :
            /\ offer[o].status = "none"
            /\ offer' = [offer EXCEPT ![o] =
                            [status |-> "PENDING", to |-> req[h].on, role |-> req[h].as]]
    BY <1>2 DEF OfferInserted
  <2>2. \A p \in Offers \ {o} : offer'[p] = offer[p]
    BY <2>1 DEF MInv, TypeOK
  <2> QED BY <1>2, <2>1, <2>2 DEF OfferInserted
<1>3. ASSUME NEW op \in Answering, Writes(h, op), UnchangedButOffers,
             NEW answer, offer' = [offer EXCEPT ![req[h].row].status = answer]
      PROVE  AnswersStay
  <2>1. offer[req[h].row].status = "PENDING"
    BY <1>3, Serving DEF RowOK, Answering
  <2>2. \A p \in Offers \ {req[h].row} : offer'[p] = offer[p]
    BY <1>3 DEF MInv, TypeOK
  <2> QED BY <1>3, <2>1, <2>2
<1>4. CASE OfferWorkspaceMembership(h) \/ OfferOrgMembership(h)
  BY <1>1, <1>2, <1>4, AskWritesNothing
     DEF OfferWorkspaceMembership, OfferChecks, OfferOrgMembership, OrgOfferChecks,
         WorkspaceAsks, OrganizationAsks
<1>5. CASE AcceptOffer(h) \/ DeclineOffer(h)
  <2>1. CASE \E op, checks : TakeOffer(h, op, checks)
    BY <1>1, <2>1, TakeWritesNothing DEF TakeOffer
  <2>2. CASE UNCHANGED offer /\ UnchangedButOffers
    BY <1>1, <2>2
  <2> QED BY <1>3, <1>5, <2>1, <2>2 DEF AcceptOffer, DeclineOffer, DeclineOfferChecks, Answering
<1> QED BY <1>4, <1>5

\* An accepted, declined or revoked invitation keeps its answer (the row locks of
\* loadOwnPendingInvitationForUpdate and of the link's redemption), unless a revocation
\* that had read the link pending lands on its acceptance.
THEOREM AnswersAreFinal == Spec => AnsweredIsFinal
<1>1. MInv /\ Next => AnswersStay
  <2> SUFFICES ASSUME MInv, Next PROVE AnswersStay
    OBVIOUS
  <2>1. CASE UNCHANGED <<link, offer>>
    BY <2>1 DEF AnswersStay
  <2>2. ASSUME NEW h \in Handlers, Check(h) PROVE UNCHANGED <<link, offer>>
    BY <2>2 DEF Check, links
  <2>3. ASSUME NEW h \in Handlers, WorkspaceRequest(h) \/ OrganizationRequest(h)
        PROVE  UNCHANGED <<link, offer>>
    BY <2>3, WorkspaceRequestsWrite, OrganizationRequestsWrite
  <2>4. ASSUME NEW h \in Handlers, InvitationRequest(h) PROVE AnswersStay
    BY <2>4, LinkAnswersStay, OfferAnswersStay DEF InvitationRequest
  <2>5. ASSUME NEW h \in Handlers, OpenDirect(h) PROVE UNCHANGED <<link, offer>>
    BY <2>5, AskWritesNothing DEF OpenDirect, links
  <2>6. CASE LinkExpires
    BY <2>6 DEF LinkExpires, UnchangedButLinks, AnswersStay
  <2>7. CASE DirectAges
    BY <2>1, <2>7 DEF DirectAges, links
  <2> QED BY <2>1, <2>2, <2>3, <2>4, <2>5, <2>6, <2>7 DEF Next
<1>2. UNCHANGED vars => UNCHANGED <<link, offer>>
  BY DEF vars, links
<1>3. MInv /\ [Next]_vars => [AnswersStay]_vars
  BY <1>1, <1>2
<1> QED BY <1>3, MembershipsInvariance, PTL DEF Spec, AnsweredIsFinal, AnswersStay

------------------------------------------------------------------------------
(* Who is in the channel.                                                      *)

Seating == {"createChannel", "joinChannel", "addChannelMember"}

\* What a request that puts a user in the channel has seen of the membership.
SeatOK(q) ==
    /\ q.op \in Seating => kind = "WORKSPACE"
    /\ q.op = "createChannel" => q.saw # "none" /\ q.left \in {<<"notArchived">>, <<>>}
    /\ q.op = "joinChannel" =>
           /\ q.saw # "none"
           /\ q.left \in {<<"notArchived", "isPublic", "isNotInChannel">>,
                          <<"isPublic", "isNotInChannel">>, <<"isNotInChannel">>, <<>>}
    /\ q.op = "addChannelMember" =>
           \/ q.left \in {<<"notArchived", "isMember", "isNotInChannel">>,
                          <<"isMember", "isNotInChannel">>}
           \/ q.left \in {<<"isNotInChannel">>, <<>>} /\ q.saw # "none"

SeatsOK == \A h \in Handlers : SeatOK(req[h])

\* Only the members of a workspace are in its channel, but for its visitors.
Inside ==
    /\ inChannel # {} => kind = "WORKSPACE"
    /\ \A u \in inChannel : IsMember(u) \/ u \in visitors

InsideInv == SeatsOK /\ Inside

\* The steps that take or end a request, or make its next check.
LEMMA OthersSit ==
    ASSUME MInv, SeatsOK, NEW h \in Handlers, NEW q, req' = [req EXCEPT ![h] = q], SeatOK(q),
           kind' = kind
    PROVE  SeatsOK'
<1>1. \A g \in Handlers : req'[g] = IF g = h THEN q ELSE req[g]
  BY DEF MInv, TypeOK
<1>2. \A g \in Handlers : SeatOK(req'[g])
  BY <1>1 DEF SeatsOK
<1> QED BY <1>2 DEF SeatsOK, SeatOK

LEMMA WriteSits ==
    ASSUME MInv, SeatsOK, NEW h \in Handlers, NEW op, Writes(h, op), kind' = kind
    PROVE  SeatsOK'
<1>1. SeatOK(Idle)
  BY IdleRequest DEF SeatOK, Seating
<1> QED BY <1>1, OthersSit DEF Writes

\* A request for no seat.
LEMMA AskedElse ==
    ASSUME NEW op, NEW by, NEW on, NEW as, NEW checks, op \notin Seating
    PROVE  SeatOK(Learn([Idle EXCEPT !.op = op, !.by = by, !.on = on, !.as = as, !.left = checks]))
<1> DEFINE q == [Idle EXCEPT !.op = op, !.by = by, !.on = on, !.as = as, !.left = checks]
<1>1. Learn(q).op = op
  BY DEF Idle, Learn
<1> QED BY <1>1 DEF SeatOK, Seating

Stays == UNCHANGED <<kind, role, inChannel, visitors>>
RolesGrow == \A u \in Users : role[u] # "none" => role'[u] # "none"

LEMMA StayInside == ASSUME TypeOK, Inside, Stays PROVE Inside'
BY DEF Inside, IsMember, TypeOK, Stays

LEMMA TakenElse ==
    ASSUME MInv, InsideInv, NEW h \in Handlers, NEW q, Take(h, q), SeatOK(Learn(q))
    PROVE  InsideInv'
<1>1. req' = [req EXCEPT ![h] = Learn(q)] /\ Stays
  BY DEF Take, scope, members, rooms, Stays
<1>2. SeatsOK'
  BY <1>1, OthersSit DEF InsideInv, Stays
<1>3. Inside'
  BY <1>1, StayInside DEF InsideInv, MInv
<1> QED BY <1>2, <1>3 DEF InsideInv

LEMMA AskKeepsInside ==
    ASSUME MInv, InsideInv, NEW h \in Handlers, NEW op, NEW by, NEW on, NEW as, NEW checks,
           op \notin Seating, Ask(h, op, by, on, as, checks)
    PROVE  InsideInv'
BY AskedElse, TakenElse, ZenonT(40) DEF Ask

\* A request for a seat begins with what its first check shows.
LEMMA AskSits ==
    ASSUME MInv, SeatsOK, NEW h \in Handlers, NEW op \in Seating, NEW u \in Users,
           NEW v \in Users, NEW as \in Asked,
           NEW checks \in Seq(Checks), kind = "WORKSPACE", Ask(h, op, u, v, as, checks),
           \/ /\ op = "createChannel" /\ Head(checks) = "memberOrSystemAdmin"
              /\ Tail(checks) = <<"notArchived">>
           \/ /\ op = "joinChannel" /\ Head(checks) = "memberOrSystemAdmin"
              /\ Tail(checks) = <<"notArchived", "isPublic", "isNotInChannel">>
           \/ /\ op = "addChannelMember"
              /\ Tail(checks) = <<"notArchived", "isMember", "isNotInChannel">>
    PROVE  SeatsOK' /\ UNCHANGED <<kind, role, inChannel, visitors>>
<1> DEFINE q == [Idle EXCEPT !.op = op, !.by = u, !.on = v, !.as = as, !.left = checks]
<1>1. op \in Routes
  BY DEF Seating, Routes
<1>2. q \in Requests /\ q.op = op /\ q.by = u /\ q.on = v /\ q.left = checks
  <2>1. q \in Requests
    BY <1>1, IdleRequest DEF Requests
  <2> QED BY <2>1 DEF Idle
<1>3. Take(h, q)
  BY DEF Ask
<1> HIDE DEF q
<1>4. /\ req' = [req EXCEPT ![h] = Learn(q)] /\ UNCHANGED <<kind, role, inChannel, visitors>>
  BY <1>3 DEF Take, scope, members, rooms
<1>5. Learn(q).op = op /\ Learn(q).left = Tail(checks) /\ Learn(q).saw = Sees(q, Head(checks))
  BY <1>2, Learnt
<1>6. Head(checks) = "memberOrSystemAdmin" => Sees(q, Head(checks)) # "none"
  BY DEF Sees, IsMember
<1>7. SeatOK(Learn(q))
  BY <1>5, <1>6 DEF SeatOK
<1> QED BY <1>4, <1>7, OthersSit

LEMMA CheckSits ==
    ASSUME MInv, SeatsOK, NEW h \in Handlers, Check(h)
    PROVE  SeatsOK' /\ UNCHANGED <<kind, role, inChannel, visitors>>
<1> DEFINE q == req[h]
           l == Learn(q)
<1>1. q \in Requests /\ SeatOK(q) /\ q.left # <<>>
  BY DEF MInv, TypeOK, SeatsOK, Check
<1>2. UNCHANGED <<kind, role, inChannel, visitors>>
  BY DEF Check, scope, members, rooms
<1>3. CASE Passes(q, Head(q.left))
  <2>1. req' = [req EXCEPT ![h] = l]
    BY <1>3 DEF Check
  <2>2. l.op = q.op /\ l.left = Tail(q.left) /\ l.saw = Sees(q, Head(q.left))
    BY <1>1, Learnt
  <2>3. /\ Head(q.left) \in {"notArchived", "isPublic", "isNotInChannel"} => l.saw = q.saw
        /\ Head(q.left) = "isMember" => l.saw # "none"
    BY <1>3, <2>2 DEF Sees, Passes, Permissions, IsMember
  <2> HIDE DEF l, q
  <2>4. CASE q.op = "createChannel"
    <3>1. q.left = <<"notArchived">> /\ q.saw # "none" /\ kind = "WORKSPACE"
      BY <1>1, <2>4 DEF SeatOK, Seating
    <3>2. l.left = <<>> /\ l.saw # "none"
      BY <2>2, <2>3, <3>1
    <3> QED BY <1>2, <2>1, <2>2, <2>4, <3>1, <3>2, OthersSit DEF SeatOK
  <2>5. CASE q.op = "joinChannel"
    <3>1. q.saw # "none" /\ kind = "WORKSPACE"
      BY <1>1, <2>5 DEF SeatOK, Seating
    <3>2. /\ Head(q.left) \in {"notArchived", "isPublic", "isNotInChannel"}
          /\ Tail(q.left) \in {<<"isPublic", "isNotInChannel">>, <<"isNotInChannel">>, <<>>}
      <4>1. \/ q.left = <<"notArchived", "isPublic", "isNotInChannel">>
            \/ q.left = <<"isPublic", "isNotInChannel">> \/ q.left = <<"isNotInChannel">>
        BY <1>1, <2>5 DEF SeatOK
      <4>2. CASE q.left = <<"notArchived", "isPublic", "isNotInChannel">>
        BY <4>2
      <4>3. CASE q.left = <<"isPublic", "isNotInChannel">>
        BY <4>3
      <4>4. CASE q.left = <<"isNotInChannel">>
        BY <4>4
      <4> QED BY <4>1, <4>2, <4>3, <4>4
    <3>3. SeatOK(l)
      BY <2>2, <2>3, <2>5, <3>1, <3>2 DEF SeatOK
    <3> QED BY <1>2, <2>1, <3>3, OthersSit
  <2>6. CASE q.op = "addChannelMember"
    <3>1. kind = "WORKSPACE"
      BY <1>1, <2>6 DEF SeatOK, Seating
    <3>2. CASE q.left = <<"notArchived", "isMember", "isNotInChannel">>
      <4>1. l.left = <<"isMember", "isNotInChannel">>
        BY <2>2, <3>2
      <4> QED BY <1>2, <2>1, <2>2, <2>6, <3>1, <4>1, OthersSit DEF SeatOK
    <3>3. CASE q.left = <<"isMember", "isNotInChannel">>
      <4>1. l.left = <<"isNotInChannel">> /\ l.saw # "none"
        BY <2>2, <2>3, <3>3
      <4> QED BY <1>2, <2>1, <2>2, <2>6, <3>1, <4>1, OthersSit DEF SeatOK
    <3>4. CASE q.left = <<"isNotInChannel">> /\ q.saw # "none"
      <4>1. l.left = <<>> /\ l.saw # "none"
        BY <2>2, <2>3, <3>4
      <4> QED BY <1>2, <2>1, <2>2, <2>6, <3>1, <4>1, OthersSit DEF SeatOK
    <3> QED BY <1>1, <2>6, <3>2, <3>3, <3>4 DEF SeatOK
  <2>7. CASE q.op \notin Seating
    <3>1. SeatOK(l)
      BY <2>2, <2>7 DEF SeatOK, Seating
    <3> QED BY <1>2, <2>1, <3>1, OthersSit
  <2> QED BY <2>4, <2>5, <2>6, <2>7 DEF Seating
<1>4. CASE ~Passes(q, Head(q.left))
  <2>1. req' = [req EXCEPT ![h] = Idle]
    BY <1>4 DEF Check
  <2>2. SeatOK(Idle)
    BY IdleRequest DEF SeatOK, Seating
  <2> QED BY <1>2, <2>1, <2>2, OthersSit
<1> QED BY <1>3, <1>4

\* Nobody leaves the scope, and nobody enters the channel.
LEMMA StillInside ==
    ASSUME TypeOK, Inside, UNCHANGED <<kind, inChannel, visitors>>,
           \A u \in Users : role[u] # "none" => role'[u] # "none"
    PROVE  Inside'
BY DEF Inside, IsMember, TypeOK

\* One leaves both.
LEMMA BothLeft ==
    ASSUME TypeOK, Inside, kind' = kind, NEW u, inChannel' = inChannel \ {u},
           visitors' = visitors \ {u},
           \A v \in Users \ {u} : role[v] # "none" => role'[v] # "none"
    PROVE  Inside'
BY DEF Inside, IsMember, TypeOK

\* One is put in the channel.
LEMMA Entered ==
    ASSUME TypeOK, Inside, UNCHANGED <<kind, role>>, kind = "WORKSPACE", NEW u \in Users,
           NEW saw, saw # "none",
           Seated(u, saw)
    PROVE  Inside'
BY DEF Inside, IsMember, TypeOK, Seated

\* A write that puts nobody in the channel and takes nobody's membership.
LEMMA WriteKeepsInside ==
    ASSUME MInv, InsideInv, NEW h \in Handlers, NEW op, Writes(h, op),
           UNCHANGED <<kind, inChannel, visitors>>, RolesGrow
    PROVE  InsideInv'
BY WriteSits, StillInside DEF InsideInv, MInv, RolesGrow

LEMMA EnrolledGrow ==
    ASSUME TypeOK, NEW u, NEW r, r # "none", role' = Enrolled(u, r)
    PROVE  RolesGrow
BY DEF Enrolled, RolesGrow, IsMember, TypeOK

LEMMA ChangedGrow ==
    ASSUME TypeOK, NEW u, NEW r, r # "none",
           role' = [role EXCEPT ![u] = IF @ = "none" THEN @ ELSE r]
    PROVE  RolesGrow
BY DEF RolesGrow, TypeOK

LEMMA HeiredGrow ==
    ASSUME NEW q, role' = Heired(q)
    PROVE  RolesGrow
BY DEF RolesGrow, Heired

LEMMA SameGrow == ASSUME role' = role PROVE RolesGrow
BY DEF RolesGrow

\* One who is dismissed leaves the channel too.
LEMMA DismissedInside ==
    ASSUME MInv, InsideInv, NEW h \in Handlers, NEW op, op \notin Unaddressed \cup {"idle"},
           Writes(h, op), Dismissed(h)
    PROVE  InsideInv'
<1>1. /\ role' = [role EXCEPT ![req[h].on] = "none"] /\ kind' = kind
      /\ inChannel' = inChannel \ {req[h].on} /\ visitors' = visitors \ {req[h].on}
  BY DEF Dismissed, Removed, scope
<1>2. \A v \in Users \ {req[h].on} : role[v] # "none" => role'[v] # "none"
  BY <1>1 DEF MInv, TypeOK
<1>3. Inside'
  BY <1>1, <1>2, BothLeft DEF InsideInv, MInv
<1> QED BY <1>1, <1>3, WriteSits DEF InsideInv

LEMMA UnseatedInside ==
    ASSUME MInv, InsideInv, NEW h \in Handlers, NEW op, Writes(h, op), Unseated(req[h].on)
    PROVE  InsideInv'
<1>1. /\ UNCHANGED <<kind, role>>
      /\ inChannel' = inChannel \ {req[h].on} /\ visitors' = visitors \ {req[h].on}
  BY DEF Unseated, UnchangedButRooms, scope, members
<1>2. Inside'
  BY <1>1, BothLeft DEF InsideInv, MInv
<1> QED BY <1>1, <1>2, WriteSits DEF InsideInv

LEMMA SeatedInside ==
    ASSUME MInv, InsideInv, NEW h \in Handlers, NEW op \in Seating, Writes(h, op),
           NEW u \in Users,
           Seated(u, req[h].saw), UNCHANGED <<kind, role>>
    PROVE  InsideInv'
<1>1. req[h].op = op /\ req[h].left = <<>> /\ SeatOK(req[h])
  BY DEF Writes, InsideInv, SeatsOK
<1>2. kind = "WORKSPACE" /\ req[h].saw # "none"
  BY <1>1 DEF SeatOK, Seating
<1>3. Inside'
  BY <1>2, Entered DEF InsideInv, MInv
<1> QED BY <1>3, WriteSits DEF InsideInv

LEMMA WorkspaceMembersInside ==
    ASSUME MInv, InsideInv, NEW h \in Handlers,
           Subscribe(h) \/ AddMember(h) \/ ChangeRole(h) \/ TransferOwnership(h)
           \/ RemoveMember(h) \/ LeaveWorkspace(h)
    PROVE  InsideInv'
<1> USE DEF UnchangedButMembers, scope, rooms, Seating
<1>1. CASE Subscribe(h)
  <2>1. ASSUME NEW u, WorkspaceAsks(h, "subscribe", u, u, "MEMBER", SubscribeChecks)
        PROVE  InsideInv'
    BY <2>1, AskKeepsInside DEF WorkspaceAsks
  <2>2. ASSUME Writes(h, "subscribe"), role' = Enrolled(req[h].on, "MEMBER"),
               UnchangedButMembers
        PROVE  InsideInv'
    <3>1. RolesGrow
      BY <2>2, EnrolledGrow DEF MInv
    <3> QED BY <2>2, <3>1, WriteKeepsInside
  <2> QED BY <1>1, <2>1, <2>2 DEF Subscribe
<1>2. CASE AddMember(h)
  <2>1. ASSUME NEW u, NEW v, NEW r, WorkspaceAsks(h, "addMember", u, v, r, AddMemberChecks(r))
        PROVE  InsideInv'
    BY <2>1, AskKeepsInside DEF WorkspaceAsks
  <2>2. ASSUME Writes(h, "addMember"), role' = Enrolled(req[h].on, req[h].as),
               UnchangedButMembers
        PROVE  InsideInv'
    <3>1. req[h].as # "none"
      BY <2>2, Serving DEF RequestOK, PlaceOK, Granting
    <3>2. RolesGrow
      BY <2>2, <3>1, EnrolledGrow DEF MInv
    <3> QED BY <2>2, <3>2, WriteKeepsInside
  <2> QED BY <1>2, <2>1, <2>2 DEF AddMember
<1>3. CASE ChangeRole(h)
  <2>1. ASSUME NEW u, NEW v, NEW r, NEW checks, WorkspaceAsks(h, "changeRole", u, v, r, checks)
        PROVE  InsideInv'
    BY <2>1, AskKeepsInside DEF WorkspaceAsks
  <2>2. ASSUME Writes(h, "changeRole"), UnchangedButMembers,
               role' = [role EXCEPT ![req[h].on] = IF @ = "none" THEN @ ELSE req[h].as]
        PROVE  InsideInv'
    <3>1. req[h].as # "none"
      BY <2>2, Serving DEF RequestOK, PlaceOK, Granting
    <3>2. RolesGrow
      BY <2>2, <3>1, ChangedGrow DEF MInv
    <3> QED BY <2>2, <3>2, WriteKeepsInside
  <2> QED BY <1>3, <2>1, <2>2 DEF ChangeRole, MemberChecks
<1>4. CASE TransferOwnership(h)
  <2>1. ASSUME NEW u, NEW v, NEW checks,
               WorkspaceAsks(h, "transferOwnership", u, v, "none", checks)
        PROVE  InsideInv'
    BY <2>1, AskKeepsInside DEF WorkspaceAsks
  <2>2. ASSUME Writes(h, "transferOwnership"), role' = Heired(req[h]), UnchangedButMembers
        PROVE  InsideInv'
    <3>1. RolesGrow
      BY <2>2, HeiredGrow
    <3> QED BY <2>2, <3>1, WriteKeepsInside
  <2> QED BY <1>4, <2>1, <2>2 DEF TransferOwnership, TransferChecks
<1>5. CASE RemoveMember(h)
  <2>1. ASSUME NEW u, NEW v, NEW checks, WorkspaceAsks(h, "removeMember", u, v, "none", checks)
        PROVE  InsideInv'
    BY <2>1, AskKeepsInside DEF WorkspaceAsks
  <2>2. ASSUME Writes(h, "removeMember"), Dismissed(h) PROVE InsideInv'
    BY <2>2, DismissedInside DEF Unaddressed
  <2> QED BY <1>5, <2>1, <2>2 DEF RemoveMember, MemberChecks
<1>6. CASE LeaveWorkspace(h)
  <2>1. ASSUME NEW u, NEW checks, WorkspaceAsks(h, "leaveWorkspace", u, u, "none", checks)
        PROVE  InsideInv'
    BY <2>1, AskKeepsInside DEF WorkspaceAsks
  <2>2. ASSUME Writes(h, "leaveWorkspace"), Dismissed(h) PROVE InsideInv'
    BY <2>2, DismissedInside DEF Unaddressed
  <2> QED BY <1>6, <2>1, <2>2 DEF LeaveWorkspace, LeaveWorkspaceChecks
<1> QED BY <1>1, <1>2, <1>3, <1>4, <1>5, <1>6

LEMMA SettingsInside ==
    ASSUME MInv, InsideInv, NEW h \in Handlers,
           ArchiveWorkspace(h) \/ UnarchiveWorkspace(h) \/ SetVisibility(h)
           \/ SetManagersCanArchive(h)
    PROVE  InsideInv'
<1>1. ASSUME NEW op \in {"archiveWorkspace", "unarchiveWorkspace", "setVisibility",
                         "setManagersCanArchive"},
             NEW u, NEW as, NEW checks, WorkspaceAsks(h, op, u, Nobody, as, checks)
      PROVE  InsideInv'
  BY <1>1, AskKeepsInside DEF WorkspaceAsks, Seating
<1>2. ASSUME NEW op, Writes(h, op), kind' = kind, UnchangedButScope PROVE InsideInv'
  BY <1>2, SameGrow, WriteKeepsInside DEF UnchangedButScope, members, rooms
<1> QED BY <1>1, <1>2
   DEF ArchiveWorkspace, ArchiveChecks, UnarchiveWorkspace, UnarchiveChecks, SetVisibility,
       VisibilityChecks,
           SetManagersCanArchive, SettingsChecks

LEMMA ChannelInside ==
    ASSUME MInv, InsideInv, NEW h \in Handlers,
           \/ CreateChannel(h) \/ JoinChannel(h) \/ AddChannelMember(h)
           \/ RemoveChannelMember(h) \/ LeaveChannel(h)
    PROVE  InsideInv'
<1> USE DEF UnchangedButRooms, scope, members
<1>a. accounts \subseteq Users
  BY DEF MInv, TypeOK
<1>b. ASSUME NEW op \in Seating, NEW u \in Users, NEW v \in Users, NEW as \in Asked,
             NEW checks \in Seq(Checks),
             WorkspaceAsks(h, op, u, v, as, checks),
           \/ /\ op = "createChannel" /\ Head(checks) = "memberOrSystemAdmin"
              /\ Tail(checks) = <<"notArchived">>
           \/ /\ op = "joinChannel" /\ Head(checks) = "memberOrSystemAdmin"
              /\ Tail(checks) = <<"notArchived", "isPublic", "isNotInChannel">>
           \/ /\ op = "addChannelMember"
              /\ Tail(checks) = <<"notArchived", "isMember", "isNotInChannel">>
      PROVE  InsideInv'
  <2>1. kind = "WORKSPACE" /\ Ask(h, op, u, v, as, checks) /\ SeatsOK /\ Inside /\ TypeOK
    BY <1>b DEF WorkspaceAsks, InsideInv, MInv
  <2>2. SeatsOK' /\ UNCHANGED <<kind, role, inChannel, visitors>>
    BY <1>b, <2>1, AskSits
  <2> QED BY <2>1, <2>2, StayInside DEF Stays, InsideInv
<1>1. CASE CreateChannel(h)
  <2>1. ASSUME NEW u \in accounts, NEW type \in ChannelTypes,
               WorkspaceAsks(h, "createChannel", u, u, type,
                             <<"memberOrSystemAdmin", "notArchived">>)
        PROVE  InsideInv'
    <3>1. u \in Users /\ type \in Asked /\ "createChannel" \in Seating
      BY <1>a DEF Asked, Seating
    <3>2. <<"memberOrSystemAdmin", "notArchived">> \in Seq(Checks)
      BY DEF Checks
    <3>3. /\ Head(<<"memberOrSystemAdmin", "notArchived">>) = "memberOrSystemAdmin"
          /\ Tail(<<"memberOrSystemAdmin", "notArchived">>) = <<"notArchived">>
      OBVIOUS
    <3> QED BY <1>b, <2>1, <3>1, <3>2, <3>3
  <2>2. ASSUME Writes(h, "createChannel"), UnchangedButRooms, UNCHANGED rooms PROVE InsideInv'
    BY <2>2, SameGrow, WriteKeepsInside DEF rooms
  <2>3. ASSUME Writes(h, "createChannel"), UnchangedButRooms, UNCHANGED <<inChannel, visitors>>
        PROVE  InsideInv'
    BY <2>3, SameGrow, WriteKeepsInside
  <2>4. ASSUME Writes(h, "createChannel"), UnchangedButRooms, Seated(req[h].by, req[h].saw)
        PROVE  InsideInv'
    <3>1. req[h].by \in Users
      BY <2>4, Serving
    <3> QED BY <2>4, <3>1, SeatedInside DEF Seating
  <2> QED BY <1>1, <2>1, <2>2, <2>3, <2>4 DEF CreateChannel, CreateChannelChecks
<1>2. CASE JoinChannel(h)
  <2>1. ASSUME NEW u \in accounts,
               WorkspaceAsks(h, "joinChannel", u, u, "none", JoinChannelChecks)
        PROVE  InsideInv'
    <3>1. u \in Users /\ "none" \in Asked /\ "joinChannel" \in Seating
      BY <1>a DEF Asked, Roles, Seating
    <3>2. JoinChannelChecks \in Seq(Checks)
      BY DEF Checks, JoinChannelChecks
    <3>3. /\ Head(JoinChannelChecks) = "memberOrSystemAdmin"
          /\ Tail(JoinChannelChecks) = <<"notArchived", "isPublic", "isNotInChannel">>
      BY DEF JoinChannelChecks
    <3> QED BY <1>b, <2>1, <3>1, <3>2, <3>3
  <2>2. ASSUME Writes(h, "joinChannel"), UnchangedButRooms, Seated(req[h].on, req[h].saw)
        PROVE  InsideInv'
    <3>1. req[h].on \in Users
      BY <2>2, Serving DEF Unaddressed
    <3> QED BY <2>2, <3>1, SeatedInside DEF Seating
  <2> QED BY <1>2, <2>1, <2>2 DEF JoinChannel
<1>3. CASE AddChannelMember(h)
  <2>1. ASSUME NEW u \in accounts, NEW v \in accounts,
               WorkspaceAsks(h, "addChannelMember", u, v, "none", AddChannelMemberChecks)
        PROVE  InsideInv'
    <3>1. u \in Users /\ v \in Users /\ "none" \in Asked /\ "addChannelMember" \in Seating
      BY <1>a DEF Asked, Roles, Seating
    <3>2. AddChannelMemberChecks \in Seq(Checks)
      BY DEF Checks, AddChannelMemberChecks
    <3>3. Tail(AddChannelMemberChecks) = <<"notArchived", "isMember", "isNotInChannel">>
      BY DEF AddChannelMemberChecks
    <3> QED BY <1>b, <2>1, <3>1, <3>2, <3>3
  <2>2. ASSUME Writes(h, "addChannelMember"), UnchangedButRooms, Seated(req[h].on, req[h].saw)
        PROVE  InsideInv'
    <3>1. req[h].on \in Users
      BY <2>2, Serving DEF Unaddressed
    <3> QED BY <2>2, <3>1, SeatedInside DEF Seating
  <2> QED BY <1>3, <2>1, <2>2 DEF AddChannelMember
<1>4. CASE RemoveChannelMember(h) \/ LeaveChannel(h)
  <2>1. ASSUME NEW op \in {"removeChannelMember", "leaveChannel"}, NEW u, NEW v, NEW as,
               NEW checks,
               WorkspaceAsks(h, op, u, v, as, checks)
        PROVE  InsideInv'
    BY <2>1, AskKeepsInside DEF WorkspaceAsks, Seating
  <2>2. ASSUME NEW op, Writes(h, op), Unseated(req[h].on) PROVE InsideInv'
    BY <2>2, UnseatedInside
  <2> QED BY <1>4, <2>1, <2>2
     DEF RemoveChannelMember, RemoveChannelMemberChecks, LeaveChannel, LeaveChannelChecks
<1> QED BY <1>1, <1>2, <1>3, <1>4

\* The organization's requests, and those for accounts and administrators.
LEMMA OrganizationInside ==
    ASSUME MInv, InsideInv, NEW h \in Handlers, OrganizationRequest(h)
    PROVE  InsideInv'
<1> USE DEF Seating
<1>1. CASE OrgAddMember(h) \/ OrgChangeRole(h)
  <2>1. ASSUME NEW op \in {"orgAddMember", "orgChangeRole"}, NEW u, NEW v, NEW as, NEW checks,
               OrganizationAsks(h, op, u, v, as, checks)
        PROVE  InsideInv'
    BY <2>1, AskKeepsInside DEF OrganizationAsks
  <2>2. ASSUME NEW op \in {"orgAddMember", "orgChangeRole"}, Writes(h, op)
        PROVE  req[h].as # "none"
    BY <2>2, Serving DEF RequestOK, PlaceOK, Granting
  <2>3. ASSUME NEW op \in {"orgAddMember", "orgChangeRole"}, Writes(h, op), UnchangedButRoles,
               \/ role' = Enrolled(req[h].on, req[h].as)
               \/ role' = [role EXCEPT ![req[h].on] = IF @ = "none" THEN @ ELSE req[h].as]
        PROVE  InsideInv'
    <3>1. RolesGrow
      BY <2>2, <2>3, EnrolledGrow, ChangedGrow DEF MInv
    <3> QED BY <2>3, <3>1, WriteKeepsInside DEF UnchangedButRoles, scope, rooms
  <2> QED BY <1>1, <2>1, <2>3 DEF OrgAddMember, OrgChangeRole, OrgMemberChecks
<1>2. CASE OrgRemoveMember(h) \/ OrgLeave(h)
  <2>1. ASSUME NEW op \in {"orgRemoveMember", "orgLeave"}, NEW u, NEW v, NEW as, NEW checks,
               OrganizationAsks(h, op, u, v, as, checks)
        PROVE  InsideInv'
    BY <2>1, AskKeepsInside DEF OrganizationAsks
  <2>2. ASSUME NEW op \in {"orgRemoveMember", "orgLeave"}, Writes(h, op), UnchangedButRoles
        PROVE  InsideInv'
    <3>1. kind = "ORGANIZATION" /\ inChannel = {}
      BY <2>2, Serving DEF RequestOK, PlaceOK, OrganizationRoutes, InsideInv, Inside
    <3>2. UNCHANGED <<kind, inChannel>>
      BY <2>2 DEF UnchangedButRoles, scope, rooms
    <3>3. Inside'
      BY <3>1, <3>2 DEF Inside
    <3> QED BY <2>2, <3>2, <3>3, WriteSits DEF InsideInv
  <2> QED BY <1>2, <2>1, <2>2 DEF OrgRemoveMember, OrgMemberChecks, OrgLeave, OrgLeaveChecks
<1>3. CASE OrgArchive(h) \/ OrgUnarchive(h)
  <2>1. ASSUME NEW op \in {"orgArchive", "orgUnarchive"}, NEW u, NEW v, NEW as, NEW checks,
               OrganizationAsks(h, op, u, v, as, checks)
        PROVE  InsideInv'
    BY <2>1, AskKeepsInside DEF OrganizationAsks
  <2>2. ASSUME NEW op, Writes(h, op), UNCHANGED <<kind, members, rooms>> PROVE InsideInv'
    BY <2>2, SameGrow, WriteKeepsInside DEF members, rooms
  <2> QED BY <1>3, <2>1, <2>2 DEF OrgArchive, OrgArchiveChecks, OrgUnarchive, OrgUnarchiveChecks
<1>4. CASE CreateAccount(h)
  <2>1. ASSUME NEW u, NEW v, NEW as, NEW checks, Ask(h, "createAccount", u, v, as, checks)
        PROVE  InsideInv'
    BY <2>1, AskKeepsInside
  <2>2. ASSUME Writes(h, "createAccount"), UNCHANGED <<scope, rooms>>,
               role' = role \/ role' = Enrolled(req[h].on, "ORG_MEMBER")
        PROVE  InsideInv'
    <3>1. RolesGrow
      BY <2>2, EnrolledGrow, SameGrow DEF MInv
    <3> QED BY <2>2, <3>1, WriteKeepsInside DEF scope, rooms
  <2> QED BY <1>4, <2>1, <2>2 DEF CreateAccount
<1>5. CASE Promote(h) \/ Demote(h)
  <2>1. ASSUME NEW op \in {"promote", "demote"}, NEW u, NEW v, NEW as, NEW checks,
               Ask(h, op, u, v, as, checks)
        PROVE  InsideInv'
    BY <2>1, AskKeepsInside
  <2>2. ASSUME NEW op, Writes(h, op), UnchangedButAdministrators PROVE InsideInv'
    BY <2>2, SameGrow, WriteKeepsInside DEF UnchangedButAdministrators, scope, members, rooms
  <2> QED BY <1>5, <2>1, <2>2 DEF Promote, PromoteChecks, Demote, DemoteChecks, Demoted
<1> QED BY <1>1, <1>2, <1>3, <1>4, <1>5 DEF OrganizationRequest

\* Links and offers.
LEMMA InvitationInside ==
    ASSUME MInv, InsideInv, NEW h \in Handlers, InvitationRequest(h)
    PROVE  InsideInv'
<1> USE DEF Seating
<1>1. CASE CreateWorkspaceLink(h) \/ CreateOrgLink(h) \/ RevokeLink(h)
  <2>1. ASSUME NEW op \in {"createLink", "orgCreateLink", "revokeLink"}, NEW u, NEW v, NEW as,
               NEW checks,
               Ask(h, op, u, v, as, checks)
        PROVE  InsideInv'
    BY <2>1, AskKeepsInside
  <2>2. ASSUME NEW op, Writes(h, op), role' = role, UnchangedButLinks PROVE InsideInv'
    BY <2>2, SameGrow, WriteKeepsInside DEF UnchangedButLinks, scope, rooms
  <2> QED BY <1>1, <2>1, <2>2
     DEF CreateWorkspaceLink, LinkChecks, CreateOrgLink, OrgLinkChecks, RevokeLink,
         RevokeChecks, LinkInserted,
             WorkspaceAsks,
                                  OrganizationAsks
<1>2. CASE AcceptLink(h)
  <2>1. ASSUME NEW u, NEW checks, Ask(h, "acceptLink", u, u, "none", checks) PROVE InsideInv'
    BY <2>1, AskKeepsInside
  <2>2. ASSUME Writes(h, "acceptLink"), Redeemed(h) PROVE InsideInv'
    <3>1. \/ role' = role
          \/ role' = Enrolled(req[h].by, link.role) /\ req[h].by \notin accounts
      BY <2>2 DEF Redeemed
    <3>2. RolesGrow
      BY <3>1 DEF RolesGrow, Enrolled, MInv, TypeOK, IsMember
    <3> QED BY <2>2, <3>2, WriteKeepsInside DEF Redeemed, UnchangedButLinks, scope, rooms
  <2> QED BY <1>2, <2>1, <2>2 DEF AcceptLink
<1>3. CASE OfferWorkspaceMembership(h) \/ OfferOrgMembership(h)
  <2>1. ASSUME NEW op \in {"offerMembership", "orgOfferMembership"}, NEW u, NEW v, NEW as,
               NEW checks,
               Ask(h, op, u, v, as, checks)
        PROVE  InsideInv'
    BY <2>1, AskKeepsInside
  <2>2. ASSUME NEW op, Writes(h, op), OfferInserted(h) PROVE InsideInv'
    BY <2>2, SameGrow, WriteKeepsInside DEF OfferInserted, UnchangedButOffers, scope, rooms
  <2> QED BY <1>3, <2>1, <2>2
     DEF OfferWorkspaceMembership, OfferChecks, OfferOrgMembership, OrgOfferChecks,
         WorkspaceAsks,
             OrganizationAsks
<1>4. CASE AcceptOffer(h) \/ DeclineOffer(h)
  <2>1. ASSUME NEW op \in {"acceptOffer", "declineOffer"}, NEW checks, TakeOffer(h, op, checks)
        PROVE  InsideInv'
    <3>1. PICK u \in accounts, o \in Offers :
              Take(h, [Idle EXCEPT !.op = op, !.by = u, !.on = u, !.row = o, !.left = checks])
      BY <2>1 DEF TakeOffer
    <3> DEFINE q == [Idle EXCEPT !.op = op, !.by = u, !.on = u, !.row = o, !.left = checks]
    <3>2. Learn(q).op = op
      BY DEF Learn, Idle
    <3>3. SeatOK(Learn(q))
      BY <3>2 DEF SeatOK
    <3> QED BY <3>1, <3>3, TakenElse
  <2>2. ASSUME NEW op, Writes(h, op), UnchangedButOffers,
               role' = role \/ \E r : role' = Enrolled(req[h].on, r)
        PROVE  InsideInv'
    <3>1. RolesGrow
      BY <2>2 DEF RolesGrow, Enrolled, MInv, TypeOK, IsMember
    <3> QED BY <2>2, <3>1, WriteKeepsInside DEF UnchangedButOffers, scope, rooms
  <2> QED BY <1>4, <2>1, <2>2 DEF AcceptOffer, DeclineOffer, DeclineOfferChecks
<1> QED BY <1>1, <1>2, <1>3, <1>4 DEF InvitationRequest

\* The requests for direct channels.
LEMMA OpenDirectInside ==
    ASSUME MInv, InsideInv, NEW h \in Handlers, OpenDirect(h)
    PROVE  InsideInv'
<1>1. ASSUME NEW u, NEW age, Ask(h, "openDirect", u, Nobody, age, <<"freshDirect">>)
      PROVE  InsideInv'
  BY <1>1, AskKeepsInside DEF Seating
<1>2. ASSUME Writes(h, "openDirect"), UNCHANGED <<scope, members, rooms>> PROVE InsideInv'
  BY <1>2, SameGrow, WriteKeepsInside DEF scope, members, rooms
<1> QED BY <1>1, <1>2 DEF OpenDirect

LEMMA CheckInside == ASSUME MInv, InsideInv, NEW h \in Handlers, Check(h) PROVE InsideInv'
<1>1. SeatsOK' /\ UNCHANGED <<kind, role, inChannel, visitors>>
  BY CheckSits DEF InsideInv
<1> QED BY <1>1, StayInside DEF Stays, InsideInv, MInv

LEMMA OthersInside ==
    ASSUME MInv, InsideInv, UNCHANGED <<scope, members, rooms, req>>
    PROVE  InsideInv'
<1>1. UNCHANGED <<kind, role, inChannel, visitors, req>>
  BY DEF scope, members, rooms
<1>2. SeatsOK'
  BY <1>1 DEF InsideInv, SeatsOK, SeatOK
<1> QED BY <1>1, <1>2, StayInside DEF Stays, InsideInv, MInv

\* Throughout, only the members of a workspace are in its channel (channel_members), but for
\* those who were put there without being members any more.
THEOREM InsideInvariance == Spec => []InsideInv
<1>1. Init => InsideInv
  <2> SUFFICES ASSUME Init PROVE InsideInv
    OBVIOUS
  <2>1. SeatsOK
    BY IdleRequest DEF Init, SeatsOK, SeatOK, Seating
  <2> QED BY <2>1 DEF Init, Settled, InsideInv, Inside, IsMember
<1>2. MInv /\ InsideInv /\ [Next]_vars => InsideInv'
  <2> SUFFICES ASSUME MInv, InsideInv, [Next]_vars PROVE InsideInv'
    OBVIOUS
  <2>1. ASSUME NEW h \in Handlers, WorkspaceRequest(h) PROVE InsideInv'
    BY <2>1, WorkspaceMembersInside, SettingsInside, ChannelInside DEF WorkspaceRequest
  <2>2. CASE LinkExpires \/ DirectAges
    BY <2>2, OthersInside DEF LinkExpires, DirectAges, UnchangedButLinks, members
  <2>3. CASE UNCHANGED vars
    BY <2>3, OthersInside DEF vars
  <2> QED BY <2>1, <2>2, <2>3, CheckInside, OrganizationInside, InvitationInside,
             OpenDirectInside DEF Next
<1> QED BY <1>1, <1>2, MembershipsInvariance, PTL DEF Spec

\* What was written in a channel is shown by no route (routes/messages.js, entities.js, tasks.js,
\* search.js, ai.js) but to members of its workspace and to those who entered the channel over
\* an override or by a request that overlapped the end of their membership.
THEOREM WrittenInside == Spec => []WrittenStaysInside
<1>1. MInv /\ InsideInv => WrittenStaysInside
  <2> SUFFICES ASSUME MInv, InsideInv, NEW u \in Users
               PROVE  /\ Written(u) => IsMember(u) \/ u \in visitors
                      /\ Named(u) => IsMember(u) \/ u \in visitors \/ u \in admins
    BY DEF WrittenStaysInside
  <2>1. u \in inChannel => IsMember(u) \/ u \in visitors
    BY DEF InsideInv, Inside
  <2>2. Written(u) => IsMember(u) \/ u \in inChannel
    BY DEF Written, History, Revisions, Summarize, SemanticSearch, Mentions, Tasks, Digest,
       Trending, References,
           Experts, SummaryShown, SummaryMade, EntityPage, OfWorkspace, ChannelMember
  <2>3. Manages(u) => IsMember(u) \/ u \in admins
    BY DEF Manages, HasPermission, GrantedTo, IsMember
  <2>4. HasPermission(u, "MANAGE_MEMBERS") \/ HasPermission(u, "ORG_INVITE")
            => IsMember(u) \/ u \in admins
    BY DEF HasPermission, GrantedTo, IsMember
  <2>5. MembersOf(u) \cup OrgMembersOf(u) \cup OrgColleagues(u) # {}
            => IsMember(u) \/ u \in admins
    BY <2>3 DEF MembersOf, OrgMembersOf, OrgColleagues
  <2>6. DOMAIN PeopleFor(u) \cup DOMAIN OrgPeopleFor(u) \cup DOMAIN ChannelCandidates(u) # {}
        => IsMember(u) \/ u \in admins
    BY <2>3 DEF PeopleFor, OrgPeopleFor, ChannelCandidates, MemberOrSystemAdmin
  <2>7. ChannelPeople(u) \cup Mentionable(u) # {} => u \in inChannel \/ u \in admins
    BY DEF ChannelPeople, Mentionable, ChannelMember, ChannelMemberOrSystemAdmin
  <2>8. Named(u) => IsMember(u) \/ u \in inChannel \/ u \in admins
    BY <2>4, <2>5, <2>6, <2>7 DEF Named, OwnWorkspaces, OwnOrganizations, AllWorkspaces,
       OrganizationsOf, ListsChannel,
       ListsLink, OrgListsLink, EntityNamesShown, Related, Activity, Collaboration, Sentiment,
       AuditLog,
       MemberOrSystemAdmin
  <2> QED BY <2>1, <2>2, <2>8
<1> QED BY <1>1, MembershipsInvariance, InsideInvariance, PTL

------------------------------------------------------------------------------
(* What the panels offer.                                                      *)

\* A request keeps what it asks for, and knows what the check before it saw.
Asks(q, by, on, as, row) == q.by = by /\ q.on = on /\ q.as = as /\ q.row = row
Knows(q, check) ==
    /\ check \in {"isMember", "isNotOwner"} => q.saw = role[q.on]
    /\ check = "linkExists" => q.saw = link.status
    /\ check = "owner" => q.from = owner

LEMMA Pressed ==
    ASSUME NEW op, NEW by, NEW on, NEW as, NEW checks
    PROVE  Press(op, by, on, as, checks) = Button(op, by, on, as, 0, checks)
BY DEF Press

LEMMA AfterCheck ==
    ASSUME NEW op, NEW by, NEW on, NEW as, NEW row, NEW c, NEW r, NEW left,
           r = Button(op, by, on, as, row, left), Head(left) = c, c # "freshDirect"
    PROVE  Asks(Learn(r), by, on, as, row) /\ Knows(Learn(r), c)
<1>1. r.by = by /\ r.on = on /\ r.as = as /\ r.row = row /\ Head(r.left) = c
  BY DEF Button
<1>2. /\ Learn(r).by = by /\ Learn(r).on = on /\ Learn(r).as = as /\ Learn(r).row = row
      /\ Learn(r).saw = Sees(r, c) /\ (c = "owner" => Learn(r).from = owner)
  BY <1>1 DEF Learn, Button
<1>3. /\ c \in {"isMember", "isNotOwner"} => Sees(r, c) = role[on]
      /\ c = "linkExists" => Sees(r, c) = link.status
  BY <1>1 DEF Sees
<1> QED BY <1>1, <1>2, <1>3, Zenon DEF Asks, Knows

LEMMA AtNext ==
    ASSUME NEW op, NEW by, NEW on, NEW as, NEW row, NEW checks, NEW q, NEW i, NEW c,
           q = Button(op, by, on, as, row, checks), i # 1, c = checks[i - 1], c # "freshDirect"
    PROVE  Asks(At(q, i), by, on, as, row) /\ Knows(At(q, i), c)
<1>1. PICK left : left = <<c>>
  OBVIOUS
<1>2. Head(left) = c
  BY <1>1
<1>3. At(q, i) = Learn(Button(op, by, on, as, row, left))
  <2>1. q.op = op /\ q.by = by /\ q.on = on /\ q.as = as /\ q.row = row /\ q.left = checks
    BY DEF Button
  <2> QED BY <2>1, <1>1 DEF At
<1> QED BY <1>2, <1>3, AfterCheck, Zenon

\* One, two, three or four checks: the route accepts when each passes.
LEMMA AnswersOne ==
    ASSUME NEW op, NEW by, NEW on, NEW as, NEW row, NEW a, NEW q,
           q = Button(op, by, on, as, row, <<a>>)
    PROVE  /\ Accepts(q) <=> Passes(At(q, 1), a)
           /\ Asks(At(q, 1), by, on, as, row)
<1>1. PICK left : left = <<a>>
  OBVIOUS
<1>2. q = Button(op, by, on, as, row, left)
  BY <1>1
<1>3. q.left = left /\ Asks(At(q, 1), by, on, as, row)
  <2>1. At(q, 1) = q /\ Asks(q, by, on, as, row) /\ q.left = left
    BY <1>2 DEF At, Asks, Button
  <2> QED BY <2>1, Zenon
<1>4. /\ \A i : i \in DOMAIN left <=> i = 1
      /\ left[1] = a
  BY <1>1
<1>5. Accepts(q) <=> Passes(At(q, 1), a)
  <2>1. Accepts(q) <=> \A i \in DOMAIN left : Passes(At(q, i), left[i])
    BY <1>3, Zenon DEF Accepts
  <2> QED BY <2>1, <1>4, Zenon
<1> QED BY <1>3, <1>5

LEMMA AnswersTwo ==
    ASSUME NEW op, NEW by, NEW on, NEW as, NEW row, NEW a, NEW b, NEW q,
           q = Button(op, by, on, as, row, <<a, b>>),
           a # "freshDirect"
    PROVE  /\ Accepts(q) <=> Passes(At(q, 1), a) /\ Passes(At(q, 2), b)
           /\ Asks(At(q, 1), by, on, as, row)
           /\ Asks(At(q, 2), by, on, as, row) /\ Knows(At(q, 2), a)
<1>1. PICK left : left = <<a, b>>
  OBVIOUS
<1>2. q = Button(op, by, on, as, row, left)
  BY <1>1
<1>3. q.left = left /\ Asks(At(q, 1), by, on, as, row)
  <2>1. At(q, 1) = q /\ Asks(q, by, on, as, row) /\ q.left = left
    BY <1>2 DEF At, Asks, Button
  <2> QED BY <2>1, Zenon
<1>4. /\ \A i : i \in DOMAIN left <=> i = 1 \/ i = 2
      /\ left[1] = a /\ left[2] = b
  BY <1>1
<1>5. Asks(At(q, 2), by, on, as, row) /\ Knows(At(q, 2), a)
  <2>1. 2 # 1 /\ a = left[2 - 1]
    BY <1>4
  <2> QED BY <2>1, <1>2, AtNext
<1>6. Accepts(q) <=> Passes(At(q, 1), a) /\ Passes(At(q, 2), b)
  <2>1. Accepts(q) <=> \A i \in DOMAIN left : Passes(At(q, i), left[i])
    BY <1>3, Zenon DEF Accepts
  <2> QED BY <2>1, <1>4, Zenon
<1> QED BY <1>3, <1>5, <1>6

LEMMA AnswersThree ==
    ASSUME NEW op, NEW by, NEW on, NEW as, NEW row, NEW a, NEW b, NEW c, NEW q,
           q = Button(op, by, on, as, row, <<a, b, c>>),
           a # "freshDirect", b # "freshDirect"
    PROVE  /\ Accepts(q) <=> Passes(At(q, 1), a) /\ Passes(At(q, 2), b) /\ Passes(At(q, 3), c)
           /\ Asks(At(q, 1), by, on, as, row)
           /\ Asks(At(q, 2), by, on, as, row) /\ Knows(At(q, 2), a)
           /\ Asks(At(q, 3), by, on, as, row) /\ Knows(At(q, 3), b)
<1>1. PICK left : left = <<a, b, c>>
  OBVIOUS
<1>2. q = Button(op, by, on, as, row, left)
  BY <1>1
<1>3. q.left = left /\ Asks(At(q, 1), by, on, as, row)
  <2>1. At(q, 1) = q /\ Asks(q, by, on, as, row) /\ q.left = left
    BY <1>2 DEF At, Asks, Button
  <2> QED BY <2>1, Zenon
<1>4. /\ \A i : i \in DOMAIN left <=> i = 1 \/ i = 2 \/ i = 3
      /\ left[1] = a /\ left[2] = b /\ left[3] = c
  BY <1>1
<1>5. Asks(At(q, 2), by, on, as, row) /\ Knows(At(q, 2), a)
  <2>1. 2 # 1 /\ a = left[2 - 1]
    BY <1>4
  <2> QED BY <2>1, <1>2, AtNext
<1>6. Asks(At(q, 3), by, on, as, row) /\ Knows(At(q, 3), b)
  <2>1. 3 # 1 /\ b = left[3 - 1]
    BY <1>4
  <2> QED BY <2>1, <1>2, AtNext
<1>7. Accepts(q) <=> Passes(At(q, 1), a) /\ Passes(At(q, 2), b) /\ Passes(At(q, 3), c)
  <2>1. Accepts(q) <=> \A i \in DOMAIN left : Passes(At(q, i), left[i])
    BY <1>3, Zenon DEF Accepts
  <2> QED BY <2>1, <1>4, Zenon
<1> QED BY <1>3, <1>5, <1>6, <1>7

LEMMA AnswersFour ==
    ASSUME NEW op, NEW by, NEW on, NEW as, NEW row, NEW a, NEW b, NEW c, NEW d, NEW q,
           q = Button(op, by, on, as, row, <<a, b, c, d>>),
           a # "freshDirect", b # "freshDirect", c # "freshDirect"
    PROVE  /\ Accepts(q) <=> /\ Passes(At(q, 1), a) /\ Passes(At(q, 2), b)
                             /\ Passes(At(q, 3), c) /\ Passes(At(q, 4), d)
           /\ Asks(At(q, 1), by, on, as, row)
           /\ Asks(At(q, 2), by, on, as, row) /\ Knows(At(q, 2), a)
           /\ Asks(At(q, 3), by, on, as, row) /\ Knows(At(q, 3), b)
           /\ Asks(At(q, 4), by, on, as, row) /\ Knows(At(q, 4), c)
<1>1. PICK left : left = <<a, b, c, d>>
  OBVIOUS
<1>2. q = Button(op, by, on, as, row, left)
  BY <1>1
<1>3. q.left = left /\ Asks(At(q, 1), by, on, as, row)
  <2>1. At(q, 1) = q /\ Asks(q, by, on, as, row) /\ q.left = left
    BY <1>2 DEF At, Asks, Button
  <2> QED BY <2>1, Zenon
<1>4. /\ \A i : i \in DOMAIN left <=> i = 1 \/ i = 2 \/ i = 3 \/ i = 4
      /\ left[1] = a /\ left[2] = b /\ left[3] = c /\ left[4] = d
  BY <1>1
<1>5. Asks(At(q, 2), by, on, as, row) /\ Knows(At(q, 2), a)
  <2>1. 2 # 1 /\ a = left[2 - 1]
    BY <1>4
  <2> QED BY <2>1, <1>2, AtNext
<1>6. Asks(At(q, 3), by, on, as, row) /\ Knows(At(q, 3), b)
  <2>1. 3 # 1 /\ b = left[3 - 1]
    BY <1>4
  <2> QED BY <2>1, <1>2, AtNext
<1>7. Asks(At(q, 4), by, on, as, row) /\ Knows(At(q, 4), c)
  <2>1. 4 # 1 /\ c = left[4 - 1]
    BY <1>4
  <2> QED BY <2>1, <1>2, AtNext
<1>8. Accepts(q) <=> /\ Passes(At(q, 1), a) /\ Passes(At(q, 2), b)
                     /\ Passes(At(q, 3), c) /\ Passes(At(q, 4), d)
  <2>1. Accepts(q) <=> \A i \in DOMAIN left : Passes(At(q, i), left[i])
    BY <1>3, Zenon DEF Accepts
  <2> QED BY <2>1, <1>4, Zenon
<1> QED BY <1>3, <1>5, <1>6, <1>7, <1>8

\* What each check asks.
LEMMA OfCaller ==
    ASSUME NEW q
    PROVE  /\ \A p \in Permissions : Passes(q, p) <=> HasPermission(q.by, p)
           /\ Passes(q, "member") <=> IsMember(q.by)
           /\ Passes(q, "memberOrSystemAdmin") <=> MemberOrSystemAdmin(q.by)
           /\ Passes(q, "channelMember") <=> ChannelMember(q.by)
           /\ Passes(q, "channelMemberOrSystemAdmin") <=> ChannelMemberOrSystemAdmin(q.by)
           /\ Passes(q, "systemAdmin") <=> q.by \in admins
BY DEF Passes, Permissions

LEMMA OfScope ==
    ASSUME NEW q
    PROVE  /\ Passes(q, "notArchived") <=> ~archived
           /\ Passes(q, "isArchived") <=> archived
           /\ Passes(q, "discoverable") <=> discoverable
           /\ Passes(q, "changesVisibility") <=> (discoverable # (q.as = "DISCOVERABLE"))
           /\ Passes(q, "isPublic") <=> channel = "PUBLIC"
           /\ Passes(q, "owner") /\ Passes(q, "membership")
BY DEF Passes, Permissions

LEMMA OfSubject ==
    ASSUME NEW q
    PROVE  /\ Passes(q, "isNoMember") <=> ~IsMember(q.on)
           /\ Passes(q, "isMember") <=> IsMember(q.on)
           /\ Passes(q, "isNotOwner") <=> IsMember(q.on) /\ role[q.on] # "OWNER"
           /\ Passes(q, "mayChangeManagers")
              <=> ("MANAGER" \in {q.saw, q.as} => HasPermission(q.by, "MANAGE_MANAGERS"))
           /\ Passes(q, "isHeir") <=> IsMember(q.on) /\ q.on # q.from
           /\ Passes(q, "isNotInChannel") <=> q.on \notin inChannel
           /\ Passes(q, "isInChannel") <=> q.on \in inChannel
           /\ Passes(q, "isAdministrator") <=> q.on \in admins
           /\ Passes(q, "isNoAdministrator") <=> q.on \notin admins
BY DEF Passes, Permissions

LEMMA OfInvitations ==
    ASSUME NEW q
    PROVE  /\ Passes(q, "linkExists") <=> link.status # "none"
           /\ Passes(q, "mayRevoke")
              <=> /\ q.saw \in {"PENDING", "EXPIRED"}
                  /\ q.by = link.by \/ HasPermission(q.by, q.as)
           /\ Passes(q, "noOfferPending")
              <=> \A o \in Offers : ~(offer[o].status = "PENDING" /\ offer[o].to = q.on)
           /\ Passes(q, "ownOfferPending")
              <=> offer[q.row].status = "PENDING" /\ offer[q.row].to = q.by
BY DEF Passes, Permissions

\* Who sees a section of the settings has its permission, but perhaps for archiving.
LEMMA ShownMay ==
    ASSUME NEW u, NEW p, p # "ARCHIVE", Shows(u, p)
    PROVE  HasPermission(u, p)
BY DEF Shows, AllWorkspaces, HasPermission

\* The people a picker lets be chosen are no members.
LEMMA EligiblePeople ==
    ASSUME NEW u, NEW v \in Eligible(PeopleFor(u), "alreadyMember")
    PROVE  ~IsMember(v)
<1> DEFINE flags == [w \in accounts |-> [alreadyMember |-> IsMember(w)]]
<1>1. v \in DOMAIN PeopleFor(u) /\ ~PeopleFor(u)[v]["alreadyMember"]
  BY DEF Eligible
<1>2. CASE IsWorkspace /\ Manages(u)
  <2>1. PeopleFor(u) = flags
    BY <1>2 DEF PeopleFor
  <2>2. v \in accounts /\ ~flags[v]["alreadyMember"]
    BY <1>1, <2>1
  <2> QED BY <2>2
<1>3. CASE ~(IsWorkspace /\ Manages(u))
  BY <1>1, <1>3 DEF PeopleFor
<1> QED BY <1>2, <1>3

LEMMA EligibleOrgPeople ==
    ASSUME NEW u, NEW v \in Eligible(OrgPeopleFor(u), "alreadyMember")
    PROVE  HasPermission(u, "ORG_MANAGE_MEMBERS") /\ ~IsMember(v)
<1> DEFINE flags == [w \in accounts |-> [alreadyMember |-> IsMember(w)]]
<1>1. v \in DOMAIN OrgPeopleFor(u) /\ ~OrgPeopleFor(u)[v]["alreadyMember"]
  BY DEF Eligible
<1>2. CASE IsOrganization /\ Manages(u)
  <2>1. OrgPeopleFor(u) = flags
    BY <1>2 DEF OrgPeopleFor
  <2>2. v \in accounts /\ ~flags[v]["alreadyMember"]
    BY <1>1, <2>1
  <2> QED BY <1>2, <2>2 DEF Manages
<1>3. CASE ~(IsOrganization /\ Manages(u))
  BY <1>1, <1>3 DEF OrgPeopleFor
<1> QED BY <1>2, <1>3

LEMMA EligibleCandidates ==
    ASSUME NEW u, NEW v \in Eligible(ChannelCandidates(u), "alreadyInChannel")
    PROVE  ChannelMemberOrSystemAdmin(u) /\ IsMember(v) /\ v \notin inChannel
<1> DEFINE those == {w \in accounts : IsMember(w)}
           flags == [w \in those |-> [alreadyInChannel |-> w \in inChannel]]
<1>1. v \in DOMAIN ChannelCandidates(u) /\ ~ChannelCandidates(u)[v]["alreadyInChannel"]
  BY DEF Eligible
<1>2. CASE IsWorkspace /\ MemberOrSystemAdmin(u) /\ ChannelMemberOrSystemAdmin(u)
  <2>1. ChannelCandidates(u) = flags
    BY <1>2 DEF ChannelCandidates
  <2>2. v \in those /\ ~flags[v]["alreadyInChannel"]
    BY <1>1, <2>1
  <2>3. IsMember(v)
    BY <2>2
  <2>4. v \notin inChannel
    BY <2>2
  <2> QED BY <1>2, <2>3, <2>4
<1>3. CASE ~(IsWorkspace /\ MemberOrSystemAdmin(u) /\ ChannelMemberOrSystemAdmin(u))
  BY <1>1, <1>3 DEF ChannelCandidates
<1> QED BY <1>2, <1>3

\* Adding to, and inviting into, a workspace.
LEMMA InvitesAnswered ==
    ASSUME NEW u \in accounts
    PROVE  Answered(InviteMember(u)) /\ Answered(InviteMembership(u)) /\ Answered(InviteLink(u))
<1>1. ASSUME NEW q \in InviteMember(u) PROVE Accepts(q) <=> ~Refused(q)
  <2>1. PICK v \in Eligible(PeopleFor(u), "alreadyMember"), r \in WorkspaceRoles :
           q = Press("addMember", u, v, r, AddMemberChecks(r))
    BY DEF InviteMember
  <2>2. q = Button("addMember", u, v, r, 0,
                   <<ToGrant(r), "notArchived", "isNoMember">>)
    BY <2>1, Pressed DEF AddMemberChecks
  <2>3. Accepts(q) <=> HasPermission(u, ToGrant(r)) /\ ~archived /\ ~IsMember(v)
    BY <2>2, AnswersThree, OfCaller, OfScope, OfSubject, OfInvitations
    DEF Asks, Knows, Permissions, ToGrant
  <2>4. Refused(q) <=> archived \/ (r = "MANAGER" /\ ~HasPermission(u, "MANAGE_MANAGERS"))
    BY <2>2 DEF Refused, Button, OfferedThoughArchived
  <2>5. HasPermission(u, "MANAGE_MEMBERS") /\ ~IsMember(v)
    BY EligiblePeople, ShownMay DEF InviteMember
  <2> QED BY <2>3, <2>4, <2>5 DEF ToGrant
<1>2. ASSUME NEW q \in InviteMembership(u) PROVE Accepts(q) <=> ~Refused(q)
  <2>1. PICK v \in Eligible(PeopleFor(u), "alreadyMember"), r \in WorkspaceRoles :
           q = Press("offerMembership", u, v, r, OfferChecks(r))
    BY DEF InviteMembership
  <2>2. q = Button("offerMembership", u, v, r, 0,
                   <<ToGrant(r), "notArchived", "isNoMember", "noOfferPending">>)
    BY <2>1, Pressed DEF OfferChecks
  <2>3. Accepts(q) <=> HasPermission(u, ToGrant(r)) /\ ~archived /\ ~IsMember(v) /\ ~(\E o \in
  Offers : offer[o].status = "PENDING" /\ offer[o].to = v)
    BY <2>2, AnswersFour, OfCaller, OfScope, OfSubject, OfInvitations
    DEF Asks, Knows, Permissions, ToGrant
  <2>4. Refused(q) <=> archived \/ (r = "MANAGER" /\ ~HasPermission(u, "MANAGE_MANAGERS")) \/
  (\E o \in Offers : offer[o].status = "PENDING" /\ offer[o].to = v)
    BY <2>2 DEF Refused, Button, OfferedThoughArchived
  <2>5. HasPermission(u, "MANAGE_MEMBERS") /\ ~IsMember(v)
    BY EligiblePeople, ShownMay DEF InviteMembership
  <2> QED BY <2>3, <2>4, <2>5 DEF ToGrant
<1>3. ASSUME NEW q \in InviteLink(u) PROVE Accepts(q) <=> ~Refused(q)
  <2>1. PICK r \in WorkspaceRoles :
           q = Press("createLink", u, Nobody, r, LinkChecks(r))
    BY DEF InviteLink
  <2>2. q = Button("createLink", u, Nobody, r, 0,
                   <<ToGrant(r), "notArchived">>)
    BY <2>1, Pressed DEF LinkChecks
  <2>3. Accepts(q) <=> HasPermission(u, ToGrant(r)) /\ ~archived
    BY <2>2, AnswersTwo, OfCaller, OfScope, OfSubject, OfInvitations
    DEF Asks, Knows, Permissions, ToGrant
  <2>4. Refused(q) <=> archived \/ (r = "MANAGER" /\ ~HasPermission(u, "MANAGE_MANAGERS"))
    BY <2>2 DEF Refused, Button, OfferedThoughArchived
  <2>5. HasPermission(u, "MANAGE_MEMBERS")
    BY ShownMay DEF InviteLink
  <2> QED BY <2>3, <2>4, <2>5 DEF ToGrant
<1> QED BY <1>1, <1>2, <1>3 DEF Answered

\* The other sections of a workspace's settings.
LEMMA SettingsAnswered ==
    ASSUME NEW u \in accounts, MInv
    PROVE  Answered(TransferTo(u)) /\ Answered(VisibilityButton(u)) /\
           Answered(ManagersMayArchive(u)) /\ Answered(ArchiveButton(u)) /\
           Answered(UnarchiveButton(u)) /\ Answered(LeaveWorkspaceButton(u)) /\
           Answered(BrowseWorkspaces(u))
<1>1. ASSUME NEW q \in TransferTo(u) PROVE Accepts(q) <=> ~Refused(q)
  <2>1. PICK v \in {w \in accounts \ {u} : IsMember(w)} :
           q = Press("transferOwnership", u, v, "none", TransferChecks)
    BY DEF TransferTo
  <2>2. q = Button("transferOwnership", u, v, "none", 0,
                   <<"TRANSFER_OWNERSHIP", "notArchived", "owner", "isHeir">>)
    BY <2>1, Pressed DEF TransferChecks
  <2>3. Accepts(q) <=> HasPermission(u, "TRANSFER_OWNERSHIP") /\ ~archived /\ IsMember(v) /\ v #
  owner
    BY <2>2, AnswersFour, OfCaller, OfScope, OfSubject, OfInvitations
    DEF Asks, Knows, Permissions
  <2>4. Refused(q) <=> archived \/ v = owner
    BY <2>2 DEF Refused, Button, OfferedThoughArchived
  <2>5. HasPermission(u, "TRANSFER_OWNERSHIP") /\ IsMember(v)
    BY <2>1, ShownMay DEF TransferTo
  <2> QED BY <2>3, <2>4, <2>5
<1>2. ASSUME NEW q \in VisibilityButton(u) PROVE Accepts(q) <=> ~Refused(q)
  <2>1. q = Press("setVisibility", u, Nobody, IF discoverable THEN "PRIVATE" ELSE "DISCOVERABLE",
                    VisibilityChecks)
    BY DEF VisibilityButton
  <2>2. q = Button("setVisibility", u, Nobody,
                   IF discoverable THEN "PRIVATE" ELSE "DISCOVERABLE", 0,
                   <<"CHANGE_VISIBILITY", "notArchived", "changesVisibility">>)
    BY <2>1, Pressed DEF VisibilityChecks
  <2>3. Accepts(q) <=> HasPermission(u, "CHANGE_VISIBILITY") /\ ~archived
    BY <2>2, AnswersThree, OfCaller, OfScope, OfSubject, OfInvitations
    DEF Asks, Knows, Permissions, MInv, TypeOK
  <2>4. Refused(q) <=> archived
    BY <2>2 DEF Refused, Button, OfferedThoughArchived
  <2>5. HasPermission(u, "CHANGE_VISIBILITY")
    BY ShownMay DEF VisibilityButton
  <2> QED BY <2>3, <2>4, <2>5
<1>3. ASSUME NEW q \in ManagersMayArchive(u) PROVE Accepts(q) <=> ~Refused(q)
  <2>1. q = Press("setManagersCanArchive", u, Nobody, IF delegated THEN "kept" ELSE "delegated",
                    SettingsChecks)
    BY DEF ManagersMayArchive
  <2>2. q = Button("setManagersCanArchive", u, Nobody,
                   IF delegated THEN "kept" ELSE "delegated", 0,
                   <<"MANAGE_SETTINGS">>)
    BY <2>1, Pressed DEF SettingsChecks
  <2>3. Accepts(q) <=> HasPermission(u, "MANAGE_SETTINGS")
    BY <2>2, AnswersOne, OfCaller, OfScope, OfSubject, OfInvitations
    DEF Asks, Permissions
  <2>4. Refused(q) <=> FALSE
    BY <2>2 DEF Refused, Button, OfferedThoughArchived
  <2>5. HasPermission(u, "MANAGE_SETTINGS")
    BY ShownMay DEF ManagersMayArchive
  <2> QED BY <2>3, <2>4, <2>5
<1>4. ASSUME NEW q \in ArchiveButton(u) PROVE Accepts(q) <=> ~Refused(q)
  <2>1. q = Press("archiveWorkspace", u, Nobody, "none", ArchiveChecks)
    BY DEF ArchiveButton
  <2>2. q = Button("archiveWorkspace", u, Nobody, "none", 0,
                   <<"ARCHIVE", "notArchived">>)
    BY <2>1, Pressed DEF ArchiveChecks
  <2>3. Accepts(q) <=> HasPermission(u, "ARCHIVE") /\ ~archived
    BY <2>2, AnswersTwo, OfCaller, OfScope, OfSubject, OfInvitations
    DEF Asks, Knows, Permissions
  <2>4. Refused(q) <=> archived \/ ~HasPermission(u, "ARCHIVE")
    BY <2>2 DEF Refused, Button, OfferedThoughArchived
  <2> QED BY <2>3, <2>4
<1>5. ASSUME NEW q \in UnarchiveButton(u) PROVE Accepts(q) <=> ~Refused(q)
  <2>1. q = Press("unarchiveWorkspace", u, Nobody, "none", UnarchiveChecks)
    BY DEF UnarchiveButton
  <2>2. q = Button("unarchiveWorkspace", u, Nobody, "none", 0,
                   <<"ARCHIVE", "isArchived">>)
    BY <2>1, Pressed DEF UnarchiveChecks
  <2>3. Accepts(q) <=> HasPermission(u, "ARCHIVE") /\ archived
    BY <2>2, AnswersTwo, OfCaller, OfScope, OfSubject, OfInvitations
    DEF Asks, Knows, Permissions
  <2>4. Refused(q) <=> ~HasPermission(u, "ARCHIVE")
    BY <2>2 DEF Refused, Button, OfferedThoughArchived
  <2>5. archived
    BY DEF UnarchiveButton
  <2> QED BY <2>3, <2>4, <2>5
<1>6. ASSUME NEW q \in LeaveWorkspaceButton(u) PROVE Accepts(q) <=> ~Refused(q)
  <2>1. q = Press("leaveWorkspace", u, u, "none", LeaveWorkspaceChecks)
    BY DEF LeaveWorkspaceButton
  <2>2. q = Button("leaveWorkspace", u, u, "none", 0,
                   <<"member", "notArchived", "isNotOwner">>)
    BY <2>1, Pressed DEF LeaveWorkspaceChecks
  <2>3. Accepts(q) <=> IsMember(u) /\ ~archived /\ role[u] # "OWNER"
    BY <2>2, AnswersThree, OfCaller, OfScope, OfSubject, OfInvitations
    DEF Asks, Knows, Permissions
  <2>4. Refused(q) <=> FALSE
    BY <2>2 DEF Refused, Button, OfferedThoughArchived
  <2>5. IsMember(u) /\ ~archived /\ role[u] # "OWNER"
    BY DEF LeaveWorkspaceButton, OwnWorkspaces
  <2> QED BY <2>3, <2>4, <2>5
<1>7. ASSUME NEW q \in BrowseWorkspaces(u) PROVE Accepts(q) <=> ~Refused(q)
  <2>1. q = Press("subscribe", u, u, "MEMBER", SubscribeChecks)
    BY DEF BrowseWorkspaces
  <2>2. q = Button("subscribe", u, u, "MEMBER", 0,
                   <<"discoverable", "notArchived", "isNoMember">>)
    BY <2>1, Pressed DEF SubscribeChecks
  <2>3. Accepts(q) <=> discoverable /\ ~archived /\ ~IsMember(u)
    BY <2>2, AnswersThree, OfCaller, OfScope, OfSubject, OfInvitations
    DEF Asks, Knows, Permissions
  <2>4. Refused(q) <=> FALSE
    BY <2>2 DEF Refused, Button, OfferedThoughArchived
  <2>5. discoverable /\ ~archived /\ ~IsMember(u)
    BY DEF BrowseWorkspaces, Discoverable
  <2> QED BY <2>3, <2>4, <2>5
<1> QED BY <1>1, <1>2, <1>3, <1>4, <1>5, <1>6, <1>7 DEF Answered

\* The members and links of a workspace.
LEMMA UsersAnswered ==
    ASSUME NEW u \in accounts
    PROVE  Answered(ChooseRole(u)) /\ Answered(RemoveButton(u)) /\ Answered(RevokeButton(u))
<1>1. ASSUME NEW q \in ChooseRole(u) PROVE Accepts(q) <=> ~Refused(q)
  <2>1. PICK v \in MembersOf(u), r \in WorkspaceRoles :
           q = Press("changeRole", u, v, r, MemberChecks)
    BY DEF ChooseRole
  <2>2. q = Button("changeRole", u, v, r, 0,
                   <<"MANAGE_MEMBERS", "notArchived", "isNotOwner", "mayChangeManagers">>)
    BY <2>1, Pressed DEF MemberChecks
  <2>3. Accepts(q) <=> HasPermission(u, "MANAGE_MEMBERS") /\ ~archived /\ IsMember(v) /\ role[v]
  # "OWNER" /\ ("MANAGER" \in {role[v], r} => HasPermission(u, "MANAGE_MANAGERS"))
    BY <2>2, AnswersFour, OfCaller, OfScope, OfSubject, OfInvitations
    DEF Asks, Knows, Permissions
  <2>4. Refused(q) <=> archived \/ role[v] = "OWNER" \/ ("MANAGER" \in {r, role[v]} /\
  ~HasPermission(u, "MANAGE_MANAGERS"))
    BY <2>2 DEF Refused, Button, OfferedThoughArchived
  <2>5. HasPermission(u, "MANAGE_MEMBERS") /\ IsMember(v)
    BY <2>1 DEF MembersOf, Manages, IsWorkspace, IsOrganization
  <2> QED BY <2>3, <2>4, <2>5
<1>2. ASSUME NEW q \in RemoveButton(u) PROVE Accepts(q) <=> ~Refused(q)
  <2>1. PICK v \in MembersOf(u) :
           q = Press("removeMember", u, v, "none", MemberChecks)
    BY DEF RemoveButton
  <2>2. q = Button("removeMember", u, v, "none", 0,
                   <<"MANAGE_MEMBERS", "notArchived", "isNotOwner", "mayChangeManagers">>)
    BY <2>1, Pressed DEF MemberChecks
  <2>3. Accepts(q) <=> HasPermission(u, "MANAGE_MEMBERS") /\ ~archived /\ IsMember(v) /\ role[v]
  # "OWNER" /\ ("MANAGER" \in {role[v], "none"} => HasPermission(u, "MANAGE_MANAGERS"))
    BY <2>2, AnswersFour, OfCaller, OfScope, OfSubject, OfInvitations
    DEF Asks, Knows, Permissions
  <2>4. Refused(q) <=> archived \/ role[v] = "OWNER" \/ ("MANAGER" \in {"none", role[v]} /\
  ~HasPermission(u, "MANAGE_MANAGERS"))
    BY <2>2 DEF Refused, Button, OfferedThoughArchived
  <2>5. HasPermission(u, "MANAGE_MEMBERS") /\ IsMember(v)
    BY <2>1 DEF MembersOf, Manages, IsWorkspace, IsOrganization
  <2> QED BY <2>3, <2>4, <2>5
<1>3. ASSUME NEW q \in RevokeButton(u) PROVE Accepts(q) <=> ~Refused(q)
  <2>1. q = Press("revokeLink", u, Nobody, "MANAGE_MEMBERS", RevokeChecks)
    BY DEF RevokeButton
  <2>2. q = Button("revokeLink", u, Nobody, "MANAGE_MEMBERS", 0,
                   <<"linkExists", "mayRevoke">>)
    BY <2>1, Pressed DEF RevokeChecks
  <2>3. Accepts(q) <=> link.status \in {"PENDING", "EXPIRED"} /\ (u = link.by \/
  HasPermission(u, "MANAGE_MEMBERS"))
    BY <2>2, AnswersTwo, OfCaller, OfScope, OfSubject, OfInvitations
    DEF Asks, Knows, Permissions
  <2>4. Refused(q) <=> FALSE
    BY <2>2 DEF Refused, Button, OfferedThoughArchived
  <2>5. link.status = "PENDING" /\ HasPermission(u, "MANAGE_MEMBERS")
    BY DEF RevokeButton, ListsLink
  <2> QED BY <2>3, <2>4, <2>5
<1> QED BY <1>1, <1>2, <1>3 DEF Answered

\* The channel.
LEMMA ChannelsAnswered ==
    ASSUME NEW u \in accounts
    PROVE  Answered(NewChannel(u)) /\ Answered(JoinButton(u)) /\ Answered(AddToChannel(u)) /\
           Answered(RemoveFromChannel(u)) /\ Answered(LeaveChannelButton(u))
<1>1. ASSUME NEW q \in NewChannel(u) PROVE Accepts(q) <=> ~Refused(q)
  <2>1. PICK type \in ChannelTypes :
           q = Press("createChannel", u, u, type, CreateChannelChecks)
    BY DEF NewChannel
  <2>2. q = Button("createChannel", u, u, type, 0,
                   <<"memberOrSystemAdmin", "notArchived">>)
    BY <2>1, Pressed DEF CreateChannelChecks
  <2>3. Accepts(q) <=> MemberOrSystemAdmin(u) /\ ~archived
    BY <2>2, AnswersTwo, OfCaller, OfScope, OfSubject, OfInvitations
    DEF Asks, Knows, Permissions
  <2>4. Refused(q) <=> archived
    BY <2>2 DEF Refused, Button, OfferedThoughArchived
  <2>5. MemberOrSystemAdmin(u)
    BY DEF NewChannel, AllWorkspaces, OwnWorkspaces, MemberOrSystemAdmin
  <2> QED BY <2>3, <2>4, <2>5
<1>2. ASSUME NEW q \in JoinButton(u) PROVE Accepts(q) <=> ~Refused(q)
  <2>1. q = Press("joinChannel", u, u, "none", JoinChannelChecks)
    BY DEF JoinButton
  <2>2. q = Button("joinChannel", u, u, "none", 0,
                   <<"memberOrSystemAdmin", "notArchived", "isPublic", "isNotInChannel">>)
    BY <2>1, Pressed DEF JoinChannelChecks
  <2>3. Accepts(q) <=> MemberOrSystemAdmin(u) /\ ~archived /\ channel = "PUBLIC" /\ u \notin
  inChannel
    BY <2>2, AnswersFour, OfCaller, OfScope, OfSubject, OfInvitations
    DEF Asks, Knows, Permissions
  <2>4. Refused(q) <=> FALSE
    BY <2>2 DEF Refused, Button, OfferedThoughArchived
  <2>5. MemberOrSystemAdmin(u) /\ ~archived /\ channel = "PUBLIC" /\ u \notin inChannel
    BY DEF JoinButton, ListsChannel
  <2> QED BY <2>3, <2>4, <2>5
<1>3. ASSUME NEW q \in AddToChannel(u) PROVE Accepts(q) <=> ~Refused(q)
  <2>1. PICK v \in Eligible(ChannelCandidates(u), "alreadyInChannel") :
           q = Press("addChannelMember", u, v, "none", AddChannelMemberChecks)
    BY DEF AddToChannel
  <2>2. q = Button("addChannelMember", u, v, "none", 0,
                   <<"channelMemberOrSystemAdmin", "notArchived", "isMember", "isNotInChannel">>)
    BY <2>1, Pressed DEF AddChannelMemberChecks
  <2>3. Accepts(q) <=> ChannelMemberOrSystemAdmin(u) /\ ~archived /\ IsMember(v) /\ v \notin
  inChannel
    BY <2>2, AnswersFour, OfCaller, OfScope, OfSubject, OfInvitations
    DEF Asks, Knows, Permissions
  <2>4. Refused(q) <=> archived
    BY <2>2 DEF Refused, Button, OfferedThoughArchived
  <2>5. ChannelMemberOrSystemAdmin(u) /\ IsMember(v) /\ v \notin inChannel
    BY EligibleCandidates
  <2> QED BY <2>3, <2>4, <2>5
<1>4. ASSUME NEW q \in RemoveFromChannel(u) PROVE Accepts(q) <=> ~Refused(q)
  <2>1. PICK v \in ChannelPeople(u) :
           q = Press("removeChannelMember", u, v, "none", RemoveChannelMemberChecks)
    BY DEF RemoveFromChannel
  <2>2. q = Button("removeChannelMember", u, v, "none", 0,
                   <<"channelMemberOrSystemAdmin", "notArchived", "isInChannel">>)
    BY <2>1, Pressed DEF RemoveChannelMemberChecks
  <2>3. Accepts(q) <=> ChannelMemberOrSystemAdmin(u) /\ ~archived /\ v \in inChannel
    BY <2>2, AnswersThree, OfCaller, OfScope, OfSubject, OfInvitations
    DEF Asks, Knows, Permissions
  <2>4. Refused(q) <=> FALSE
    BY <2>2 DEF Refused, Button, OfferedThoughArchived
  <2>5. ChannelMemberOrSystemAdmin(u) /\ ~archived /\ v \in inChannel
    BY <2>1 DEF RemoveFromChannel, AdmitsOthers, ChannelPeople
  <2> QED BY <2>3, <2>4, <2>5
<1>5. ASSUME NEW q \in LeaveChannelButton(u) PROVE Accepts(q) <=> ~Refused(q)
  <2>1. q = Press("leaveChannel", u, u, "none", LeaveChannelChecks)
    BY DEF LeaveChannelButton
  <2>2. q = Button("leaveChannel", u, u, "none", 0,
                   <<"channelMember", "notArchived">>)
    BY <2>1, Pressed DEF LeaveChannelChecks
  <2>3. Accepts(q) <=> ChannelMember(u) /\ ~archived
    BY <2>2, AnswersTwo, OfCaller, OfScope, OfSubject, OfInvitations
    DEF Asks, Knows, Permissions
  <2>4. Refused(q) <=> FALSE
    BY <2>2 DEF Refused, Button, OfferedThoughArchived
  <2>5. ChannelMember(u) /\ ~archived
    BY DEF LeaveChannelButton
  <2> QED BY <2>3, <2>4, <2>5
<1> QED BY <1>1, <1>2, <1>3, <1>4, <1>5 DEF Answered

\* An organization's members and links, and leaving it.
LEMMA OrganizationAnswered ==
    ASSUME NEW u \in accounts
    PROVE  Answered(OrgAdd(u)) /\ Answered(OrgInvite(u)) /\ Answered(OrgLink(u)) /\
           Answered(OrgChooseRole(u)) /\ Answered(OrgRemoveButton(u)) /\ Answered(OrgRevokeButton(u))
           /\ Answered(LeaveOrganization(u))
<1>1. ASSUME NEW q \in OrgAdd(u) PROVE Accepts(q) <=> ~Refused(q)
  <2>1. PICK v \in Eligible(OrgPeopleFor(u), "alreadyMember"), r \in OrgRoles :
           q = Press("orgAddMember", u, v, r, OrgAddMemberChecks)
    BY DEF OrgAdd
  <2>2. q = Button("orgAddMember", u, v, r, 0,
                   <<"ORG_MANAGE_MEMBERS", "notArchived", "isNoMember">>)
    BY <2>1, Pressed DEF OrgAddMemberChecks
  <2>3. Accepts(q) <=> HasPermission(u, "ORG_MANAGE_MEMBERS") /\ ~archived /\ ~IsMember(v)
    BY <2>2, AnswersThree, OfCaller, OfScope, OfSubject, OfInvitations
    DEF Asks, Knows, Permissions
  <2>4. Refused(q) <=> archived
    BY <2>2 DEF Refused, Button, OfferedThoughArchived
  <2>5. HasPermission(u, "ORG_MANAGE_MEMBERS") /\ ~IsMember(v)
    BY EligibleOrgPeople
  <2> QED BY <2>3, <2>4, <2>5
<1>2. ASSUME NEW q \in OrgInvite(u) PROVE Accepts(q) <=> ~Refused(q)
  <2>1. PICK v \in Eligible(OrgPeopleFor(u), "alreadyMember"), r \in OrgRoles :
           q = Press("orgOfferMembership", u, v, r, OrgOfferChecks)
    BY DEF OrgInvite
  <2>2. q = Button("orgOfferMembership", u, v, r, 0,
                   <<"ORG_MANAGE_MEMBERS", "notArchived", "isNoMember", "noOfferPending">>)
    BY <2>1, Pressed DEF OrgOfferChecks
  <2>3. Accepts(q) <=> HasPermission(u, "ORG_MANAGE_MEMBERS") /\ ~archived /\ ~IsMember(v) /\
  ~(\E o \in Offers : offer[o].status = "PENDING" /\ offer[o].to = v)
    BY <2>2, AnswersFour, OfCaller, OfScope, OfSubject, OfInvitations
    DEF Asks, Knows, Permissions
  <2>4. Refused(q) <=> archived \/ (\E o \in Offers : offer[o].status = "PENDING" /\ offer[o].to
  = v)
    BY <2>2 DEF Refused, Button, OfferedThoughArchived
  <2>5. HasPermission(u, "ORG_MANAGE_MEMBERS") /\ ~IsMember(v)
    BY EligibleOrgPeople
  <2> QED BY <2>3, <2>4, <2>5
<1>3. ASSUME NEW q \in OrgLink(u) PROVE Accepts(q) <=> ~Refused(q)
  <2>1. PICK r \in OrgRoles :
           q = Press("orgCreateLink", u, Nobody, r, OrgLinkChecks)
    BY DEF OrgLink
  <2>2. q = Button("orgCreateLink", u, Nobody, r, 0,
                   <<"ORG_INVITE", "notArchived">>)
    BY <2>1, Pressed DEF OrgLinkChecks
  <2>3. Accepts(q) <=> HasPermission(u, "ORG_INVITE") /\ ~archived
    BY <2>2, AnswersTwo, OfCaller, OfScope, OfSubject, OfInvitations
    DEF Asks, Knows, Permissions
  <2>4. Refused(q) <=> archived
    BY <2>2 DEF Refused, Button, OfferedThoughArchived
  <2>5. HasPermission(u, "ORG_INVITE")
    BY DEF OrgLink, Manages, HasPermission, GrantedTo
  <2> QED BY <2>3, <2>4, <2>5
<1>4. ASSUME NEW q \in OrgChooseRole(u) PROVE Accepts(q) <=> ~Refused(q)
  <2>1. PICK v \in OrgMembersOf(u), r \in OrgRoles :
           q = Press("orgChangeRole", u, v, r, OrgMemberChecks)
    BY DEF OrgChooseRole
  <2>2. q = Button("orgChangeRole", u, v, r, 0,
                   <<"ORG_MANAGE_MEMBERS", "notArchived", "isMember">>)
    BY <2>1, Pressed DEF OrgMemberChecks
  <2>3. Accepts(q) <=> HasPermission(u, "ORG_MANAGE_MEMBERS") /\ ~archived /\ IsMember(v)
    BY <2>2, AnswersThree, OfCaller, OfScope, OfSubject, OfInvitations
    DEF Asks, Knows, Permissions
  <2>4. Refused(q) <=> archived
    BY <2>2 DEF Refused, Button, OfferedThoughArchived
  <2>5. HasPermission(u, "ORG_MANAGE_MEMBERS") /\ IsMember(v)
    BY <2>1 DEF OrgMembersOf, Manages
  <2> QED BY <2>3, <2>4, <2>5
<1>5. ASSUME NEW q \in OrgRemoveButton(u) PROVE Accepts(q) <=> ~Refused(q)
  <2>1. PICK v \in OrgMembersOf(u) :
           q = Press("orgRemoveMember", u, v, "none", OrgMemberChecks)
    BY DEF OrgRemoveButton
  <2>2. q = Button("orgRemoveMember", u, v, "none", 0,
                   <<"ORG_MANAGE_MEMBERS", "notArchived", "isMember">>)
    BY <2>1, Pressed DEF OrgMemberChecks
  <2>3. Accepts(q) <=> HasPermission(u, "ORG_MANAGE_MEMBERS") /\ ~archived /\ IsMember(v)
    BY <2>2, AnswersThree, OfCaller, OfScope, OfSubject, OfInvitations
    DEF Asks, Knows, Permissions
  <2>4. Refused(q) <=> archived
    BY <2>2 DEF Refused, Button, OfferedThoughArchived
  <2>5. HasPermission(u, "ORG_MANAGE_MEMBERS") /\ IsMember(v)
    BY <2>1 DEF OrgMembersOf, Manages
  <2> QED BY <2>3, <2>4, <2>5
<1>6. ASSUME NEW q \in OrgRevokeButton(u) PROVE Accepts(q) <=> ~Refused(q)
  <2>1. q = Press("revokeLink", u, Nobody, "ORG_INVITE", RevokeChecks)
    BY DEF OrgRevokeButton
  <2>2. q = Button("revokeLink", u, Nobody, "ORG_INVITE", 0,
                   <<"linkExists", "mayRevoke">>)
    BY <2>1, Pressed DEF RevokeChecks
  <2>3. Accepts(q) <=> link.status \in {"PENDING", "EXPIRED"} /\ (u = link.by \/
  HasPermission(u, "ORG_INVITE"))
    BY <2>2, AnswersTwo, OfCaller, OfScope, OfSubject, OfInvitations
    DEF Asks, Knows, Permissions
  <2>4. Refused(q) <=> FALSE
    BY <2>2 DEF Refused, Button, OfferedThoughArchived
  <2>5. link.status = "PENDING" /\ HasPermission(u, "ORG_INVITE")
    BY DEF OrgRevokeButton, OrgListsLink
  <2> QED BY <2>3, <2>4, <2>5
<1>7. ASSUME NEW q \in LeaveOrganization(u) PROVE Accepts(q) <=> ~Refused(q)
  <2>1. q = Press("orgLeave", u, u, "none", OrgLeaveChecks)
    BY DEF LeaveOrganization
  <2>2. q = Button("orgLeave", u, u, "none", 0,
                   <<"member", "notArchived", "isMember">>)
    BY <2>1, Pressed DEF OrgLeaveChecks
  <2>3. Accepts(q) <=> IsMember(u) /\ ~archived
    BY <2>2, AnswersThree, OfCaller, OfScope, OfSubject, OfInvitations
    DEF Asks, Knows, Permissions
  <2>4. Refused(q) <=> archived \/ ~IsMember(u)
    BY <2>2 DEF Refused, Button, OfferedThoughArchived
  <2> QED BY <2>3, <2>4
<1> QED BY <1>1, <1>2, <1>3, <1>4, <1>5, <1>6, <1>7 DEF Answered

\* The lists of the system administrators.
LEMMA AdministratorsAnswered ==
    ASSUME NEW u \in accounts
    PROVE  Answered(AccountRole(u)) /\ Answered(AccountRemove(u)) /\ Answered(AccountAdd(u)) /\
           Answered(PromoteButton(u)) /\ Answered(DemoteButton(u))
<1>1. ASSUME NEW q \in AccountRole(u) PROVE Accepts(q) <=> ~Refused(q)
  <2>1. PICK v \in {w \in accounts : OrganizationsOf(u, w)}, r \in OrgRoles :
           q = Press("orgChangeRole", u, v, r, OrgMemberChecks)
    BY DEF AccountRole
  <2>2. q = Button("orgChangeRole", u, v, r, 0,
                   <<"ORG_MANAGE_MEMBERS", "notArchived", "isMember">>)
    BY <2>1, Pressed DEF OrgMemberChecks
  <2>3. Accepts(q) <=> HasPermission(u, "ORG_MANAGE_MEMBERS") /\ ~archived /\ IsMember(v)
    BY <2>2, AnswersThree, OfCaller, OfScope, OfSubject, OfInvitations
    DEF Asks, Knows, Permissions
  <2>4. Refused(q) <=> archived
    BY <2>2 DEF Refused, Button, OfferedThoughArchived
  <2>5. HasPermission(u, "ORG_MANAGE_MEMBERS") /\ IsMember(v)
    BY <2>1 DEF OrganizationsOf, HasPermission
  <2> QED BY <2>3, <2>4, <2>5
<1>2. ASSUME NEW q \in AccountRemove(u) PROVE Accepts(q) <=> ~Refused(q)
  <2>1. PICK v \in {w \in accounts : OrganizationsOf(u, w)} :
           q = Press("orgRemoveMember", u, v, "none", OrgMemberChecks)
    BY DEF AccountRemove
  <2>2. q = Button("orgRemoveMember", u, v, "none", 0,
                   <<"ORG_MANAGE_MEMBERS", "notArchived", "isMember">>)
    BY <2>1, Pressed DEF OrgMemberChecks
  <2>3. Accepts(q) <=> HasPermission(u, "ORG_MANAGE_MEMBERS") /\ ~archived /\ IsMember(v)
    BY <2>2, AnswersThree, OfCaller, OfScope, OfSubject, OfInvitations
    DEF Asks, Knows, Permissions
  <2>4. Refused(q) <=> archived
    BY <2>2 DEF Refused, Button, OfferedThoughArchived
  <2>5. HasPermission(u, "ORG_MANAGE_MEMBERS") /\ IsMember(v)
    BY <2>1 DEF OrganizationsOf, HasPermission
  <2> QED BY <2>3, <2>4, <2>5
<1>3. ASSUME NEW q \in AccountAdd(u) PROVE Accepts(q) <=> ~Refused(q)
  <2>1. PICK v \in {w \in accounts : ~IsMember(w)}, r \in OrgRoles :
           q = Press("orgAddMember", u, v, r, OrgAddMemberChecks)
    BY DEF AccountAdd
  <2>2. q = Button("orgAddMember", u, v, r, 0,
                   <<"ORG_MANAGE_MEMBERS", "notArchived", "isNoMember">>)
    BY <2>1, Pressed DEF OrgAddMemberChecks
  <2>3. Accepts(q) <=> HasPermission(u, "ORG_MANAGE_MEMBERS") /\ ~archived /\ ~IsMember(v)
    BY <2>2, AnswersThree, OfCaller, OfScope, OfSubject, OfInvitations
    DEF Asks, Knows, Permissions
  <2>4. Refused(q) <=> archived
    BY <2>2 DEF Refused, Button, OfferedThoughArchived
  <2>5. HasPermission(u, "ORG_MANAGE_MEMBERS") /\ ~archived /\ ~IsMember(v)
    BY <2>1 DEF AccountAdd, HasPermission
  <2> QED BY <2>3, <2>4, <2>5
<1>4. ASSUME NEW q \in PromoteButton(u) PROVE Accepts(q) <=> ~Refused(q)
  <2>1. PICK v \in accounts \ admins :
           q = Press("promote", u, v, "none", PromoteChecks)
    BY DEF PromoteButton
  <2>2. q = Button("promote", u, v, "none", 0,
                   <<"systemAdmin", "isNoAdministrator">>)
    BY <2>1, Pressed DEF PromoteChecks
  <2>3. Accepts(q) <=> u \in admins /\ v \notin admins
    BY <2>2, AnswersTwo, OfCaller, OfScope, OfSubject, OfInvitations
    DEF Asks, Knows, Permissions
  <2>4. Refused(q) <=> FALSE
    BY <2>2 DEF Refused, Button, OfferedThoughArchived
  <2>5. u \in admins /\ v \notin admins
    BY <2>1 DEF PromoteButton
  <2> QED BY <2>3, <2>4, <2>5
<1>5. ASSUME NEW q \in DemoteButton(u) PROVE Accepts(q) <=> ~Refused(q)
  <2>1. PICK v \in admins \ {u} :
           q = Press("demote", u, v, "none", DemoteChecks)
    BY DEF DemoteButton
  <2>2. q = Button("demote", u, v, "none", 0,
                   <<"systemAdmin", "isAdministrator">>)
    BY <2>1, Pressed DEF DemoteChecks
  <2>3. Accepts(q) <=> u \in admins /\ v \in admins
    BY <2>2, AnswersTwo, OfCaller, OfScope, OfSubject, OfInvitations
    DEF Asks, Knows, Permissions
  <2>4. Refused(q) <=> FALSE
    BY <2>2 DEF Refused, Button, OfferedThoughArchived
  <2>5. u \in admins /\ v \in admins
    BY <2>1 DEF DemoteButton
  <2> QED BY <2>3, <2>4, <2>5
<1> QED BY <1>1, <1>2, <1>3, <1>4, <1>5 DEF Answered

\* The switch between an open and an archived organization.
LEMMA ToggleAnswered ==
    ASSUME NEW u \in accounts
    PROVE  Answered(OrganizationToggle(u))
<1> SUFFICES ASSUME NEW q \in OrganizationToggle(u) PROVE Accepts(q) <=> ~Refused(q)
  BY DEF Answered
<1>1. u \in admins
  BY DEF OrganizationToggle
<1>2. CASE archived
  <2>1. q = Press("orgUnarchive", u, Nobody, "none", OrgUnarchiveChecks)
    BY <1>1, <1>2 DEF OrganizationToggle
  <2>2. q = Button("orgUnarchive", u, Nobody, "none", 0, <<"systemAdmin", "isArchived">>)
    BY <2>1, Pressed DEF OrgUnarchiveChecks
  <2>3. Accepts(q) <=> u \in admins /\ archived
    BY <2>2, AnswersTwo, OfCaller, OfScope DEF Asks, Knows
  <2>4. ~Refused(q)
    BY <2>2 DEF Refused, Button, OfferedThoughArchived
  <2> QED BY <1>1, <1>2, <2>3, <2>4
<1>3. CASE ~archived
  <2>1. q = Press("orgArchive", u, Nobody, "none", OrgArchiveChecks)
    BY <1>1, <1>3 DEF OrganizationToggle
  <2>2. q = Button("orgArchive", u, Nobody, "none", 0, <<"systemAdmin", "notArchived">>)
    BY <2>1, Pressed DEF OrgArchiveChecks
  <2>3. Accepts(q) <=> u \in admins /\ ~archived
    BY <2>2, AnswersTwo, OfCaller, OfScope DEF Asks, Knows
  <2>4. ~Refused(q)
    BY <1>3, <2>2 DEF Refused, Button, OfferedThoughArchived
  <2> QED BY <1>1, <1>3, <2>3, <2>4
<1> QED BY <1>2, <1>3

\* One's own invitations.
LEMMA InvitationsAnswered ==
    ASSUME NEW u \in accounts
    PROVE  Answered(Accept(u)) /\ Answered(Decline(u))
<1>1. ASSUME NEW q \in Accept(u) PROVE Accepts(q) <=> ~Refused(q)
  <2>1. PICK o \in OffersTo(u) :
           q = Button("acceptOffer", u, u, "none", o, AcceptOfferChecks)
    BY DEF Accept
  <2>2. q = Button("acceptOffer", u, u, "none", o,
                   <<"ownOfferPending", "notArchived", "membership">>)
    BY <2>1 DEF AcceptOfferChecks
  <2>3. Accepts(q) <=> offer[o].status = "PENDING" /\ offer[o].to = u /\ ~archived
    BY <2>2, AnswersThree, OfCaller, OfScope, OfSubject, OfInvitations
    DEF Asks, Knows, Permissions
  <2>4. Refused(q) <=> archived
    BY <2>2 DEF Refused, Button, OfferedThoughArchived
  <2>5. offer[o].status = "PENDING" /\ offer[o].to = u
    BY <2>1 DEF OffersTo
  <2> QED BY <2>3, <2>4, <2>5
<1>2. ASSUME NEW q \in Decline(u) PROVE Accepts(q) <=> ~Refused(q)
  <2>1. PICK o \in OffersTo(u) :
           q = Button("declineOffer", u, u, "none", o, DeclineOfferChecks)
    BY DEF Decline
  <2>2. q = Button("declineOffer", u, u, "none", o,
                   <<"ownOfferPending">>)
    BY <2>1 DEF DeclineOfferChecks
  <2>3. Accepts(q) <=> offer[o].status = "PENDING" /\ offer[o].to = u
    BY <2>2, AnswersOne, OfCaller, OfScope, OfSubject, OfInvitations
    DEF Asks, Permissions
  <2>4. Refused(q) <=> FALSE
    BY <2>2 DEF Refused, Button, OfferedThoughArchived
  <2>5. offer[o].status = "PENDING" /\ offer[o].to = u
    BY <2>1 DEF OffersTo
  <2> QED BY <2>3, <2>4, <2>5
<1> QED BY <1>1, <1>2 DEF Answered

\* Which of the buttons lead into a refusal (the panels under frontend/src/components, the
\* read routes that fill their lists, the checks of the routes that write): those of Refused
\* and no others, for any users, in every combination of roles, overrides, flags and statuses;
\* between requests, and with any of them under way.
THEOREM ListsAreAccepted == Spec => []OffersAreAccepted /\ []ButtonsAreAnswered
<1>1. MInv => ButtonsAreAnswered
  <2> SUFFICES ASSUME MInv PROVE ButtonsAreAnswered
    OBVIOUS
  <2> QED BY InvitesAnswered, SettingsAnswered, UsersAnswered, ChannelsAnswered,
             OrganizationAnswered, AdministratorsAnswered, ToggleAnswered, InvitationsAnswered
          DEF ButtonsAreAnswered
<1>2. ButtonsAreAnswered => OffersAreAccepted
  BY DEF OffersAreAccepted
<1> QED BY <1>1, <1>2, MembershipsInvariance, PTL

==============================================================================
