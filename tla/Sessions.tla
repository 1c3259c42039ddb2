------------------------------- MODULE Sessions -------------------------------
(***************************************************************************)
(* The sessions of one account: the refresh tokens of                      *)
(* auth/refreshTokens.js, the handlers of routes/auth.js that issue,       *)
(* rotate and revoke them, and the administrative actions on the account   *)
(* (routes/admin.js, and the reset in routes/workspaces.js).  A browser    *)
(* holds one refresh cookie for all its tabs; requests interleave at every *)
(* statement they await.                                                   *)
(***************************************************************************)
EXTENDS Integers, FiniteSets

CONSTANTS
    Browsers,       \* cookie jars
    Handlers,       \* requests in flight
    MaxRequests,    \* bound: requests in a behaviour, and so tokens
    MaxFaults       \* bound: statements that fail, responses that are lost

ASSUME SessionsAssumption == MaxRequests \in Nat /\ MaxFaults \in Nat

Tokens == 1 .. MaxRequests
None == 0

Kinds == {"login", "refresh", "logout", "change", "reset", "disable", "enable"}
Places == {"idle", "issue", "lock", "rotate", "check", "logout", "password",
           "disable", "enable", "snapshot", "sweep", "answer", "refuse"}
\* A row with revoked_at is "rotated", "loggedOut" or "swept": the code keeps the
\* time only, the reason is history.
RowStates == {"none", "valid", "expired", "rotated", "loggedOut", "swept"}
Excuses == {"none", "lateIssue", "lateRotation", "spared"}

VARIABLES
    row,        \* refresh_tokens, by order of insertion
    active,     \* users.status = 'ACTIVE'
    cookie,     \* each browser's refresh cookie
    access,     \* the browsers that hold an unexpired access token
    pc, kind,   \* where each handler stands, and the request it serves
    client,     \* the browser the request came from
    presented,  \* the token its cookie held
    view,       \* the rows its account-wide UPDATE found unrevoked
    fresh,      \* the token it has inserted, the answer's cookie
    basis,      \* history: the era of the credentials it checked
    era,        \* history: forced sign-outs ordered (password, status, reuse)
    chain,      \* history: the token a token descends from by rotations
    grade,      \* history: the era of the credentials a token rests on
    renewed,    \* history: tokens that change-password issued
    excuse,     \* history: why a token may outlive a forced sign-out
    started, faults   \* history: requests and faults so far

rows == <<row, chain, grade, renewed, excuse>>
account == <<active, era>>
browsers == <<cookie, access>>
request == <<kind, client, presented>>
vars == <<row, active, cookie, access, pc, kind, client, presented, view, fresh, basis,
          era, chain, grade, renewed, excuse, started, faults>>

Init ==
    /\ row = [t \in Tokens |-> "none"]
    /\ active = TRUE
    /\ cookie = [b \in Browsers |-> None]
    /\ access = {}
    /\ pc = [h \in Handlers |-> "idle"]
    /\ kind = [h \in Handlers |-> "login"]
    /\ client = [h \in Handlers |-> None]
    /\ presented = [h \in Handlers |-> None]
    /\ view = [h \in Handlers |-> {}]
    /\ fresh = [h \in Handlers |-> None]
    /\ basis = [h \in Handlers |-> 0]
    /\ era = 0
    /\ chain = [t \in Tokens |-> t]
    /\ grade = [t \in Tokens |-> 0]
    /\ renewed = {}
    /\ excuse = [t \in Tokens |-> "none"]
    /\ started = 0 /\ faults = 0

\* revoked_at IS NULL
Unrevoked == {t \in Tokens : row[t] \in {"valid", "expired"}}
Live == {t \in Tokens : row[t] = "valid"}

Goto(h, where) == pc' = [pc EXCEPT ![h] = where]

\* Mutant: the row is selected without FOR UPDATE.
HoldsNothing(h, t) == FALSE

\* rotateRefreshToken's transaction holds the row it selected FOR UPDATE until it
\* commits; the sweep of a refused refresh (CheckStatus) comes after the commit.
Holds(h, t) ==
    /\ presented[h] = t
    /\ \/ pc[h] = "rotate"
       \/ kind[h] = "refresh" /\ pc[h] \in {"snapshot", "sweep"} /\ fresh[h] = None

RowFree(h, t) == \A g \in Handlers \ {h} : ~Holds(g, t)

\* The requests that have still to end sessions.
Sweeping(h) == pc[h] \in {"snapshot", "sweep"}
Owed(t) == \E h \in Handlers : Sweeping(h) /\ (pc[h] = "sweep" => t \in view[h])

\* A handler may start while the bound lasts.
Start(h, what, where) ==
    /\ pc[h] = "idle"
    /\ started < MaxRequests /\ started' = started + 1
    /\ kind' = [kind EXCEPT ![h] = what]
    /\ Goto(h, where)
    /\ UNCHANGED <<rows, account, browsers, view, fresh, faults>>

From(h, b, token) ==
    /\ client' = [client EXCEPT ![h] = b]
    /\ presented' = [presented EXCEPT ![h] = token]
    /\ basis' = [basis EXCEPT ![h] = era]

------------------------------------------------------------------------------
(* routes/auth.js                                                            *)

\* POST /login: the row is read, password and status agree.
Login(h) ==
    /\ active
    /\ Start(h, "login", "issue")
    /\ \E b \in Browsers : From(h, b, None)

\* POST /refresh and POST /logout with a cookie.
Refresh(h) ==
    /\ Start(h, "refresh", "lock")
    /\ \E b \in Browsers : cookie[b] # None /\ From(h, b, cookie[b])

Logout(h) ==
    /\ Start(h, "logout", "logout")
    /\ \E b \in Browsers : cookie[b] # None /\ From(h, b, cookie[b])

\* POST /change-password: requireAuth, and the current password matches.
ChangePassword(h) ==
    /\ active
    /\ Start(h, "change", "password")
    /\ \E b \in access : From(h, b, None)

\* INSERT of a token that rests on credentials of era g; afterwards it is late.
Insert(h, t, g, from, late) ==
    /\ grade' = [grade EXCEPT ![t] = g]
    /\ chain' = [chain EXCEPT ![t] = from]
    /\ excuse' = [excuse EXCEPT ![t] = late]
    /\ fresh' = [fresh EXCEPT ![h] = t]
    /\ renewed' = IF kind[h] = "change" THEN renewed \cup {t} ELSE renewed

IsNext(t) == row[t] = "none" /\ \A u \in Tokens : row[u] = "none" => t <= u

\* issueRefreshToken, of login and change-password.
IssueRefreshToken(h) ==
    /\ pc[h] = "issue"
    /\ \E t \in Tokens :
          /\ IsNext(t)
          /\ row' = [row EXCEPT ![t] = "valid"]
          /\ Insert(h, t, basis[h], t,
                    IF basis[h] < era \/ ~active THEN "lateIssue" ELSE "none")
    /\ Goto(h, "answer")
    /\ UNCHANGED <<account, browsers, request, view, basis, started, faults>>

\* SELECT ... FOR UPDATE, and what the row says.
LockRow(h) ==
    /\ pc[h] = "lock" /\ RowFree(h, presented[h])
    /\ CASE row[presented[h]] = "valid" -> Goto(h, "rotate") /\ UNCHANGED era
         [] row[presented[h]] = "expired" -> Goto(h, "refuse") /\ UNCHANGED era
         [] OTHER -> Goto(h, "snapshot") /\ era' = era + 1
    /\ UNCHANGED <<rows, active, browsers, request, view, fresh, basis, started, faults>>

\* The row is revoked, its successor inserted, and both are committed.
Rotate(h) ==
    /\ pc[h] = "rotate"
    /\ \E t \in Tokens :
          LET old == presented[h] IN
          /\ IsNext(t)
          /\ row' = [row EXCEPT ![old] = "rotated", ![t] = "valid"]
          /\ Insert(h, t, grade[old], chain[old],
                    IF grade[old] < era \/ excuse[old] # "none" THEN "lateRotation"
                    ELSE "none")
    /\ Goto(h, "check")
    /\ UNCHANGED <<account, browsers, request, view, basis, started, faults>>

\* The account is looked up again after the rotation; when it is disabled, every
\* token is revoked, the new one included.
CheckStatus(h) ==
    /\ pc[h] = "check"
    /\ Goto(h, IF active THEN "answer" ELSE "snapshot")
    /\ UNCHANGED <<rows, account, browsers, request, view, fresh, basis, started, faults>>

\* revokeRefreshToken: one row, unless it is revoked already.
RevokeRefreshToken(h) ==
    /\ pc[h] = "logout" /\ RowFree(h, presented[h])
    /\ row' = IF presented[h] \in Unrevoked
              THEN [row EXCEPT ![presented[h]] = "loggedOut"] ELSE row
    /\ Goto(h, "answer")
    /\ UNCHANGED <<chain, grade, renewed, excuse, account, browsers, request, view, fresh,
                   basis, started, faults>>

\* The new password hash is written (change, reset).
SetPassword(h) ==
    /\ pc[h] = "password"
    /\ era' = era + 1
    /\ basis' = [basis EXCEPT ![h] = era + 1]
    /\ Goto(h, "snapshot")
    /\ UNCHANGED <<rows, active, browsers, request, view, fresh, started, faults>>

------------------------------------------------------------------------------
(* revokeAllRefreshTokensForUser, and the same UPDATE of the reuse branch.  It *)
(* works on the rows committed when it began, and waits for those that are     *)
(* locked; rows inserted meanwhile escape it (READ COMMITTED).                 *)

Snapshot(h) ==
    /\ pc[h] = "snapshot"
    /\ view' = [view EXCEPT ![h] = Unrevoked]
    /\ Goto(h, "sweep")
    /\ UNCHANGED <<rows, account, browsers, request, fresh, basis, started, faults>>

\* Mutant: the reuse error is thrown inside the transaction, which rolls back.
SweptUnlessThrown(h) ==
    IF kind[h] = "refresh" /\ fresh[h] = None THEN {} ELSE view[h] \cap Unrevoked

Swept(h) == view[h] \cap Unrevoked

AfterSweep(h) ==
    CASE kind[h] = "refresh" -> "refuse"
      [] kind[h] = "change" -> "issue"
      [] OTHER -> "answer"

Sweep(h) ==
    /\ pc[h] = "sweep" /\ \A t \in view[h] : RowFree(h, t)
    /\ row' = [t \in Tokens |-> IF t \in Swept(h) THEN "swept" ELSE row[t]]
    /\ view' = [view EXCEPT ![h] = {}]
    /\ Goto(h, AfterSweep(h))
    /\ UNCHANGED <<chain, grade, renewed, excuse, account, browsers, request, fresh, basis,
                   started, faults>>

------------------------------------------------------------------------------
(* An administrator: reset the password, disable, enable.                     *)

Admin(h, what, where) ==
    /\ Start(h, what, where)
    /\ UNCHANGED <<client, presented, basis>>

ResetPassword(h) == Admin(h, "reset", "password")
Disable(h) == active /\ Admin(h, "disable", "disable")
Enable(h) == ~active /\ Admin(h, "enable", "enable")

SetDisabled(h) ==
    /\ pc[h] = "disable"
    /\ active' = FALSE
    /\ era' = era + 1
    /\ Goto(h, "snapshot")
    /\ UNCHANGED <<rows, browsers, request, view, fresh, basis, started, faults>>

SetActive(h) ==
    /\ pc[h] = "enable"
    /\ active' = TRUE
    /\ Goto(h, "answer")
    /\ UNCHANGED <<rows, era, browsers, request, view, fresh, basis, started, faults>>

------------------------------------------------------------------------------
(* How requests end.                                                          *)

Finish(h) ==
    /\ Goto(h, "idle")
    /\ kind' = [kind EXCEPT ![h] = "login"]
    /\ client' = [client EXCEPT ![h] = None]
    /\ presented' = [presented EXCEPT ![h] = None]
    /\ fresh' = [fresh EXCEPT ![h] = None]
    /\ basis' = [basis EXCEPT ![h] = 0]

SetCookie(h, token) == cookie' = [cookie EXCEPT ![client[h]] = token]

\* The audit event is written, and the answer reaches the browser.
Answer(h) ==
    /\ pc[h] = "answer"
    /\ CASE kind[h] \in {"login", "refresh", "change"} ->
              SetCookie(h, fresh[h]) /\ access' = access \cup {client[h]}
         [] kind[h] = "logout" -> SetCookie(h, None) /\ UNCHANGED access
         [] OTHER -> UNCHANGED browsers
    /\ Finish(h)
    /\ UNCHANGED <<rows, account, view, started, faults>>

\* The audit event fails: login and change-password had set the cookie already,
\* refresh clears it, logout had not cleared it yet.
AuditFails(h) ==
    /\ pc[h] = "answer" /\ faults < MaxFaults /\ faults' = faults + 1
    /\ CASE kind[h] \in {"login", "change"} -> SetCookie(h, fresh[h])
         [] kind[h] = "refresh" -> SetCookie(h, None)
         [] OTHER -> UNCHANGED cookie
    /\ Finish(h)
    /\ UNCHANGED <<rows, account, access, view, started>>

\* The catch of POST /refresh.
Refuse(h) ==
    /\ pc[h] = "refuse"
    /\ IF kind[h] = "refresh" THEN SetCookie(h, None) ELSE UNCHANGED cookie
    /\ Finish(h)
    /\ UNCHANGED <<rows, account, access, view, started, faults>>

\* The statement at hand fails, or committed without its answer having come back
\* (the step itself, then this one).  What it was to end is spared.
StatementFails(h) ==
    /\ pc[h] \notin {"idle", "answer", "refuse"}
    /\ faults < MaxFaults /\ faults' = faults + 1
    /\ excuse' = IF Sweeping(h) \/ (pc[h] = "check" /\ ~active)
                 THEN [t \in Tokens |-> IF t \in Unrevoked THEN "spared" ELSE excuse[t]]
                 ELSE excuse
    /\ view' = [view EXCEPT ![h] = {}]
    /\ Goto(h, "refuse")
    /\ UNCHANGED <<row, chain, grade, renewed, account, browsers, request, fresh, basis, started>>

\* The connection is gone before the answer.
ResponseLost(h) ==
    /\ pc[h] \in {"answer", "refuse"} /\ faults < MaxFaults /\ faults' = faults + 1
    /\ Finish(h)
    /\ UNCHANGED <<rows, account, browsers, view, started>>

ExpireToken ==
    /\ \E t \in Live : row' = [row EXCEPT ![t] = "expired"]
    /\ UNCHANGED <<chain, grade, renewed, excuse, account, browsers, request, pc, view, fresh,
                   basis, started, faults>>

Begin(h) ==
    \/ Login(h) \/ Refresh(h) \/ Logout(h) \/ ChangePassword(h)
    \/ ResetPassword(h) \/ Disable(h) \/ Enable(h)

Proceed(h) ==
    \/ IssueRefreshToken(h) \/ LockRow(h) \/ Rotate(h) \/ CheckStatus(h)
    \/ RevokeRefreshToken(h) \/ SetPassword(h) \/ Snapshot(h) \/ Sweep(h)
    \/ SetDisabled(h) \/ SetActive(h) \/ Answer(h) \/ Refuse(h)

Next ==
    \/ \E h \in Handlers : Begin(h) \/ Proceed(h) \/ AuditFails(h) \/ StatementFails(h)
                           \/ ResponseLost(h)
    \/ ExpireToken

Spec == Init /\ [][Next]_vars

------------------------------------------------------------------------------
\* The variables keep their types.
TypeOK ==
    /\ row \in [Tokens -> RowStates]
    /\ active \in BOOLEAN
    /\ cookie \in [Browsers -> Tokens \cup {None}]
    /\ access \subseteq Browsers
    /\ pc \in [Handlers -> Places]
    /\ kind \in [Handlers -> Kinds]
    /\ client \in [Handlers -> Browsers \cup {None}]
    /\ presented \in [Handlers -> Tokens \cup {None}]
    /\ view \in [Handlers -> SUBSET Tokens]
    /\ fresh \in [Handlers -> Tokens \cup {None}]
    /\ basis \in [Handlers -> Nat]
    /\ era \in Nat
    /\ chain \in [Tokens -> Tokens]
    /\ grade \in [Tokens -> Nat]
    /\ renewed \subseteq Tokens
    /\ excuse \in [Tokens -> Excuses]
    /\ started \in 0 .. MaxRequests /\ faults \in 0 .. MaxFaults

\* However refreshes, logouts and sign-outs interleave, one login leads to at most
\* one usable token, and to none once the last one of its chain was revoked by a
\* logout or a sign-out: rotateRefreshToken locks the row so that two refreshes
\* "can't both succeed and silently double-issue".
OneTokenPerLogin ==
    \A t \in Live : \A u \in Tokens \ {t} : chain[u] = chain[t] => row[u] = "rotated"

\* A token that rests on a password, status or chain that has been revoked since is
\* usable only while the sign-out that is to end it is under way, or if that
\* sign-out failed, or if the token was inserted after the change by a request
\* already in flight.
ForcedSignOutIsComplete ==
    \A t \in Live : grade[t] < era => Owed(t) \/ excuse[t] # "none"

\* A disabled account has no usable token but those whose revocation is under way
\* or failed, and those a login or password change in flight inserted: a refresh in
\* flight leaves none behind, since it looks at the status after it has rotated
\* ("check") and then ends them all.
DisabledHoldsNoSession ==
    ~active => \A t \in Live : \/ Owed(t)
                              \/ \E h \in Handlers : pc[h] = "check"
                              \/ excuse[t] \in {"lateIssue", "spared"}

\* A session that change-password opened does not end because another browser
\* presents a token that an account-wide revocation, not a rotation, had ended: "so
\* this tab keeps working without interruption while every other session is forced
\* to sign back in".
ThisTabKeepsWorking ==
    \A h \in Handlers : kind[h] = "refresh" /\ pc[h] = "sweep" /\ fresh[h] = None
        /\ row[presented[h]] = "swept" => view[h] \cap renewed = {}

==============================================================================
