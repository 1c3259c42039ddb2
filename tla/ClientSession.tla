----------------------------- MODULE ClientSession -----------------------------
(***************************************************************************)
(* The session as one tab knows it: the access token that api/client.js    *)
(* keeps in memory, the user and the status of context/AuthContext.jsx,    *)
(* and the refresh cookie of the browser.  Any request may find the access *)
(* token expired: it then waits for the one refresh under way and is sent  *)
(* again, while the user signs in, out or changes the password, and the    *)
(* socket's timer refreshes too.                                           *)
(*                                                                         *)
(* A request is served in one step here; how the server's handlers         *)
(* interleave, and several browsers, are the subject of Sessions.          *)
(***************************************************************************)
EXTENDS Integers, Sequences, SequencesExt

CONSTANTS
    People,       \* those the user can sign in to
    Nobody,         \* no account
    Invited,        \* the account an invitation makes
    MaxTokens,      \* bound: refresh tokens issued
    MaxCalls,     \* bound: requests under way or waiting
    MaxEvents,      \* bound: requests begun, access tokens that expire
    MaxTroubles     \* bound: requests lost, handlers failed, sessions revoked from elsewhere

ASSUME ClientSessionAssumption ==
    /\ Nobody \notin People /\ Invited \in People
    /\ MaxTokens \in Nat \ {0} /\ MaxCalls \in Nat
    /\ MaxEvents \in Nat /\ MaxTroubles \in Nat

VARIABLES
    status, user,   \* of AuthContext
    page,           \* "app", or "invite" for InviteRedemptionPage
    bearer,         \* accessToken: whose it is, and whether it has not expired
    jar,            \* the refresh cookie
    calls,          \* requests under way
    waiting,        \* what awaits refreshInFlight
    holder,         \* the account of each refresh token issued
    valid,          \* the refresh tokens not revoked
    events, troubles,   \* so far
    loose,          \* history: why tab, cookie and server may disagree
    ousted          \* history: signed out though nothing of the kind had happened

tab == <<status, user, page, bearer>>
sessionVars == <<tab, jar, calls, waiting, holder, valid, events, troubles, loose, ousted>>

NoCookie == 0
Kept == -1      \* the answer sets no cookie
NoBearer == [of |-> Nobody, fresh |-> FALSE]

\* Requests that change whose session it is, that renew it, and whose answer says whose it is.
Switches == {"login", "redeem", "logout", "change"}
Renews == {"refresh", "restore"}
Tells == {"me", "profile"}

\* One that carries the access token and the cookie of the moment it is sent.
Carrying(op, as, again, token, cookie) ==
    [op |-> op, as |-> as, again |-> again, token |-> token, cookie |-> cookie,
     answer |-> "none", sets |-> Kept]

Carried(op, as) == Carrying(op, as, FALSE, bearer, jar)

\* A page load: the browser has a cookie from before, or none.
SessionInit ==
    /\ status = "loading" /\ user = Nobody /\ page \in {"app", "invite"}
    /\ bearer = NoBearer
    /\ \E a \in People \ {Invited} : holder = <<a>>
    /\ valid = {1} /\ jar \in {NoCookie, 1}
    /\ calls = <<Carrying("restore", Nobody, FALSE, NoBearer, jar)>>
    /\ waiting = <<>> /\ events = 0 /\ troubles = 0 /\ loose = {} /\ ousted = FALSE

------------------------------------------------------------------------------
(* What the user, the components and the socket's timer set off.              *)

Underway(op) == \E k \in DOMAIN calls : calls[k].op = op

Ready == Len(calls) + Len(waiting) < MaxCalls

Event == events < MaxEvents /\ events' = events + 1

Fetch(op, as) ==
    /\ Event /\ Ready /\ ~Underway(op)
    /\ calls' = Append(calls, Carried(op, as))
    /\ UNCHANGED <<tab, jar, waiting, holder, valid, troubles, loose, ousted>>

Login(a) == status = "anonymous" /\ page = "app" /\ a # Invited /\ Fetch("login", a)
Redeem == page = "invite" /\ Invited \notin ToSet(holder) /\ Fetch("redeem", Invited)

InApp == status = "authenticated" /\ page = "app"

Logout == InApp /\ Fetch("logout", user)
ChangePassword == InApp /\ Fetch("change", user)

\* A component's request, one whose answer sets the user, and a streamed one.
AnyCall == InApp /\ Fetch("call", user)
SetProfile == InApp /\ Fetch("profile", user)
Stream == InApp /\ Fetch("stream", user)

\* Mutant: each caller refreshes for itself.
RefreshingAlways(rest) == Append(rest, Carried("refresh", Nobody))

\* refreshAccessToken: the one under way, or a new one.
Refreshing(rest) ==
    IF Underway("refresh") THEN rest ELSE Append(rest, Carried("refresh", Nobody))

\* The socket's timer does nothing to the session with what it waits for.
Renew ==
    /\ Event /\ InApp /\ Ready
    /\ calls' = Refreshing(calls)
    /\ UNCHANGED <<tab, jar, waiting, holder, valid, troubles, loose, ousted>>

Expire ==
    /\ Event /\ bearer.fresh /\ bearer' = [bearer EXCEPT !.fresh = FALSE]
    /\ UNCHANGED <<status, user, page, jar, calls, waiting, holder, valid, troubles, loose, ousted>>

------------------------------------------------------------------------------
(* The server: routes/auth.js and routes/invitations.js.                      *)

Of(a) == {t \in DOMAIN holder : holder[t] = a}

\* answer, and the cookie it sets; cookie, the number of a token that is issued.
Answered(k, answer, cookie) ==
    calls' = [calls EXCEPT ![k].answer = answer, ![k].sets = cookie]

Refused(k) == Answered(k, "unauthorized", Kept) /\ UNCHANGED <<holder, valid>>

Issued(k, a, remaining) ==
    LET t == Len(holder) + 1 IN
    /\ t <= MaxTokens
    /\ holder' = Append(holder, a) /\ valid' = remaining \cup {t}
    /\ calls' = [calls EXCEPT ![k].answer = "ok", ![k].sets = t, ![k].as = a]

\* GET /me, PATCH /me/display-name and /me/dm-settings, and the components' requests:
\* the access token says whose they are.
Served(k, a) ==
    calls' = [calls EXCEPT ![k].answer = "ok", ![k].as = a] /\ UNCHANGED <<holder, valid>>

Handle(k) ==
    LET f == calls[k] IN
    /\ f.answer = "none"
    /\ \/ /\ f.op \in Renews /\ f.cookie \in valid
          /\ Issued(k, holder[f.cookie], valid \ {f.cookie})
       \/ /\ f.op \in Renews /\ f.cookie \notin valid
          /\ Answered(k, "unauthorized", NoCookie) /\ UNCHANGED holder
          /\ valid' = IF f.cookie = NoCookie THEN valid ELSE valid \ Of(holder[f.cookie])
       \/ f.op \in {"login", "redeem"} /\ Issued(k, f.as, valid)
       \/ /\ f.op \notin Renews \cup {"me"}
          /\ Answered(k, "declined", Kept) /\ UNCHANGED <<holder, valid>>
       \/ /\ f.op = "logout"
          /\ Answered(k, "ok", NoCookie) /\ valid' = valid \ {f.cookie} /\ UNCHANGED holder
       \/ /\ f.op = "change" /\ f.token.fresh
          /\ Issued(k, f.token.of, valid \ Of(f.token.of))
       \/ /\ f.op \notin Switches \cup Renews /\ f.token.fresh
          /\ Served(k, f.token.of)
       \/ /\ f.op \in {"login", "change"} \/ (f.op \notin Switches \cup Renews /\ ~f.token.fresh)
          /\ Refused(k)
    /\ UNCHANGED <<tab, jar, waiting, events, troubles, loose, ousted>>

\* A token is issued, and then the handler fails.
IssuedInVain(k, a, remaining, cookie) ==
    LET t == Len(holder) + 1 IN
    /\ t <= MaxTokens
    /\ holder' = Append(holder, a) /\ valid' = remaining \cup {t}
    /\ Answered(k, "failed", cookie)

\* A statement or the audit record fails: an answer of 500, after what was done by then.
\* A refresh that fails clears the cookie, before the rotation or after it.
HandlerFails(k) ==
    LET f == calls[k]
        t == Len(holder) + 1
    IN
    /\ f.answer = "none" /\ troubles < MaxTroubles /\ troubles' = troubles + 1
    /\ \/ /\ f.op \in Renews /\ f.cookie \in valid
          /\ IssuedInVain(k, holder[f.cookie], valid \ {f.cookie}, NoCookie)
       \/ f.op \in Renews /\ Answered(k, "failed", NoCookie) /\ UNCHANGED <<holder, valid>>
       \/ f.op \in {"login", "redeem"} /\ IssuedInVain(k, f.as, valid, t)
       \/ /\ f.op = "logout" /\ Answered(k, "failed", Kept)
          /\ valid' = valid \ {f.cookie} /\ UNCHANGED holder
       \/ /\ f.op = "change" /\ f.token.fresh
          /\ \/ IssuedInVain(k, f.token.of, valid \ Of(f.token.of), t)
             \/ /\ Answered(k, "failed", Kept)
                /\ valid' = valid \ Of(f.token.of) /\ UNCHANGED holder
       \/ f.op = "me" /\ Answered(k, "failed", Kept) /\ UNCHANGED <<holder, valid>>
    /\ loose' = loose \cup {"failed"}
    /\ UNCHANGED <<tab, jar, waiting, events, ousted>>

\* The account's sessions are ended by another browser, or an administrator.
Revoke(a) ==
    /\ troubles < MaxTroubles /\ troubles' = troubles + 1
    /\ valid' = valid \ Of(a) /\ loose' = loose \cup {"revoked"}
    /\ UNCHANGED <<tab, jar, calls, waiting, holder, events, ousted>>

------------------------------------------------------------------------------
(* The answers.                                                               *)

\* Answers of two of them that are under way together may come in either order.
Crossing(f, rest) ==
    \E g \in ToSet(rest) :
        \/ f.op \in Switches /\ g.op \in Switches \cup Renews \cup Tells
        \/ f.op \in Renews \cup Tells /\ g.op \in Switches

SetCookie(f) == jar' = IF f.sets = Kept THEN jar ELSE f.sets

Becomes(s, a) == status' = s /\ user' = a

\* login, acceptInvitation, changePassword, logout: the user is set with the token.
SwitchAnswered(k) ==
    LET f == calls[k]
        rest == RemoveAt(calls, k)
    IN
    /\ f.op \in Switches /\ f.answer = "ok"
    /\ SetCookie(f) /\ calls' = rest
    /\ bearer' = IF f.op = "logout" THEN NoBearer ELSE [of |-> f.as, fresh |-> TRUE]
    /\ \/ f.op = "logout" /\ Becomes("anonymous", Nobody)
       \/ f.op = "change" /\ UNCHANGED <<status, user>>
       \/ f.op \in {"login", "redeem"} /\ Becomes("authenticated", f.as)
    /\ page' = "app"
    /\ loose' = IF Crossing(f, rest) THEN loose \cup {"crossed"}
                ELSE IF f.op = "logout" \/ (f.op # "change" /\ f.sets \in valid) THEN {}
                ELSE loose
    /\ UNCHANGED <<waiting, holder, valid, events, troubles, ousted>>

\* Another's answer: it says who the user is, or is for its component, as is any that
\* declines (400, 403, 404, 409, 429, or 500 before anything was done).
CallAnswered(k) ==
    LET f == calls[k]
        rest == RemoveAt(calls, k)
    IN
    /\ \/ f.op \notin Switches \cup Renews /\ f.answer = "ok"
       \/ f.answer = "declined"
    /\ calls' = rest
    /\ \/ f.op = "me" /\ Becomes("authenticated", f.as)
       \/ f.op = "profile" /\ f.answer = "ok" /\ user' = f.as /\ UNCHANGED status
       \/ (f.op \notin Tells \/ f.answer = "declined") /\ UNCHANGED <<status, user>>
    /\ loose' = IF Crossing(f, rest) THEN loose \cup {"crossed"} ELSE loose
    /\ UNCHANGED <<page, bearer, jar, waiting, holder, valid, events, troubles, ousted>>

\* 500 once something was done: for the component, or no user after a page load; the
\* cookie is what the handler had set by then.
Failed(k) ==
    LET f == calls[k] IN
    /\ f.op \notin Renews /\ f.answer = "failed"
    /\ SetCookie(f) /\ calls' = RemoveAt(calls, k)
    /\ status' = IF f.op = "me" THEN "anonymous" ELSE status
    /\ loose' = loose \cup {"failed"}
    /\ UNCHANGED <<user, page, bearer, waiting, holder, valid, events, troubles, ousted>>

\* apiFetch and streamPost: 401 the first time waits for a refresh, the second is final.
Unauthorized(k) ==
    LET f == calls[k]
        rest == RemoveAt(calls, k)
    IN
    /\ f.op \notin Renews /\ f.answer = "unauthorized"
    /\ IF f.again
       THEN /\ calls' = rest /\ UNCHANGED waiting
            /\ status' = IF f.op = "me" THEN "anonymous" ELSE status
       ELSE /\ calls' = Refreshing(rest) /\ waiting' = Append(waiting, f)
            /\ UNCHANGED status
    /\ UNCHANGED <<user, page, bearer, jar, holder, valid, events, troubles, loose, ousted>>

\* refreshInFlight is kept: whatever awaited it is sent again with the new token.
Refreshed(k) ==
    LET f == calls[k]
        rest == RemoveAt(calls, k)
        new == [of |-> f.as, fresh |-> TRUE]
        Again(w) == Carrying(w.op, w.as, TRUE, new, f.sets)
    IN
    /\ f.op \in Renews /\ f.answer = "ok"
    /\ SetCookie(f) /\ bearer' = new
    /\ IF f.op = "restore"
       THEN calls' = Append(rest, Carrying("me", f.as, FALSE, new, f.sets)) /\ UNCHANGED waiting
       ELSE calls' = rest \o [i \in DOMAIN waiting |-> Again(waiting[i])] /\ waiting' = <<>>
    /\ loose' = IF Crossing(f, rest) THEN loose \cup {"crossed"} ELSE loose
    /\ UNCHANGED <<status, user, page, holder, valid, events, troubles, ousted>>

\* No new token: onAuthLost, unless only streams (or the timer) awaited it.
GiveUp(f) ==
    LET lost == \E w \in ToSet(waiting) : w.op # "stream" IN
    IF f.op = "restore"
    THEN status' = "anonymous" /\ UNCHANGED <<user, bearer, waiting>>
    ELSE /\ waiting' = <<>>
         /\ IF lost THEN Becomes("anonymous", Nobody) /\ bearer' = NoBearer
                    ELSE UNCHANGED <<status, user, bearer>>

NotRefreshed(k) ==
    LET f == calls[k]
        rest == RemoveAt(calls, k)
    IN
    /\ f.op \in Renews /\ f.answer \in {"unauthorized", "failed"}
    /\ SetCookie(f) /\ calls' = rest
    /\ GiveUp(f)
    /\ loose' = loose \cup (IF f.answer = "failed" THEN {"failed"} ELSE {})
                      \cup (IF Crossing(f, rest) THEN {"crossed"} ELSE {})
    /\ ousted' = (ousted \/ (status = "authenticated" /\ status' = "anonymous" /\ loose' = {}))
    /\ UNCHANGED <<page, holder, valid, events, troubles>>

\* fetch() rejects, before the request is served or after.
Rejects(k) ==
    LET f == calls[k]
        rest == RemoveAt(calls, k)
    IN
    /\ troubles < MaxTroubles /\ troubles' = troubles + 1
    /\ calls' = rest
    /\ \/ f.op \in Renews /\ GiveUp(f)
       \/ f.op = "me" /\ status' = "anonymous" /\ UNCHANGED <<user, bearer, waiting>>
       \/ f.op \notin Renews \cup {"me"} /\ UNCHANGED <<status, user, bearer, waiting>>
    /\ loose' = IF f.op \in Switches \cup Renews \cup {"me"} THEN loose \cup {"lost"} ELSE loose
    /\ UNCHANGED <<page, jar, holder, valid, events, ousted>>

SessionNext ==
    \/ Redeem \/ Logout \/ ChangePassword \/ AnyCall \/ SetProfile \/ Stream \/ Renew \/ Expire
    \/ \E a \in People : Login(a) \/ Revoke(a)
    \/ \E k \in DOMAIN calls :
           \/ Handle(k) \/ HandlerFails(k)
           \/ SwitchAnswered(k) \/ CallAnswered(k) \/ Failed(k) \/ Unauthorized(k)
           \/ Refreshed(k) \/ NotRefreshed(k) \/ Rejects(k)

SessionSpec == SessionInit /\ [][SessionNext]_sessionVars

------------------------------------------------------------------------------
Quiet == calls = <<>> /\ waiting = <<>>

\* However many requests find their access token expired together, and whatever is sent
\* again for them, the tab shows the user whose tokens it holds and the server accepts,
\* and holds none when it shows nobody; it is never signed out by requests of its own:
\* unless signing in, out or a password change overlapped another request for tokens, an
\* answer was lost, the sessions were revoked from elsewhere, or the server failed half-way
\* through signing in or out, changing the password, refreshing or saying who the user is
\* (routes/auth.js:266-277 clears the cookie at whatever error).  The user's next signing
\* in or out ends each of these.
SessionIsTrue ==
    /\ Quiet /\ loose = {} =>
           /\ status # "loading"
           /\ status = "authenticated" =>
                  bearer.of = user /\ jar \in valid /\ holder[jar] = user
           /\ status = "anonymous" => bearer = NoBearer /\ jar = NoCookie
    /\ ~ousted

==============================================================================
