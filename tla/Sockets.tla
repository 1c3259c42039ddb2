------------------------------- MODULE Sockets -------------------------------
(***************************************************************************)
(* The WebSocket side of the backend: ws/server.js's frame handlers, the   *)
(* in-memory registries of ws/connectionRegistry.js and ws/presence.js,    *)
(* and the account disabling of routes/admin.js that closes sockets.       *)
(*                                                                         *)
(* Node runs one continuation at a time.  A frame that needs the database  *)
(* is in two parts: its arrival with its query, and its continuation after *)
(* a positive answer; other frames, close events, timers and requests run  *)
(* in between.  One member of Sockets is one connection; a client that comes  *)
(* back uses another one.                                                  *)
(***************************************************************************)
EXTENDS Naturals, FiniteSets

CONSTANTS
    Sockets,                \* connections
    Users,
    Channels,
    Frames,                 \* bound: frames that wait for their query at one time
    NoUser,                 \* ws.userId = null
    MaxConnectionsPerUser,  \* config.ws.maxConnectionsPerUser
    MaxDisables             \* bound: accounts disabled

ASSUME SocketsAssumption == NoUser \notin Users /\ IsFiniteSet(Sockets)
ASSUME LimitAssumption == MaxConnectionsPerUser \in Nat /\ MaxDisables \in Nat

VARIABLES
    ready,      \* ws.readyState; the behaviours begin after the connection events
    userId,     \* ws.userId; ws.authenticated is userId # NoUser
    frames,     \* the frames in flight: their queries have been answered, the handlers not resumed
    conns,      \* connectionRegistry.userConnections
    rooms,      \* connectionRegistry.channelRooms, and ws.joinedChannels with it
    presence,   \* presence.presenceByUser; "offline" without an entry
    active,     \* the users whose users.status is ACTIVE
    disabling,  \* the users some disable handler has updated but not disconnected yet
    missed,     \* history: sockets that a late continuation or a failed disable left behind
    phantom,    \* history: users shown online by a frame of a closed socket
    disables    \* history: how many times an account was disabled

socketVars == <<ready, userId>>
registries == <<conns, rooms, presence>>
database == <<active, disabling, disables>>
leaks == <<missed, phantom>>
vars == <<ready, userId, frames, conns, rooms, presence,
          active, disabling, missed, phantom, disables>>

NoFrame == [type |-> "none"]
Authenticates == [type : {"authenticate"}, ws : Sockets, user : Users]
Joins == [type : {"join"}, ws : Sockets, channel : Channels]

Init ==
    /\ ready = [ws \in Sockets |-> "open"]
    /\ userId = [ws \in Sockets |-> NoUser]
    /\ frames = [f \in Frames |-> NoFrame]
    /\ conns = [u \in Users |-> {}]
    /\ rooms = [c \in Channels |-> {}]
    /\ presence = [u \in Users |-> "offline"]
    /\ active = Users
    /\ disabling = {}
    /\ missed = {} /\ phantom = {}
    /\ disables = 0

\* ws keeps delivering the frames that arrive while a close handshake is going on.
Live(ws) == ready[ws] \in {"open", "closing"}
Closed(ws) == ready[ws] = "closed"
getConnectionCount(u) == Cardinality(conns[u])

\* ws.close(): a handshake begins; on a socket past OPEN it does nothing.
Close(S) == ready' = [ws \in Sockets |-> IF ws \in S /\ ready[ws] = "open" THEN "closing" ELSE ready[ws]]

------------------------------------------------------------------------------
(* Connections come and go.                                                   *)

\* Mutant: presence goes although the user has other connections.
PresenceAlwaysDeleted(u) == "offline"

\* handleDisconnect, for a user one of whose sockets is just unregistered.
PresenceAfterDisconnect(u) == IF conns'[u] = {} THEN "offline" ELSE presence[u]

\* The close event: of the peer, or at the end of a handshake.
OnClose(ws) ==
    /\ Live(ws)
    /\ ready' = [ready EXCEPT ![ws] = "closed"]
    /\ IF userId[ws] = NoUser
       THEN UNCHANGED registries
       ELSE /\ rooms' = [c \in Channels |-> rooms[c] \ {ws}]
            /\ conns' = [conns EXCEPT ![userId[ws]] = @ \ {ws}]
            /\ presence' = [presence EXCEPT ![userId[ws]] = PresenceAfterDisconnect(userId[ws])]
    /\ phantom' = {u \in phantom : presence'[u] # "offline"}
    /\ missed' = missed \ {ws}
    /\ UNCHANGED <<userId, frames, database>>

\* An invalid token, a token of an account that is not ACTIVE, or any other frame
\* before authentication.
RejectFrame(ws) ==
    /\ Live(ws)
    /\ Close({ws})
    /\ UNCHANGED <<userId, frames, registries, database, leaks>>

------------------------------------------------------------------------------
(* handleAuthenticate                                                         *)

\* A frame with a valid token of u, whose status query says ACTIVE.
Authenticate(f, ws, u) ==
    /\ Live(ws)
    /\ u \in active
    /\ frames[f] = NoFrame
    /\ frames' = [frames EXCEPT ![f] = [type |-> "authenticate", ws |-> ws, user |-> u]]
    /\ UNCHANGED <<socketVars, registries, database, leaks>>

\* The query fails: nothing catches the rejection of the message listener, and
\* the process dies with all it had in memory.
StatusQueryFails ==
    /\ \E ws \in Sockets : Live(ws)
    /\ ready' = [ws \in Sockets |-> "closed"]
    /\ frames' = [f \in Frames |-> NoFrame]
    /\ conns' = [u \in Users |-> {}]
    /\ rooms' = [c \in Channels |-> {}]
    /\ presence' = [u \in Users |-> "offline"]
    /\ disabling' = {} /\ missed' = {} /\ phantom' = {}
    /\ UNCHANGED <<userId, active, disables>>

Finish(f) == frames' = [frames EXCEPT ![f] = NoFrame]

\* Mutant: the identity is compared with nothing.
IdentityUnchecked(f) == FALSE

IdentityMismatch(f) == userId[frames[f].ws] \notin {NoUser, frames[f].user}

TooMany(f) ==
    userId[frames[f].ws] = NoUser /\ getConnectionCount(frames[f].user) >= MaxConnectionsPerUser

Unwelcome(f) == IdentityMismatch(f) \/ TooMany(f)

AuthenticateRefused(f) ==
    /\ frames[f].type = "authenticate"
    /\ Unwelcome(f)
    /\ Close({frames[f].ws})
    /\ Finish(f)
    /\ UNCHANGED <<userId, registries, database, leaks>>

\* The first frame registers the socket, a later one only renews its token; the
\* continuation does not ask whether the socket is still open.
Authenticated(f) ==
    LET ws == frames[f].ws
        u == frames[f].user
    IN  /\ frames[f].type = "authenticate"
        /\ ~Unwelcome(f)
        /\ userId' = [userId EXCEPT ![ws] = u]
        /\ conns' = IF userId[ws] = NoUser THEN [conns EXCEPT ![u] = @ \cup {ws}] ELSE conns
        /\ presence' = [presence EXCEPT ![u] = "online"]
        /\ missed' = IF Closed(ws) \/ u \notin active \cup disabling THEN missed \cup {ws} ELSE missed
        /\ phantom' = IF conns'[u] = {} THEN phantom \cup {u} ELSE phantom
        /\ Finish(f)
        /\ UNCHANGED <<ready, rooms, database>>

------------------------------------------------------------------------------
(* join, leave, heartbeat                                                     *)

\* requireChannelMember says yes (which members a channel has is left open); a
\* refusal, or a failing query, changes nothing.
Join(f, ws, c) ==
    /\ Live(ws) /\ userId[ws] # NoUser
    /\ frames[f] = NoFrame
    /\ frames' = [frames EXCEPT ![f] = [type |-> "join", ws |-> ws, channel |-> c]]
    /\ UNCHANGED <<socketVars, registries, database, leaks>>

\* Neither does this continuation ask whether the socket is still open.
Joined(f) ==
    /\ frames[f].type = "join"
    /\ rooms' = [rooms EXCEPT ![frames[f].channel] = @ \cup {frames[f].ws}]
    /\ missed' = IF Closed(frames[f].ws) THEN missed \cup {frames[f].ws} ELSE missed
    /\ Finish(f)
    /\ UNCHANGED <<socketVars, conns, presence, database, phantom>>

Leave(ws, c) ==
    /\ Live(ws) /\ userId[ws] # NoUser
    /\ rooms' = [rooms EXCEPT ![c] = @ \ {ws}]
    /\ UNCHANGED <<socketVars, frames, conns, presence, database, leaks>>

Heartbeat(ws) ==
    /\ Live(ws) /\ userId[ws] # NoUser
    /\ presence' = [presence EXCEPT ![userId[ws]] = "online"]
    /\ UNCHANGED <<socketVars, frames, conns, rooms, database, leaks>>

------------------------------------------------------------------------------
(* Timers                                                                     *)

\* sweepStalePresence: whoever has not been heard from for presenceStaleMs.
SweepStalePresence ==
    /\ \E stale \in SUBSET {u \in Users : presence[u] = "online"} :
          presence' = [u \in Users |-> IF u \in stale THEN "away" ELSE presence[u]]
    /\ UNCHANGED <<socketVars, frames, conns, rooms, database, leaks>>

\* The expiry sweep, over wss.clients; which tokens have expired is left open.
SweepExpiredTokens ==
    /\ \E S \in SUBSET {ws \in Sockets : Live(ws) /\ userId[ws] # NoUser} : Close(S)
    /\ UNCHANGED <<userId, frames, registries, database, leaks>>

------------------------------------------------------------------------------
(* Requests that concern the sockets' users.                                  *)

\* POST /admin/users/:id/disable commits the new status; the refresh tokens are
\* revoked next, and then the sockets closed.
Disable(u) ==
    /\ u \in active /\ u \notin disabling
    /\ disables < MaxDisables
    /\ disables' = disables + 1
    /\ active' = active \ {u}
    /\ disabling' = disabling \cup {u}
    /\ UNCHANGED <<socketVars, frames, registries, leaks>>

\* Mutant: one connection per user is assumed.
OneConnection(u) == IF conns[u] = {} THEN {} ELSE {CHOOSE ws \in conns[u] : TRUE}

ToDisconnect(u) == conns[u]

disconnectUser(u) ==
    /\ u \in disabling
    /\ Close(ToDisconnect(u))
    /\ disabling' = disabling \ {u}
    /\ UNCHANGED <<userId, frames, registries, active, disables, leaks>>

\* The revocation fails: the sockets stay, and as the account is already
\* DISABLED the next disable request skips them too.
DisableFails(u) ==
    /\ u \in disabling
    /\ disabling' = disabling \ {u}
    /\ missed' = missed \cup conns[u]
    /\ UNCHANGED <<socketVars, frames, registries, active, disables, phantom>>

Enable(u) ==
    /\ u \notin active
    /\ active' = active \cup {u}
    /\ UNCHANGED <<socketVars, frames, registries, disabling, disables, leaks>>

------------------------------------------------------------------------------
Socket(ws) == OnClose(ws) \/ RejectFrame(ws) \/ Heartbeat(ws)

Continue(f) == AuthenticateRefused(f) \/ Authenticated(f) \/ Joined(f)

Account(u) == Disable(u) \/ disconnectUser(u) \/ DisableFails(u) \/ Enable(u)

Next ==
    \/ StatusQueryFails \/ SweepStalePresence \/ SweepExpiredTokens
    \/ \E f \in Frames : Continue(f)
    \/ \E u \in Users : Account(u)
    \/ \E ws \in Sockets : Socket(ws)
    \/ \E f \in Frames, ws \in Sockets, u \in Users : Authenticate(f, ws, u)
    \/ \E f \in Frames, ws \in Sockets, c \in Channels : Join(f, ws, c)
    \/ \E ws \in Sockets, c \in Channels : Leave(ws, c)

Spec == Init /\ [][Next]_vars

------------------------------------------------------------------------------
(* Properties *)

\* The types of the registries, of the sockets' fields and of the frames in flight.
TypeOK ==
    /\ ready \in [Sockets -> {"open", "closing", "closed"}]
    /\ userId \in [Sockets -> Users \cup {NoUser}]
    /\ frames \in [Frames -> Authenticates \cup Joins \cup {NoFrame}]
    /\ conns \in [Users -> SUBSET Sockets]
    /\ rooms \in [Channels -> SUBSET Sockets]
    /\ presence \in [Users -> {"offline", "online", "away"}]
    /\ active \subseteq Users
    /\ disabling \subseteq Users
    /\ missed \subseteq Sockets /\ phantom \subseteq Users
    /\ disables \in 0 .. MaxDisables

\* However many handshakes of a user are in flight, and whatever else runs while
\* they wait, no more than maxConnectionsPerUser of them succeed.
ConnectionLimit == \A u \in Users : getConnectionCount(u) <= MaxConnectionsPerUser

\* A socket keeps the identity it authenticated with, even if frames with tokens
\* of two users were in flight together.
KeepsIdentity == \A ws \in Sockets : userId[ws] # NoUser => userId'[ws] = userId[ws]
IdentityIsFixed == [][KeepsIdentity]_vars

\* A live socket is registered under its user and nowhere else, and sits in rooms
\* only after authentication.
RegistryMatchesSockets ==
    \A ws \in Sockets : Live(ws) =>
        /\ \A u \in Users : ws \in conns[u] <=> userId[ws] = u
        /\ (\E c \in Channels : ws \in rooms[c]) => userId[ws] # NoUser

\* Users are shown as connected exactly while they have a registered connection,
\* but for those a frame of a closed socket put back.
PresenceMatchesConnections ==
    \A u \in Users : presence[u] # "offline" <=> conns[u] # {} \/ u \in phantom

\* What the cleanup of a close, or the eviction of a disabled account, leaves
\* behind was left by a continuation it could not see, or by a failed eviction.
LeaksAreOvertaken ==
    \A ws \in Sockets \ missed :
        /\ Closed(ws) => \A u \in Users, c \in Channels : ws \notin conns[u] \cup rooms[c]
        /\ ready[ws] = "open" /\ userId[ws] # NoUser => userId[ws] \in active \cup disabling

==============================================================================
