-------------------------------- MODULE ChatFeed --------------------------------
(***************************************************************************)
(* The browser's side of a conversation: the WebSocket client of           *)
(* frontend/src/ws/socket.js and the feeds ChatShell.jsx builds from two   *)
(* sources that race each other, the history a request fetches and the     *)
(* frames the server pushes, with the server's side of one connection      *)
(* (backend/src/ws/server.js; Sockets has its registries).                 *)
(*                                                                         *)
(* Messages are numbered.  In a feed n stands for the message and -n for   *)
(* its placeholder, whose id is the nonce the client sends with it.        *)
(***************************************************************************)
EXTENDS Integers, Sequences, SequencesExt, FiniteSets

CONSTANTS
    OwnChannels,    \* channels the user is a member of
    NoChannel,      \* no channel is selected
    MaxMessages,    \* bound: messages posted, by anyone
    MaxSelects,     \* bound: clicks on a channel
    MaxDrops        \* bound: connections that break, tokens that expire, refusals that begin

ASSUME ChatFeedAssumption ==
    /\ NoChannel \notin OwnChannels
    /\ MaxMessages \in Nat /\ MaxSelects \in Nat /\ MaxDrops \in Nat

VARIABLES
    mounted,        \* ChatShell is mounted; its cleanup calls disconnect()
    socket,         \* ws.readyState, as the client's events have shown it
    reconnecting,   \* reconnectTimer runs
    selected,       \* selectedChannelId
    joined,         \* joinedChannels
    loaded,         \* the keys of messagesByChannel
    feed,           \* messagesByChannel
    request,        \* GET messages: what each asked for and what it was answered
    up,             \* the server has the connection open
    toServer,       \* frames on their way to the server
    toClient,       \* frames on their way to the client
    authenticated,  \* the server's ws.authenticated
    subscribed,     \* the server's ws.joinedChannels
    work,           \* handlers of the server that await a query
    refusal,        \* why the server would refuse the tab's authenticate frame: its access
                    \* token has expired or its account is disabled ("token"), the user's
                    \* other connections are at the limit ("full"), or "none"
    log,            \* the channels' messages in the database
    posted,         \* messages sent or posted so far
    drops,          \* failures so far
    unseen,         \* history: broadcast, but not to this client, and in no history since
    declined,       \* history: channels whose last join on this connection was refused
    overwritten     \* history: shown, and taken away by a late history; in none since

browser == <<mounted, socket, reconnecting, selected, joined>>
feeds == <<loaded, feed, request, overwritten>>
verdicts == <<refusal, declined>>
server == <<up, authenticated, subscribed, work, log, unseen, verdicts>>
wires == <<toServer, toClient>>
feedVars == <<browser, feeds, server, wires, posted, drops>>

Messages == 1 .. MaxMessages

Frame(type, c, n) == [type |-> type, channel |-> c, message |-> n]

\* socket.send: nothing is sent unless the socket is OPEN, and nothing arrives once the
\* server's end is gone.
Sent(frame) == IF socket = "OPEN" /\ up THEN Append(toServer, frame) ELSE toServer

------------------------------------------------------------------------------
(* socket.js and the effect of ChatShell that owns the socket.                *)

FeedInit ==
    /\ mounted = TRUE /\ socket = "CONNECTING" /\ reconnecting = FALSE
    /\ selected = NoChannel /\ joined = {}
    /\ loaded = {} /\ feed = [c \in OwnChannels |-> <<>>] /\ request = <<>>
    /\ up = FALSE /\ toServer = <<>> /\ toClient = <<>>
    /\ authenticated = FALSE /\ subscribed = {} /\ work = {}
    /\ log = [c \in OwnChannels |-> <<>>]
    /\ posted = 0 /\ drops = 0 /\ refusal = "none" /\ declined = {}
    /\ unseen = {} /\ overwritten = {}

\* onopen
Opened ==
    /\ socket = "CONNECTING" /\ socket' = "OPEN"
    /\ up' = TRUE
    /\ toServer' = <<Frame("authenticate", NoChannel, 0)>> /\ toClient' = <<>>
    /\ UNCHANGED <<mounted, reconnecting, selected, joined, feeds,
                   authenticated, subscribed, work, log, unseen, verdicts, posted, drops>>

\* A request of the tab that is answered has renewed an expired token on the way: apiFetch
\* refreshes after a 401.
Renewed == refusal' = IF refusal = "token" THEN "none" ELSE refusal

\* The reauth interval: refreshAccessToken, then a fresh authenticate frame; without a token
\* none is sent.
Reauthenticate ==
    /\ mounted /\ socket = "OPEN" /\ authenticated
    /\ toServer = <<>> /\ toClient = <<>> /\ work = {}
    /\ toServer' = Sent(Frame("authenticate", NoChannel, 0)) /\ Renewed
    /\ UNCHANGED <<browser, feeds, up, authenticated, subscribed, work, log, unseen, declined,
                   toClient, posted, drops>>

\* Mutant: the joined channels outlive the connection.
DisconnectedKeepingJoined ==
    /\ socket \in {"OPEN", "CLOSING"} /\ ~up /\ toClient = <<>>
    /\ socket' = "CLOSED" /\ reconnecting' = mounted
    /\ UNCHANGED <<mounted, selected, joined, feeds, server, wires, posted, drops>>

\* onclose: 'disconnected' empties joinedChannels, scheduleReconnect.
Disconnected ==
    /\ socket \in {"OPEN", "CLOSING"} /\ ~up /\ toClient = <<>>
    /\ socket' = "CLOSED" /\ joined' = {} /\ reconnecting' = mounted
    /\ UNCHANGED <<mounted, selected, feeds, server, wires, posted, drops>>

\* The connection is not made: onerror, then onclose.
Refused ==
    /\ socket = "CONNECTING" /\ drops < MaxDrops /\ drops' = drops + 1
    /\ socket' = "CLOSED" /\ joined' = {} /\ reconnecting' = mounted
    /\ UNCHANGED <<mounted, selected, feeds, server, wires, posted>>

\* reconnectTimer fires: connect.
Reconnect ==
    /\ reconnecting /\ reconnecting' = FALSE
    /\ socket' = "CONNECTING"
    /\ UNCHANGED <<mounted, selected, joined, feeds, server, wires, posted, drops>>

\* The effect's cleanup, disconnect(); the close event is still to come.  The component's
\* state is gone, and its requests are answered to nobody.
Unmount ==
    /\ mounted /\ mounted' = FALSE
    /\ selected' = NoChannel /\ joined' = {}
    /\ loaded' = {} /\ feed' = [c \in OwnChannels |-> <<>>] /\ request' = <<>>
    /\ overwritten' = {}
    /\ socket' = IF socket = "CLOSED" THEN "CLOSED" ELSE "CLOSING"
    /\ reconnecting' = FALSE
    /\ UNCHANGED <<server, wires, posted, drops>>

------------------------------------------------------------------------------
(* The connection breaks, the client closes it or the server does; the        *)
(* server's close handler.  What was on its way to the server is lost, and a  *)
(* part of what was on its way to the client.  A message whose handler runs   *)
(* is still stored and broadcast; joins and handshakes change nothing any     *)
(* more for this client.                                                      *)

MessagesOf(frames) == {f.message : f \in {g \in ToSet(frames) : g.type = "message_created"}}

Cut(k) ==
    /\ up' = FALSE /\ authenticated' = FALSE /\ subscribed' = {}
    /\ work' = {w \in work : w.type \in {"message", "broadcast"}}
    /\ toServer' = <<>> /\ toClient' = SubSeq(toClient, 1, k)
    /\ unseen' = unseen \cup MessagesOf(SubSeq(toClient, k + 1, Len(toClient)))
    /\ declined' = {}
    /\ UNCHANGED <<browser, feeds, log, refusal, posted>>

\* A lost connection, a restart of the server (a failing status query is one).
Drop ==
    /\ up /\ drops < MaxDrops /\ drops' = drops + 1
    /\ \E k \in 0 .. Len(toClient) : Cut(k)

Hangup == up /\ socket = "CLOSING" /\ Cut(Len(toClient)) /\ UNCHANGED drops

\* A frame other than authenticate before the handshake is through: close(4001).
TurnedAway ==
    /\ up /\ toServer # <<>> /\ ~authenticated /\ Head(toServer).type # "authenticate"
    /\ Cut(Len(toClient))
    /\ UNCHANGED drops

\* The sweep of expired tokens, close(4002), and disconnectUser of a disabled account.
Swept == up /\ authenticated /\ refusal = "token" /\ Cut(Len(toClient)) /\ UNCHANGED drops

\* The token expires, the account is disabled, or other tabs take the last connection.
Lapse ==
    /\ mounted /\ refusal = "none" /\ drops < MaxDrops /\ drops' = drops + 1
    /\ refusal' \in {"token", "full"}
    /\ UNCHANGED <<browser, feeds, up, authenticated, subscribed, work, log, unseen, declined,
                   wires, posted>>

\* Some other request of the tab renews the token, or one of the connections closes.
Relent ==
    /\ refusal # "none" /\ refusal' = "none"
    /\ UNCHANGED <<browser, feeds, up, authenticated, subscribed, work, log, unseen, declined,
                   wires, posted, drops>>

------------------------------------------------------------------------------
(* The server's handlers; each awaits queries, so they overlap.               *)

Receive ==
    /\ up /\ toServer # <<>> /\ toServer' = Tail(toServer)
    /\ LET frame == Head(toServer) IN
       /\ authenticated \/ frame.type = "authenticate"
       /\ work' = IF frame.type = "message" /\ frame.channel \notin subscribed THEN work
                  ELSE work \cup {frame}
    /\ UNCHANGED <<verdicts, browser, feeds, up, authenticated, subscribed, log, unseen,
                   toClient, posted, drops>>

\* handleAuthenticate: a token that holds renews an authenticated socket, a first one is
\* also held against the connection limit.
Handshake == Frame("authenticate", NoChannel, 0)
Welcome == refusal = "none" \/ (refusal = "full" /\ authenticated)

HandleAuthenticate ==
    /\ Handshake \in work /\ Welcome /\ work' = work \ {Handshake}
    /\ authenticated' = TRUE
    /\ toClient' = Append(toClient, Frame("authenticated", NoChannel, 0))
    /\ UNCHANGED <<verdicts, browser, feeds, up, subscribed, log, unseen, toServer, posted, drops>>

\* Or close(4001), close(4003): the client reconnects with the token it has.
TurnAway == Handshake \in work /\ ~Welcome /\ Cut(Len(toClient)) /\ UNCHANGED drops

\* handleJoin
HandleJoin(c) ==
    LET w == Frame("join", c, 0) IN
    /\ w \in work /\ work' = work \ {w}
    /\ subscribed' = subscribed \cup {c} /\ declined' = declined \ {c}
    /\ toClient' = Append(toClient, Frame("joined", c, 0))
    /\ UNCHANGED <<browser, feeds, up, authenticated, log, unseen, refusal, toServer, posted, drops>>

\* Its catch: the membership query fails or finds none; an error frame, which no listener
\* of the client hears, and the connection stays.
DeclineJoin(c) ==
    LET w == Frame("join", c, 0) IN
    /\ w \in work /\ work' = work \ {w} /\ drops < MaxDrops /\ drops' = drops + 1
    /\ declined' = declined \cup {c}
    /\ UNCHANGED <<browser, feeds, up, authenticated, subscribed, log, unseen, refusal, wires, posted>>

\* handleMessage: refused by the rate limiter or by a check, or stored; the broadcast
\* follows in a step of its own.
HandleMessage(c, n) ==
    LET w == Frame("message", c, n) IN
    /\ w \in work
    /\ \/ work' = work \ {w} /\ UNCHANGED log
       \/ /\ work' = (work \ {w}) \cup {Frame("broadcast", c, n)}
          /\ log' = [log EXCEPT ![c] = Append(@, n)]
    /\ UNCHANGED <<verdicts, browser, feeds, up, authenticated, subscribed, unseen, wires,
                   posted, drops>>

\* A message of another user is stored.
Post(c) ==
    /\ mounted /\ posted < MaxMessages /\ posted' = posted + 1
    /\ log' = [log EXCEPT ![c] = Append(@, posted + 1)]
    /\ work' = work \cup {Frame("broadcast", c, posted + 1)}
    /\ UNCHANGED <<verdicts, browser, feeds, up, authenticated, subscribed, unseen, wires, drops>>

\* broadcastToRoom
Broadcast(c, n) ==
    LET w == Frame("broadcast", c, n) IN
    /\ w \in work /\ work' = work \ {w}
    /\ IF c \in subscribed
       THEN toClient' = Append(toClient, Frame("message_created", c, n)) /\ UNCHANGED unseen
       ELSE unseen' = unseen \cup {n} /\ UNCHANGED toClient
    /\ UNCHANGED <<verdicts, browser, feeds, up, authenticated, subscribed, log, toServer,
                   posted, drops>>

------------------------------------------------------------------------------
(* ChatShell's listeners.                                                     *)

\* Mutant of reconcileMessage: a confirmation whose placeholder is gone is ignored.
ReconciledOwnOnly(entries, n) ==
    IF Contains(entries, -n) THEN [i \in DOMAIN entries |-> IF entries[i] = -n THEN n ELSE entries[i]]
    ELSE entries

\* reconcileMessage
Reconciled(entries, n) ==
    IF Contains(entries, -n) THEN [i \in DOMAIN entries |-> IF entries[i] = -n THEN n ELSE entries[i]]
    ELSE IF Contains(entries, n) THEN entries
    ELSE Append(entries, n)

\* Mutant: nothing is joined again on a new connection.
Forgets(frame) == toServer

\* On 'authenticated', whatever channel is selected is joined again.
Answer(frame) ==
    IF frame.type = "authenticated" /\ selected # NoChannel
    THEN Sent(Frame("join", selected, 0)) ELSE toServer

Hear ==
    /\ mounted /\ toClient # <<>> /\ toClient' = Tail(toClient)
    /\ LET frame == Head(toClient) IN
       /\ toServer' = Answer(frame)
       /\ joined' = IF frame.type = "joined" THEN joined \cup {frame.channel} ELSE joined
       /\ IF frame.type = "message_created"
          THEN /\ feed' = [feed EXCEPT ![frame.channel] = Reconciled(@, frame.message)]
               /\ loaded' = loaded \cup {frame.channel}
          ELSE UNCHANGED <<feed, loaded>>
    /\ UNCHANGED <<mounted, socket, reconnecting, selected, request, overwritten,
                   server, posted, drops>>

\* Frames for a component that is gone set no state.
Ignore ==
    /\ ~mounted /\ toClient # <<>> /\ toClient' = Tail(toClient)
    /\ UNCHANGED <<browser, feeds, server, toServer, posted, drops>>

------------------------------------------------------------------------------
(* What the user does, and the history it asks for.                           *)

\* A request that is answered, or need not be made.
Over(c) == [channel |-> c, upto |-> 0, state |-> "none"]

\* selectChannel
SelectChannel(c) ==
    /\ mounted /\ Len(request) < MaxSelects
    /\ selected' = c
    /\ request' = Append(request, IF c \in loaded THEN Over(c)
                                  ELSE [Over(c) EXCEPT !.state = "asked"])
    /\ toServer' = IF c \in joined THEN toServer ELSE Sent(Frame("join", c, 0))
    /\ UNCHANGED <<mounted, socket, reconnecting, joined, loaded, feed, overwritten,
                   server, toClient, posted, drops>>

\* handleSelectWorkspace on the selected workspace: back to its home, to click again.
GoHome ==
    /\ mounted /\ Len(request) < MaxSelects /\ selected # NoChannel /\ selected' = NoChannel
    /\ UNCHANGED <<mounted, socket, reconnecting, joined, feeds, server, wires, posted, drops>>

\* handleSend
Send ==
    /\ mounted /\ selected # NoChannel /\ posted < MaxMessages /\ posted' = posted + 1
    /\ feed' = [feed EXCEPT ![selected] = Append(@, -(posted + 1))]
    /\ loaded' = loaded \cup {selected}
    /\ toServer' = Sent(Frame("message", selected, posted + 1))
    /\ UNCHANGED <<browser, request, overwritten, server, toClient, drops>>

\* The server reads the channel's messages for a request, whose token is good by then.
ReadHistory(k) ==
    /\ request[k].state = "asked" /\ Renewed
    /\ request' = [request EXCEPT ![k].state = "read", ![k].upto = Len(log[request[k].channel])]
    /\ UNCHANGED <<browser, loaded, feed, overwritten, up, authenticated, subscribed, work, log,
                   unseen, declined, wires, posted, drops>>

\* The answer replaces whatever the feed shows, live messages and placeholders.
HistoryArrives(k) ==
    LET c == request[k].channel
        rows == SubSeq(log[c], 1, request[k].upto)
    IN
    /\ request[k].state = "read" /\ request' = [request EXCEPT ![k] = Over(c)]
    /\ feed' = [feed EXCEPT ![c] = rows]
    /\ loaded' = loaded \cup {c} /\ unseen' = unseen \ ToSet(rows)
    /\ overwritten' = (overwritten \cup {n \in ToSet(feed[c]) : n > 0}) \ ToSet(rows)
    /\ UNCHANGED <<verdicts, browser, up, authenticated, subscribed, work, log, wires, posted, drops>>

\* The request fails, before or after it was read; nothing handles the rejection.
HistoryFails(k) ==
    /\ request[k].state # "none"
    /\ request' = [request EXCEPT ![k] = Over(request[k].channel)]
    /\ UNCHANGED <<browser, loaded, feed, overwritten, server, wires, posted, drops>>

------------------------------------------------------------------------------
Connection == Opened \/ Reauthenticate \/ Disconnected \/ Refused \/ Reconnect \/ Unmount
Breaks == Drop \/ Hangup \/ TurnedAway \/ TurnAway \/ Swept
Standing == Lapse \/ Relent
Serving ==
    \/ Receive \/ HandleAuthenticate
    \/ \E c \in OwnChannels :
          \/ HandleJoin(c) \/ DeclineJoin(c) \/ Post(c)
          \/ \E n \in Messages : HandleMessage(c, n) \/ Broadcast(c, n)
Listening == Hear \/ Ignore
History == \E k \in DOMAIN request : ReadHistory(k) \/ HistoryArrives(k) \/ HistoryFails(k)
User == GoHome \/ Send \/ \E c \in OwnChannels : SelectChannel(c)

FeedNext == Connection \/ Breaks \/ Standing \/ Serving \/ Listening \/ History \/ User

\* The event loops run what is queued, the backoff ends (at most 15 s), and a closed
\* connection is noticed; nobody need click, post or break anything.
Fairness ==
    /\ WF_feedVars(Opened \/ Refused) /\ WF_feedVars(Disconnected) /\ WF_feedVars(Reconnect)
    /\ WF_feedVars(TurnedAway \/ Receive) /\ WF_feedVars(HandleAuthenticate \/ TurnAway)
    /\ \A c \in OwnChannels : WF_feedVars(HandleJoin(c) \/ DeclineJoin(c))
    /\ WF_feedVars(Hear)

FeedSpec == FeedInit /\ [][FeedNext]_feedVars /\ Fairness

------------------------------------------------------------------------------
FrameTypes == {"authenticate", "authenticated", "join", "joined", "message", "message_created",
               "broadcast"}
FeedFrames == [type : FrameTypes, channel : OwnChannels \cup {NoChannel}, message : 0 .. MaxMessages]
Requests == [channel : OwnChannels, upto : Nat, state : {"asked", "read", "none"}]
Entries == -MaxMessages .. MaxMessages

\* Every variable keeps its type (the verdicts in VerdictsOK), and a connection the server
\* has closed has no rooms and no frames on their way to it.
VerdictsOK == refusal \in {"none", "token", "full"} /\ declined \subseteq OwnChannels

FeedTypeOK ==
    /\ mounted \in BOOLEAN /\ reconnecting \in BOOLEAN
    /\ socket \in {"CONNECTING", "OPEN", "CLOSING", "CLOSED"}
    /\ selected \in OwnChannels \cup {NoChannel} /\ joined \subseteq OwnChannels
    /\ loaded \subseteq OwnChannels /\ feed \in [OwnChannels -> Seq(Entries)]
    /\ request \in Seq(Requests)
    /\ up \in BOOLEAN /\ authenticated \in BOOLEAN /\ subscribed \subseteq OwnChannels
    /\ toServer \in Seq(FeedFrames) /\ toClient \in Seq(FeedFrames) /\ work \subseteq FeedFrames
    /\ log \in [OwnChannels -> Seq(Messages)]
    /\ posted \in 0 .. MaxMessages /\ drops \in 0 .. MaxDrops
    /\ unseen \subseteq Messages /\ overwritten \subseteq Messages
    /\ ~up => ~authenticated /\ subscribed = {} /\ toServer = <<>>
    /\ ~authenticated => subscribed = {}

\* On a live connection the client counts only those channels as joined whose frames
\* the server sends it; otherwise selectChannel would not join them again.
JoinedIsSubscribed == up => joined \subseteq subscribed

\* No broadcast or frame about the channel is on its way.
Settled(c) ==
    /\ \A w \in work : w.channel = c => w.type # "broadcast"
    /\ \A f \in ToSet(toClient) : f.channel # c

\* A feed shows a message once, as itself or as its placeholder, whichever of the
\* history, the frame and the confirmation comes first (reconcileMessage); when all is
\* settled, it shows every message of the channel, but for those that were broadcast while
\* the client was not in the room or were lost with a connection, and those that a late
\* history took off the screen; each until a history brings it (the gaps of ChatShell.jsx).
FeedComplete ==
    \A c \in OwnChannels :
        /\ \A i, j \in DOMAIN feed[c] : feed[c][i] \in {feed[c][j], -feed[c][j]} => i = j
        /\ mounted /\ Settled(c) =>
               ToSet(log[c]) \ (unseen \cup overwritten) \subseteq ToSet(feed[c])

\* A channel that stays selected is joined, through failures, reconnections, frames the
\* server turned away during the handshake and handshakes it refused: as long as the refusal
\* does not last (the client reconnects with the token it has, and only another request
\* renews it), and unless the last join on this connection was refused itself, which the
\* client does not try again (handleJoin's catch).
SelectedIsJoined ==
    \A c \in OwnChannels :
        <>[](mounted /\ selected = c /\ refusal = "none") => <>[](c \in joined \cup declined)

==============================================================================
