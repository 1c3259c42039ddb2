----------------------------- MODULE Notifications -----------------------------
(***************************************************************************)
(* One user's notifications, from the rows to the badge in the sidebar:    *)
(* mentions that the side-effects worker files, membership offers with     *)
(* their notices, the routes that count and mark them, the frames that     *)
(* announce them, and the browser (NotificationPanel.jsx, ChatShell.jsx),  *)
(* which asks again after each frame and shows the answer that came last.  *)
(***************************************************************************)
EXTENDS Naturals, FiniteSets

CONSTANTS
    Mentions,       \* messages that mention the user, of one channel
    MemberOffers,   \* membership invitations to the user
    Calls,          \* requests of the browser, as many as may be in flight
    MaxClicks,      \* bound: what the user does
    MaxTroubles     \* bound: failed requests, broken connections, changes of membership

ASSUME NotificationsAssumption ==
    /\ IsFiniteSet(Mentions) /\ IsFiniteSet(MemberOffers) /\ Mentions \cap MemberOffers = {}
    /\ MaxClicks \in Nat /\ MaxTroubles \in Nat

None == "none"

VARIABLES
    mention,        \* mention_notifications: no row, unread or read
    inChannel,      \* is the user a member of the channel
    invitation,     \* membership_invitations: none, pending or answered
    notice,         \* user_notifications of it: none, unread or read
    up,             \* the browser's socket
    frames,         \* mentions and offers announced on it, not yet heard
    calls,          \* the browser's requests
    badge,          \* ChatShell: notificationSummary.unreadCount
    panel,          \* NotificationPanel's state
    responding,     \* its respondingId
    toasts,         \* mentions that a toast or the system announced
    current,        \* history: the badge comes from the count begun last
    guessed,        \* history: the badge comes from markAllRead, which does not ask
    unheard,        \* history: something changed that no count begun since includes
    late,           \* history: offers answered before their notice was filed
    unmarked,       \* history: offers answered by a request that failed before the notice
    clicks, troubles

rowVars == <<mention, inChannel, invitation, notice>>
pageVars == <<badge, panel, responding, toasts>>
badgeHistory == <<current, guessed, unheard>>
noticeHistory == <<late, unmarked>>
vars == <<rowVars, up, frames, calls, pageVars, badgeHistory, noticeHistory, clicks, troubles>>

Counting == {"summary", "list", "recount"}
Responses == {"accept", "decline"}
NoCall == [kind |-> None, step |-> None, of |-> None, latest |-> FALSE, mentions |-> 0,
           invitations |-> 0, rows |-> {}, mine |-> FALSE]
Send(kind, x) == [NoCall EXCEPT !.kind = kind, !.step = "sent", !.of = x,
                                !.mine = kind \notin {"summary", "navigate"}]
\* A panel just opened; it shows zeros until its list is answered.
Opened == [open |-> TRUE, rows |-> {}, offers |-> {}, mentions |-> 0, invitations |-> 0]
Closed == [Opened EXCEPT !.open = FALSE]

Init ==
    /\ mention = [m \in Mentions |-> None] /\ inChannel = TRUE
    /\ invitation = [o \in MemberOffers |-> None] /\ notice = [o \in MemberOffers |-> None]
    /\ up = TRUE /\ frames = {}
    /\ \E n \in Calls : calls = [k \in Calls |-> IF k = n THEN Send("summary", None) ELSE NoCall]
    /\ badge = 0 /\ panel = Closed /\ responding = None /\ toasts = {}
    /\ current = FALSE /\ guessed = FALSE /\ unheard = FALSE
    /\ late = {} /\ unmarked = {}
    /\ clicks = 0 /\ troubles = 0

\* baseVisibleNotificationsQuery: those of channels the user is still in.
Visible == IF inChannel THEN {m \in Mentions : mention[m] # None} ELSE {}
UnreadMentions == {m \in Visible : mention[m] = "unread"}
UnreadNotices == {o \in MemberOffers : notice[o] = "unread"}

------------------------------------------------------------------------------
(* What others do.                                                            *)

\* sendToUser: to every open connection, of which there may be none.
Push(x) ==
    /\ frames' = IF up THEN frames \cup {x} ELSE frames
    /\ unheard' = (unheard \/ ~up)

\* processNotificationJob: the row, and the frame for a row that is new.
FileMention(m) ==
    /\ inChannel /\ mention[m] = None
    /\ mention' = [mention EXCEPT ![m] = "unread"]
    /\ Push(m)
    /\ UNCHANGED <<inChannel, invitation, notice, up, calls, pageVars, current, guessed,
                   noticeHistory, clicks, troubles>>

\* POST .../membership-invitations: the offer; the notice and the frame only after another
\* await, or never.
Offer(o) ==
    /\ invitation[o] = None
    /\ invitation' = [invitation EXCEPT ![o] = "pending"]
    /\ UNCHANGED <<mention, inChannel, notice, up, frames, calls, pageVars, badgeHistory,
                   noticeHistory, clicks, troubles>>

FileNotice(o) ==
    /\ invitation[o] # None /\ notice[o] = None
    /\ notice' = [notice EXCEPT ![o] = "unread"]
    /\ late' = IF invitation[o] = "answered" THEN late \cup {o} ELSE late
    /\ Push(o)
    /\ UNCHANGED <<mention, inChannel, invitation, up, calls, pageVars, current, guessed,
                   unmarked, clicks, troubles>>

Trouble == troubles < MaxTroubles /\ troubles' = troubles + 1

\* The user is removed from the channel or put back: no frame says so.
ChangeMembership ==
    /\ Trouble
    /\ inChannel' = ~inChannel
    /\ unheard' = TRUE
    /\ UNCHANGED <<mention, invitation, notice, up, frames, calls, pageVars, current,
                   guessed, noticeHistory, clicks>>

\* The connection breaks with what is on it, and is made again; nobody asks then.
Disconnect ==
    /\ up /\ Trouble
    /\ up' = FALSE /\ frames' = {}
    /\ unheard' = (unheard \/ frames # {})
    /\ UNCHANGED <<rowVars, calls, pageVars, current, guessed, noticeHistory, clicks>>

Reconnect ==
    /\ ~up /\ up' = TRUE
    /\ UNCHANGED <<rowVars, frames, calls, pageVars, badgeHistory, noticeHistory, clicks, troubles>>

------------------------------------------------------------------------------
(* The routes.  Each step is one statement.                                   *)

Becomes(n, c) == calls' = [calls EXCEPT ![n] = c]
\* History: the count that n begins is from now on the latest.
BeginsLast(n, c) ==
    /\ calls' = [k \in Calls |-> IF k = n THEN [c EXCEPT !.latest = TRUE]
                                 ELSE [calls[k] EXCEPT !.latest = FALSE]]
    /\ current' = FALSE

\* GET /mentions and GET /summary: the list and the mentions first,
CountMentions(n) ==
    /\ calls[n].kind \in Counting /\ calls[n].step = "sent"
    /\ unheard' = FALSE
    /\ BeginsLast(n, [calls[n] EXCEPT !.step = "counted",
                                   !.mentions = Cardinality(UnreadMentions),
                                   !.rows = IF calls[n].kind = "list" THEN Visible ELSE {}])
    /\ UNCHANGED <<rowVars, up, frames, pageVars, guessed, noticeHistory, clicks, troubles>>

\* Mutant: the list's summary is that of the mentions alone.
CountNoticesForSummaryOnly(n) ==
    /\ calls[n].step = "counted"
    /\ Becomes(n, [calls[n] EXCEPT !.step = "answered",
                                   !.invitations = IF calls[n].kind = "list" THEN 0
                                                   ELSE Cardinality(UnreadNotices)])
    /\ UNCHANGED <<rowVars, up, frames, pageVars, badgeHistory, noticeHistory, clicks, troubles>>

\* then the notices: unreadCount is the sum, whichever of the two was asked.
CountNotices(n) ==
    /\ calls[n].step = "counted"
    /\ Becomes(n, [calls[n] EXCEPT !.step = "answered",
                                   !.invitations = Cardinality(UnreadNotices)])
    /\ UNCHANGED <<rowVars, up, frames, pageVars, badgeHistory, noticeHistory, clicks, troubles>>

\* GET /membership-invitations.
ListOffers(n) ==
    /\ calls[n].kind = "offers" /\ calls[n].step = "sent"
    /\ Becomes(n, [calls[n] EXCEPT !.step = "answered",
                                   !.rows = {o \in MemberOffers : invitation[o] = "pending"}])
    /\ UNCHANGED <<rowVars, up, frames, pageVars, badgeHistory, noticeHistory, clicks, troubles>>

\* PATCH /mentions/:id/read, of a mention that is visible.
MarkRead(n) ==
    /\ calls[n].kind \in {"open", "navigate"} /\ calls[n].step = "sent"
    /\ LET m == calls[n].of IN
          /\ mention' = IF m \in Visible THEN [mention EXCEPT ![m] = "read"] ELSE mention
          /\ Becomes(n, [calls[n] EXCEPT !.step = IF m \in Visible THEN "answered" ELSE "failed"])
    /\ UNCHANGED <<inChannel, invitation, notice, up, frames, pageVars, badgeHistory,
                   noticeHistory, clicks, troubles>>

\* POST /mentions/read-all.
MarkAllRead(n) ==
    /\ calls[n].kind = "markAll" /\ calls[n].step = "sent"
    /\ mention' = [m \in Mentions |-> IF m \in UnreadMentions THEN "read" ELSE mention[m]]
    /\ BeginsLast(n, [calls[n] EXCEPT !.step = "answered"])
    /\ UNCHANGED <<inChannel, invitation, notice, up, frames, pageVars, guessed, unheard,
                   noticeHistory, clicks, troubles>>

\* POST /membership-invitations/:id/accept and decline: the transaction,
Resolve(n) ==
    /\ calls[n].kind \in Responses /\ calls[n].step = "sent"
    /\ LET o == calls[n].of IN
          IF invitation[o] = "pending"
          THEN /\ invitation' = [invitation EXCEPT ![o] = "answered"]
               /\ Becomes(n, [calls[n] EXCEPT !.step = "resolved"])
          ELSE Becomes(n, [calls[n] EXCEPT !.step = "failed"]) /\ UNCHANGED invitation
    /\ UNCHANGED <<mention, inChannel, notice, up, frames, pageVars, badgeHistory, noticeHistory,
                   clicks, troubles>>

\* Mutant: a declined invitation keeps its notice.
MarkNoticeOfAccepted(n) ==
    /\ calls[n].step = "resolved"
    /\ LET o == calls[n].of IN
          notice' = IF notice[o] = "unread" /\ calls[n].kind = "accept"
                    THEN [notice EXCEPT ![o] = "read"] ELSE notice
    /\ Becomes(n, [calls[n] EXCEPT !.step = "answered"])
    /\ UNCHANGED <<mention, inChannel, invitation, up, frames, pageVars, badgeHistory,
                   noticeHistory, clicks, troubles>>

\* and the notice, after it.
MarkNotice(n) ==
    /\ calls[n].step = "resolved"
    /\ LET o == calls[n].of IN
          notice' = IF notice[o] = "unread" THEN [notice EXCEPT ![o] = "read"] ELSE notice
    /\ Becomes(n, [calls[n] EXCEPT !.step = "answered"])
    /\ UNCHANGED <<mention, inChannel, invitation, up, frames, pageVars, badgeHistory,
                   noticeHistory, clicks, troubles>>

\* A statement, the audit event at the end or the network fails.  What was written stays,
\* and the browser may not learn of it.
Fail(n) ==
    /\ calls[n].step \notin {None, "failed"} /\ Trouble
    /\ Becomes(n, [Send(calls[n].kind, calls[n].of) EXCEPT !.step = "failed",
                                                           !.mine = calls[n].mine])
    /\ unmarked' = IF calls[n].step = "resolved" THEN unmarked \cup {calls[n].of} ELSE unmarked
    /\ unheard' = (unheard \/ calls[n].step = "answered"
                           \/ (calls[n].step = "sent" /\ calls[n].kind \in Counting))
    /\ UNCHANGED <<rowVars, up, frames, pageVars, current, guessed, late, clicks>>

------------------------------------------------------------------------------
(* The browser.                                                               *)

Unused == {n \in Calls : calls[n] = NoCall}

\* The frames `mention` and `membership_invitation`: a toast, and the summary again.
Hear(x) ==
    /\ x \in frames
    /\ frames' = frames \ {x}
    /\ toasts' = IF x \in Mentions THEN toasts \cup {x} ELSE toasts
    /\ \E n \in Unused : Becomes(n, Send("summary", None))
    /\ UNCHANGED <<rowVars, up, badge, panel, responding, badgeHistory, noticeHistory, clicks,
                   troubles>>

Click == clicks < MaxClicks /\ clicks' = clicks + 1

\* The panel is mounted and loads its two lists.
OpenPanel ==
    /\ ~panel.open /\ Click /\ panel' = Opened /\ responding' = None
    /\ \E n, k \in Unused :
          n # k /\ calls' = [calls EXCEPT ![n] = Send("list", None), ![k] = Send("offers", None)]
    /\ UNCHANGED <<rowVars, up, frames, badge, toasts, badgeHistory, noticeHistory, troubles>>

\* What the panel asked for is answered all the same, but to no panel: `mine` is over.
Unmounted == [k \in Calls |-> [calls[k] EXCEPT !.mine = FALSE]]

ClosePanel ==
    /\ panel.open /\ panel' = Closed /\ responding' = None
    /\ calls' = Unmounted
    /\ UNCHANGED <<rowVars, up, frames, badge, toasts, badgeHistory, noticeHistory, clicks,
                   troubles>>

\* markAllRead, with the panel's own summary of this moment.
ClickMarkAll ==
    /\ panel.open /\ panel.mentions > 0 /\ Click
    /\ \E n \in Unused :
          Becomes(n, [Send("markAll", None) EXCEPT !.invitations = panel.invitations])
    /\ UNCHANGED <<rowVars, up, frames, pageVars, badgeHistory, noticeHistory, troubles>>

\* respondToInvitation; the button of this invitation is disabled meanwhile.
ClickRespond(o, kind) ==
    /\ panel.open /\ o \in panel.offers /\ responding # o /\ Click
    /\ responding' = o
    /\ \E n \in Unused : Becomes(n, Send(kind, o))
    /\ UNCHANGED <<rowVars, up, frames, badge, panel, toasts, badgeHistory, noticeHistory, troubles>>

\* openNotification of a listed mention, and the click on a toast.
ClickMention(m) ==
    /\ Click
    /\ \E n \in Unused : \/ panel.open /\ m \in panel.rows /\ Becomes(n, Send("open", m))
                         \/ m \in toasts /\ Becomes(n, Send("navigate", m))
    /\ UNCHANGED <<rowVars, up, frames, pageVars, badgeHistory, noticeHistory, troubles>>

\* setNotificationSummary with an answer: the badge shows whatever came last.
Show(n) == badge' = calls[n].mentions + calls[n].invitations /\ current' = calls[n].latest

\* An answer to a panel that was closed reaches the badge all the same.
Answered(n) ==
    LET c == calls[n] IN
    /\ c.step = "answered" /\ c.kind \in Counting \cup {"markAll"}
    /\ Show(n) /\ guessed' = (c.kind = "markAll")
    /\ panel' = IF ~c.mine THEN panel
                ELSE [panel EXCEPT !.mentions = c.mentions, !.invitations = c.invitations,
                                   !.rows = IF c.kind = "list" THEN c.rows ELSE @]
    /\ Becomes(n, NoCall)
    /\ UNCHANGED <<rowVars, up, frames, responding, toasts, unheard, noticeHistory, clicks,
                   troubles>>

OffersListed(n) ==
    /\ calls[n].step = "answered" /\ calls[n].kind = "offers"
    /\ panel' = IF calls[n].mine THEN [panel EXCEPT !.offers = calls[n].rows] ELSE panel
    /\ Becomes(n, NoCall)
    /\ UNCHANGED <<rowVars, up, frames, badge, responding, toasts, badgeHistory, noticeHistory,
                   clicks, troubles>>

\* Then openNotification leaves the panel for handleNavigateToMention, which marks again,
\* and that, whether it failed or not, asks for the summary.
Marked(n) ==
    /\ \/ calls[n].kind = "open" /\ calls[n].step = "answered"
          /\ calls' = [Unmounted EXCEPT ![n] = Send("navigate", calls[n].of)]
          /\ panel' = Closed /\ responding' = None
       \/ calls[n].kind = "navigate" /\ calls[n].step \in {"answered", "failed"}
          /\ Becomes(n, Send("summary", None)) /\ UNCHANGED <<panel, responding>>
    /\ UNCHANGED <<rowVars, up, frames, badge, toasts, badgeHistory, noticeHistory, clicks, troubles>>

Responded(n) ==
    /\ calls[n].step = "answered" /\ calls[n].kind \in Responses
    /\ IF calls[n].mine
       THEN panel' = [panel EXCEPT !.offers = @ \ {calls[n].of}] /\ responding' = None
       ELSE UNCHANGED <<panel, responding>>
    /\ Becomes(n, [Send("recount", None) EXCEPT !.mine = calls[n].mine])
    /\ UNCHANGED <<rowVars, up, frames, badge, toasts, badgeHistory, noticeHistory, clicks, troubles>>

\* Every other failure ends there; after one to respond the panel shows the error in place
\* of the offers.
Failed(n) ==
    /\ calls[n].step = "failed" /\ calls[n].kind # "navigate"
    /\ IF calls[n].mine /\ calls[n].kind \in Responses \cup {"offers", "recount"}
       THEN panel' = [panel EXCEPT !.offers = {}] /\ responding' = None
       ELSE UNCHANGED <<panel, responding>>
    /\ Becomes(n, NoCall)
    /\ UNCHANGED <<rowVars, up, frames, badge, toasts, badgeHistory, noticeHistory, clicks, troubles>>

Others ==
    \/ \E m \in Mentions : FileMention(m)
    \/ \E o \in MemberOffers : Offer(o) \/ FileNotice(o)
    \/ ChangeMembership \/ Disconnect \/ Reconnect

Routes ==
    \E n \in Calls :
        \/ CountMentions(n) \/ CountNotices(n) \/ ListOffers(n) \/ MarkRead(n)
        \/ MarkAllRead(n) \/ Resolve(n) \/ MarkNotice(n) \/ Fail(n)

Browser ==
    \/ \E x \in Mentions \cup MemberOffers : Hear(x)
    \/ OpenPanel \/ ClosePanel \/ ClickMarkAll
    \/ \E o \in MemberOffers, kind \in Responses : ClickRespond(o, kind)
    \/ \E m \in Mentions : ClickMention(m)
    \/ \E n \in Calls :
          Answered(n) \/ OffersListed(n) \/ Marked(n) \/ Responded(n) \/ Failed(n)

Next == Others \/ Routes \/ Browser

Spec == Init /\ [][Next]_vars

------------------------------------------------------------------------------
AtRest == frames = {} /\ \A n \in Calls : calls[n] = NoCall

\* At rest the badge counts what is unread, unless an answer came after a later one's or
\* never, the browser was not told of a change, or markAllRead computed it: it takes the
\* invitations from the panel's summary, which frames that came meanwhile do not update.
BadgeIsTrue ==
    AtRest => \/ badge = Cardinality(UnreadMentions) + Cardinality(UnreadNotices)
              \/ ~current \/ unheard \/ guessed

\* A notice that counts as unread belongs to an offer that can still be answered, which
\* clears it; but for one filed after the answer, or spared by a failure, it stays for good.
NoticesCanBeCleared ==
    \A o \in UnreadNotices \ (late \cup unmarked) :
        invitation[o] = "pending" \/ \E n \in Calls : calls[n].of = o /\ calls[n].step = "resolved"

==============================================================================
