------------------------------ MODULE StoresProofs ------------------------------
(***************************************************************************)
(* Notifications, for any number of mentions, offers and requests in       *)
(* flight: an unread notice can be cleared, unless it was filed after the  *)
(* answer or a failure spared it, and the badge counts what is unread.     *)
(* Names of entities, for any number of rows, names, requests and aliases: *)
(* a name resolves to two rows only if it was written by a request whose   *)
(* look at the names another request had made stale.                       *)
(* Releases of an enclave, for any number of them and any majors: a recipe *)
(* leads back to one that worked, and what serves can read a dump.         *)
(***************************************************************************)
EXTENDS Notifications, EntityNames, Deployment, FiniteSetTheorems, TLAPS

(* Notifications.                                                             *)

Kinds == Counting \cup Responses \cup {None, "offers", "open", "navigate", "markAll"}
Steps == {None, "sent", "counted", "answered", "failed", "resolved"}
Subjects == Mentions \cup MemberOffers \cup {None}

CallRecords ==
    [kind : Kinds, step : Steps, of : Subjects, latest : BOOLEAN, mentions : Nat,
     invitations : Nat, rows : SUBSET Subjects, mine : BOOLEAN]

PanelRecords ==
    [open : BOOLEAN, rows : SUBSET Subjects, offers : SUBSET Subjects, mentions : Nat,
     invitations : Nat]

RowsTypeOK ==
    /\ mention \in [Mentions -> {None, "unread", "read"}]
    /\ invitation \in [MemberOffers -> {None, "pending", "answered"}]
    /\ notice \in [MemberOffers -> {None, "unread", "read"}]

TypeOK == RowsTypeOK /\ calls \in [Calls -> CallRecords] /\ panel \in PanelRecords

(* The inductive invariant.                                                  *)
CInv == TypeOK /\ NoticesCanBeCleared

------------------------------------------------------------------------------
\* A count of notices or mentions is a number.
LEMMA Counts ==
    Cardinality(UnreadMentions) \in Nat /\ Cardinality(UnreadNotices) \in Nat
<1>1. UnreadMentions \subseteq Mentions /\ UnreadNotices \subseteq MemberOffers
  BY DEF UnreadMentions, UnreadNotices, Visible
<1>2. IsFiniteSet(UnreadMentions) /\ IsFiniteSet(UnreadNotices)
  BY <1>1, NotificationsAssumption, FS_Subset
<1> QED BY <1>2, FS_CardinalityType

\* A request that was just made, and none.
LEMMA Sent ==
    ASSUME NEW kind \in Kinds, NEW x \in Subjects
    PROVE  /\ NoCall \in CallRecords /\ Send(kind, x) \in CallRecords
           /\ Send(kind, x).kind = kind /\ Send(kind, x).step = "sent" /\ Send(kind, x).of = x
BY DEF Send, NoCall, CallRecords, Steps, Subjects, Kinds

(* Requests whose transaction is done are about the offers they were about.   *)
Done(n) == calls[n].step = "resolved"
DoneKept == \A n \in Calls : Done(n) => Done(n)' /\ calls'[n].of = calls[n].of

\* A step that leaves offers and notices alone, and keeps those requests, keeps the property.
LEMMA Undisturbed ==
    ASSUME NoticesCanBeCleared, UNCHANGED <<invitation, notice>>, DoneKept,
           late \subseteq late', unmarked \subseteq unmarked'
    PROVE  NoticesCanBeCleared'
BY DEF NoticesCanBeCleared, UnreadNotices, DoneKept, Done

\* A step that makes another record of one request that is not done.
LEMMA OneCall ==
    ASSUME TypeOK, NEW n \in Calls, ~Done(n), NEW c \in CallRecords, Becomes(n, c)
    PROVE  calls' \in [Calls -> CallRecords] /\ DoneKept
BY DEF TypeOK, Becomes, DoneKept, Done

------------------------------------------------------------------------------
\* At first there are no offers and no notices.
LEMMA NotificationsInit == Init => CInv
<1> SUFFICES ASSUME Init PROVE CInv
  OBVIOUS
<1>1. RowsTypeOK
  BY DEF Init, RowsTypeOK
<1>2. calls \in [Calls -> CallRecords]
  <2>1. "summary" \in Kinds /\ None \in Subjects
    BY DEF Kinds, Subjects, Counting
  <2>2. Send("summary", None) \in CallRecords /\ NoCall \in CallRecords
    BY <2>1, Sent
  <2> QED BY <2>2 DEF Init
<1>3. panel \in PanelRecords
  BY DEF Init, Closed, Opened, PanelRecords
<1>4. NoticesCanBeCleared
  BY DEF Init, NoticesCanBeCleared, UnreadNotices, None
<1> QED BY <1>1, <1>2, <1>3, <1>4 DEF CInv, TypeOK

\* What others do touches no request; a notice filed of an offer that was answered is late.
LEMMA OthersKeep == ASSUME CInv, Others PROVE CInv'
<1> USE DEF CInv, TypeOK, RowsTypeOK
<1>1. UNCHANGED <<calls, panel>>
  BY DEF Others, FileMention, Offer, FileNotice, ChangeMembership, Disconnect, Reconnect,
         pageVars
<1>2. DoneKept
  BY <1>1 DEF DoneKept, Done
<1>3. CASE \E m \in Mentions : FileMention(m)
  <2>1. /\ mention' \in [Mentions -> {None, "unread", "read"}]
        /\ UNCHANGED <<invitation, notice, late, unmarked>>
    BY <1>3 DEF FileMention, noticeHistory
  <2> QED BY <2>1, <1>1, <1>2, Undisturbed
<1>4. ASSUME NEW o \in MemberOffers, Offer(o) PROVE CInv'
  <2>1. /\ invitation' = [invitation EXCEPT ![o] = "pending"] /\ invitation[o] = None
        /\ UNCHANGED <<mention, notice, late, unmarked>>
    BY <1>4 DEF Offer, noticeHistory
  <2>2. NoticesCanBeCleared'
    <3> SUFFICES ASSUME NEW x \in UnreadNotices' \ (late' \cup unmarked')
                 PROVE  invitation'[x] = "pending" \/ \E n \in Calls : calls'[n].of = x /\ Done(n)'
      BY DEF NoticesCanBeCleared, Done
    <3>1. x \in UnreadNotices \ (late \cup unmarked) BY <2>1 DEF UnreadNotices
    <3>2. invitation[x] = "pending" \/ \E n \in Calls : calls[n].of = x /\ Done(n)
      BY <3>1 DEF NoticesCanBeCleared, Done
    <3> QED BY <3>2, <2>1, <1>1 DEF Done, UnreadNotices
  <2> QED BY <2>1, <2>2, <1>1
<1>5. ASSUME NEW o \in MemberOffers, FileNotice(o) PROVE CInv'
  <2>1. /\ invitation[o] # None /\ notice' = [notice EXCEPT ![o] = "unread"]
        /\ UNCHANGED <<mention, invitation, unmarked>>
        /\ late' = IF invitation[o] = "answered" THEN late \cup {o} ELSE late
    BY <1>5 DEF FileNotice
  <2>2. NoticesCanBeCleared'
    <3> SUFFICES ASSUME NEW x \in UnreadNotices' \ (late' \cup unmarked')
                 PROVE  invitation'[x] = "pending" \/ \E n \in Calls : calls'[n].of = x /\ Done(n)'
      BY DEF NoticesCanBeCleared, Done
    <3>1. CASE x = o
      BY <3>1, <2>1
    <3>2. CASE x # o
      <4>1. x \in UnreadNotices \ (late \cup unmarked) BY <3>2, <2>1 DEF UnreadNotices
      <4>2. invitation[x] = "pending" \/ \E n \in Calls : calls[n].of = x /\ Done(n)
        BY <4>1 DEF NoticesCanBeCleared, Done
      <4> QED BY <4>2, <2>1, <1>1 DEF Done
    <3> QED BY <3>1, <3>2
  <2> QED BY <2>1, <2>2, <1>1
<1>6. CASE ChangeMembership \/ Disconnect \/ Reconnect
  <2>1. UNCHANGED <<mention, invitation, notice, late, unmarked>>
    BY <1>6 DEF ChangeMembership, Disconnect, Reconnect, rowVars, noticeHistory
  <2> QED BY <2>1, <1>1, <1>2, Undisturbed
<1> QED BY <1>3, <1>4, <1>5, <1>6 DEF Others

------------------------------------------------------------------------------
\* A record with another step, or with other rows, is one.
LEMMA Records ==
    ASSUME TypeOK, NEW n \in Calls
    PROVE  /\ calls[n] \in CallRecords
           /\ \A s \in Steps : [calls[n] EXCEPT !.step = s] \in CallRecords
           /\ \A s \in Steps, i \in Nat :
                  [calls[n] EXCEPT !.step = s, !.invitations = i] \in CallRecords
           /\ \A s \in Steps, r \in SUBSET Subjects :
                  [calls[n] EXCEPT !.step = s, !.rows = r] \in CallRecords
           /\ \A s \in Steps, i \in Nat, r \in SUBSET Subjects :
                  [calls[n] EXCEPT !.step = s, !.mentions = i, !.rows = r] \in CallRecords
<1>1. calls[n] \in CallRecords
  BY DEF TypeOK
<1> QED BY <1>1 DEF CallRecords

\* The other requests stay what they are when a count begins.
LEMMA BeginsKeeps ==
    ASSUME TypeOK, NEW n \in Calls, ~Done(n), NEW c \in CallRecords, BeginsLast(n, c)
    PROVE  calls' \in [Calls -> CallRecords] /\ DoneKept
<1>1. \A k \in Calls : calls[k] \in CallRecords
  BY DEF TypeOK
<1>2. /\ [c EXCEPT !.latest = TRUE] \in CallRecords
      /\ \A k \in Calls : /\ [calls[k] EXCEPT !.latest = FALSE] \in CallRecords
                          /\ [calls[k] EXCEPT !.latest = FALSE].step = calls[k].step
                          /\ [calls[k] EXCEPT !.latest = FALSE].of = calls[k].of
  BY <1>1 DEF CallRecords
<1>3. calls' = [k \in Calls |-> IF k = n THEN [c EXCEPT !.latest = TRUE]
                                ELSE [calls[k] EXCEPT !.latest = FALSE]]
  BY DEF BeginsLast
<1> QED BY <1>2, <1>3 DEF DoneKept, Done

\* A route that only reads, or marks mentions.
LEMMA ReadersKeep ==
    ASSUME CInv, NEW n \in Calls,
           \/ CountMentions(n) \/ CountNotices(n) \/ ListOffers(n) \/ MarkRead(n)
           \/ MarkAllRead(n)
    PROVE  CInv'
<1> USE DEF CInv
<1>1. UNCHANGED <<invitation, notice, late, unmarked, panel>>
  BY DEF CountMentions, CountNotices, ListOffers, MarkRead, MarkAllRead, rowVars, noticeHistory,
         pageVars
<1>2. mention' \in [Mentions -> {None, "unread", "read"}]
  BY DEF CountMentions, CountNotices, ListOffers, MarkRead, MarkAllRead, rowVars, TypeOK,
         RowsTypeOK
<1>3. ~Done(n) /\ \A s \in {"counted", "answered", "failed", "resolved"} : s \in Steps
  BY DEF CountMentions, CountNotices, ListOffers, MarkRead, MarkAllRead, Done, Steps
<1>4. Visible \subseteq Subjects /\ MemberOffers \subseteq Subjects
  BY DEF Visible, Subjects
<1>5. calls' \in [Calls -> CallRecords] /\ DoneKept
  <2>1. CASE CountMentions(n)
    <3>1. PICK r \in SUBSET Subjects :
             BeginsLast(n, [calls[n] EXCEPT !.step = "counted",
                                            !.mentions = Cardinality(UnreadMentions), !.rows = r])
      BY <2>1, <1>4 DEF CountMentions
    <3> QED BY <3>1, <1>3, Counts, Records, BeginsKeeps
  <2>2. CASE CountNotices(n)
    <3>1. Becomes(n, [calls[n] EXCEPT !.step = "answered",
                                      !.invitations = Cardinality(UnreadNotices)])
      BY <2>2 DEF CountNotices
    <3> QED BY <3>1, <1>3, Counts, Records, OneCall
  <2>3. CASE ListOffers(n)
    <3>1. PICK r \in SUBSET Subjects :
             Becomes(n, [calls[n] EXCEPT !.step = "answered", !.rows = r])
      BY <2>3, <1>4 DEF ListOffers
    <3> QED BY <3>1, <1>3, Records, OneCall
  <2>4. CASE MarkRead(n)
    <3>1. PICK s \in Steps : Becomes(n, [calls[n] EXCEPT !.step = s])
      BY <2>4, <1>3 DEF MarkRead
    <3> QED BY <3>1, <1>3, Records, OneCall
  <2>5. CASE MarkAllRead(n)
    <3>1. BeginsLast(n, [calls[n] EXCEPT !.step = "answered"])
      BY <2>5 DEF MarkAllRead
    <3> QED BY <3>1, <1>3, Records, BeginsKeeps
  <2> QED BY <2>1, <2>2, <2>3, <2>4, <2>5
<1>6. TypeOK'
  BY <1>1, <1>2, <1>5 DEF TypeOK, RowsTypeOK
<1> QED BY <1>1, <1>5, <1>6, Undisturbed

\* Answering an offer leaves its request with the notice still to mark.
LEMMA ResolveKeeps == ASSUME CInv, NEW n \in Calls, Resolve(n) PROVE CInv'
<1> DEFINE o == calls[n].of
<1> USE DEF CInv
<1>1. /\ UNCHANGED <<mention, notice, late, unmarked, panel>>
      /\ calls[n].step = "sent"
      /\ \/ invitation[o] # "pending" /\ UNCHANGED invitation
            /\ Becomes(n, [calls[n] EXCEPT !.step = "failed"])
         \/ /\ invitation' = [invitation EXCEPT ![o] = "answered"]
            /\ Becomes(n, [calls[n] EXCEPT !.step = "resolved"])
  BY DEF Resolve, noticeHistory, pageVars
<1>2. PICK s \in Steps : Becomes(n, [calls[n] EXCEPT !.step = s])
  BY <1>1 DEF Steps
<1>3. calls' \in [Calls -> CallRecords] /\ DoneKept
  BY <1>1, <1>2, Records, OneCall DEF Done
<1>4. invitation' \in [MemberOffers -> {None, "pending", "answered"}]
  BY <1>1 DEF TypeOK, RowsTypeOK
<1>5. TypeOK'
  BY <1>1, <1>3, <1>4 DEF TypeOK, RowsTypeOK
<1>6. CASE UNCHANGED invitation
  BY <1>1, <1>3, <1>5, <1>6, Undisturbed
<1>7. CASE /\ invitation' = [invitation EXCEPT ![o] = "answered"]
           /\ Becomes(n, [calls[n] EXCEPT !.step = "resolved"])
  <2>1. Done(n)' /\ calls'[n].of = o
    BY <1>7, Records DEF Becomes, Done, TypeOK, CallRecords
  <2>2. NoticesCanBeCleared'
    <3> SUFFICES ASSUME NEW x \in UnreadNotices' \ (late' \cup unmarked')
                 PROVE  invitation'[x] = "pending" \/ \E k \in Calls : calls'[k].of = x /\ Done(k)'
      BY DEF NoticesCanBeCleared, Done
    <3>1. x \in MemberOffers /\ x \in UnreadNotices \ (late \cup unmarked)
      BY <1>1 DEF UnreadNotices
    <3>2. invitation[x] = "pending" \/ \E k \in Calls : calls[k].of = x /\ Done(k)
      BY <3>1 DEF NoticesCanBeCleared, Done
    <3>3. CASE x = o
      BY <3>3, <2>1
    <3>4. CASE x # o
      <4>1. invitation'[x] = invitation[x] BY <3>1, <3>4, <1>7 DEF TypeOK, RowsTypeOK
      <4> QED BY <4>1, <3>2, <1>3 DEF DoneKept
    <3> QED BY <3>3, <3>4
  <2> QED BY <2>2, <1>5
<1> QED BY <1>1, <1>6, <1>7

\* Marking the notice clears that one; the others keep the requests that will clear them.
LEMMA MarkKeeps == ASSUME CInv, NEW n \in Calls, MarkNotice(n) PROVE CInv'
<1> DEFINE o == calls[n].of
<1> USE DEF CInv
<1>1. /\ UNCHANGED <<mention, invitation, late, unmarked, panel>>
      /\ Becomes(n, [calls[n] EXCEPT !.step = "answered"])
      /\ notice' = IF notice[o] = "unread" THEN [notice EXCEPT ![o] = "read"] ELSE notice
  BY DEF MarkNotice, noticeHistory, pageVars
<1>2. [calls[n] EXCEPT !.step = "answered"] \in CallRecords
  BY Records DEF Steps
<1>3. /\ calls' \in [Calls -> CallRecords]
      /\ \A k \in Calls \ {n} : calls'[k] = calls[k]
  BY <1>1, <1>2 DEF TypeOK, Becomes
<1>4. /\ notice' \in [MemberOffers -> {None, "unread", "read"}]
      /\ UnreadNotices' \subseteq UnreadNotices \ {o}
  BY <1>1 DEF TypeOK, RowsTypeOK, UnreadNotices
<1>5. TypeOK'
  BY <1>1, <1>3, <1>4 DEF TypeOK, RowsTypeOK
<1>6. NoticesCanBeCleared'
  <2> SUFFICES ASSUME NEW x \in UnreadNotices' \ (late' \cup unmarked')
               PROVE  invitation'[x] = "pending" \/ \E k \in Calls : calls'[k].of = x /\ Done(k)'
    BY DEF NoticesCanBeCleared, Done
  <2>1. x # o /\ x \in UnreadNotices \ (late \cup unmarked)
    BY <1>1, <1>4
  <2>2. invitation[x] = "pending" \/ \E k \in Calls : calls[k].of = x /\ Done(k)
    BY <2>1 DEF NoticesCanBeCleared, Done
  <2> QED BY <2>1, <2>2, <1>1, <1>3 DEF Done
<1> QED BY <1>5, <1>6

\* A failure after the answer spares the notice, and is remembered.
LEMMA FailKeeps == ASSUME CInv, NEW n \in Calls, Fail(n) PROVE CInv'
<1> DEFINE o == calls[n].of
           c == [Send(calls[n].kind, o) EXCEPT !.step = "failed", !.mine = calls[n].mine]
<1> USE DEF CInv
<1>1. /\ UNCHANGED <<mention, invitation, notice, late, panel>> /\ Becomes(n, c)
      /\ unmarked' = IF Done(n) THEN unmarked \cup {o} ELSE unmarked
  BY DEF Fail, rowVars, pageVars, Done
<1>2. calls[n] \in CallRecords
  BY DEF TypeOK
<1>3. c \in CallRecords
  <2>1. Send(calls[n].kind, o) \in CallRecords BY <1>2, Sent DEF CallRecords
  <2> QED BY <2>1, <1>2 DEF CallRecords, Steps
<1>4. /\ calls' \in [Calls -> CallRecords]
      /\ \A k \in Calls \ {n} : calls'[k] = calls[k]
  BY <1>1, <1>3 DEF TypeOK, Becomes
<1>5. TypeOK'
  BY <1>1, <1>4 DEF TypeOK, RowsTypeOK
<1>6. NoticesCanBeCleared'
  <2> SUFFICES ASSUME NEW x \in UnreadNotices' \ (late' \cup unmarked')
               PROVE  invitation'[x] = "pending" \/ \E k \in Calls : calls'[k].of = x /\ Done(k)'
    BY DEF NoticesCanBeCleared, Done
  <2>1. x \in UnreadNotices \ (late \cup unmarked) /\ (Done(n) => x # o)
    BY <1>1 DEF UnreadNotices
  <2>2. invitation[x] = "pending" \/ \E k \in Calls : calls[k].of = x /\ Done(k)
    BY <2>1 DEF NoticesCanBeCleared, Done
  <2> QED BY <2>1, <2>2, <1>1, <1>4 DEF Done
<1> QED BY <1>5, <1>6

------------------------------------------------------------------------------
\* Requests whose panel is gone are otherwise the same.
LEMMA UnmountedKeeps ==
    ASSUME TypeOK, calls' = Unmounted
    PROVE  calls' \in [Calls -> CallRecords] /\ DoneKept
<1>1. \A k \in Calls : calls[k] \in CallRecords
  BY DEF TypeOK
<1>2. \A k \in Calls : /\ [calls[k] EXCEPT !.mine = FALSE] \in CallRecords
                       /\ [calls[k] EXCEPT !.mine = FALSE].step = calls[k].step
                       /\ [calls[k] EXCEPT !.mine = FALSE].of = calls[k].of
  BY <1>1 DEF CallRecords
<1> QED BY <1>2 DEF Unmounted, DoneKept, Done

\* A request that is made takes the place of none.
LEMMA UnusedIsNotDone == ASSUME NEW n \in Unused PROVE n \in Calls /\ ~Done(n)
BY DEF Unused, NoCall, None, Done

\* What the browser does changes no row, and no request that is not answered.
LEMMA BrowserCalls ==
    ASSUME CInv, Browser PROVE calls' \in [Calls -> CallRecords] /\ DoneKept
<1> USE DEF CInv
<1>1. \A k \in Calls : calls[k] \in CallRecords
  BY DEF TypeOK
<1>2. /\ {"summary", "list", "recount", "offers", "open", "navigate", "markAll"} \subseteq Kinds
      /\ Responses \subseteq Kinds
      /\ None \in Subjects /\ Mentions \subseteq Subjects /\ MemberOffers \subseteq Subjects
  BY DEF Kinds, Counting, Subjects
<1>3. CASE \E x \in Mentions \cup MemberOffers : Hear(x)
  <2>1. PICK n \in Unused : Becomes(n, Send("summary", None))
    BY <1>3 DEF Hear
  <2> QED BY <2>1, <1>2, Sent, UnusedIsNotDone, OneCall
<1>4. CASE OpenPanel
  <2>1. PICK n \in Unused, k \in Unused :
          calls' = [calls EXCEPT ![n] = Send("list", None), ![k] = Send("offers", None)]
    BY <1>4 DEF OpenPanel
  <2>2. Send("list", None) \in CallRecords /\ Send("offers", None) \in CallRecords
    BY <1>2, Sent
  <2>3. n \in Calls /\ k \in Calls /\ ~Done(n) /\ ~Done(k)
    BY UnusedIsNotDone
  <2>4. \A j \in Calls : Done(j) => calls'[j] = calls[j]
    BY <2>1, <2>3 DEF TypeOK
  <2> QED BY <2>1, <2>2, <2>4 DEF TypeOK, DoneKept, Done
<1>5. CASE ClosePanel
  BY <1>5, UnmountedKeeps DEF ClosePanel
<1>6. CASE ClickMarkAll
  <2>1. PICK n \in Unused :
          Becomes(n, [Send("markAll", None) EXCEPT !.invitations = panel.invitations])
    BY <1>6 DEF ClickMarkAll
  <2>2. Send("markAll", None) \in CallRecords /\ panel.invitations \in Nat
    BY <1>2, Sent DEF TypeOK, PanelRecords
  <2>3. [Send("markAll", None) EXCEPT !.invitations = panel.invitations] \in CallRecords
    BY <2>2 DEF CallRecords
  <2> QED BY <2>1, <2>3, UnusedIsNotDone, OneCall
<1>7. ASSUME NEW o \in MemberOffers, NEW kind \in Responses, ClickRespond(o, kind)
      PROVE  calls' \in [Calls -> CallRecords] /\ DoneKept
  <2>1. PICK n \in Unused : Becomes(n, Send(kind, o))
    BY <1>7 DEF ClickRespond
  <2> QED BY <2>1, <1>2, Sent, UnusedIsNotDone, OneCall
<1>8. ASSUME NEW m \in Mentions, ClickMention(m)
      PROVE  calls' \in [Calls -> CallRecords] /\ DoneKept
  <2>1. PICK n \in Unused, kind \in {"open", "navigate"} : Becomes(n, Send(kind, m))
    BY <1>8 DEF ClickMention
  <2> QED BY <2>1, <1>2, Sent, UnusedIsNotDone, OneCall
<1>9. ASSUME NEW n \in Calls, Answered(n) \/ OffersListed(n) \/ Responded(n) \/ Failed(n)
      PROVE  calls' \in [Calls -> CallRecords] /\ DoneKept
  <2>1. ~Done(n) /\ NoCall \in CallRecords
    BY <1>2, <1>9, Sent DEF Answered, OffersListed, Responded, Failed, Done
  <2>2. [Send("recount", None) EXCEPT !.mine = calls[n].mine] \in CallRecords
    <3>1. Send("recount", None) \in CallRecords BY <1>2, Sent
    <3> QED BY <3>1, <1>1 DEF CallRecords
  <2>3. Becomes(n, NoCall) \/ Becomes(n, [Send("recount", None) EXCEPT !.mine = calls[n].mine])
    BY <1>9 DEF Answered, OffersListed, Responded, Failed
  <2> QED BY <2>1, <2>2, <2>3, OneCall
<1>10. ASSUME NEW n \in Calls, Marked(n)
       PROVE  calls' \in [Calls -> CallRecords] /\ DoneKept
  <2>1. ~Done(n) /\ calls[n].of \in Subjects
    BY <1>1, <1>10 DEF Marked, Done, CallRecords
  <2>2. CASE Becomes(n, Send("summary", None))
    BY <2>1, <2>2, <1>2, Sent, OneCall
  <2>3. CASE calls' = [Unmounted EXCEPT ![n] = Send("navigate", calls[n].of)]
    <3>1. Send("navigate", calls[n].of) \in CallRecords
      BY <2>1, <1>2, Sent
    <3>2. \A k \in Calls : /\ Unmounted[k] \in CallRecords
                           /\ Unmounted[k].step = calls[k].step /\ Unmounted[k].of = calls[k].of
      BY <1>1 DEF Unmounted, CallRecords
    <3>3. Unmounted \in [Calls -> CallRecords]
      BY <3>2 DEF Unmounted
    <3> QED BY <2>1, <2>3, <3>1, <3>2, <3>3 DEF DoneKept, Done
  <2> QED BY <1>10, <2>2, <2>3 DEF Marked
<1> QED BY <1>3, <1>4, <1>5, <1>6, <1>7, <1>8, <1>9, <1>10 DEF Browser

\* The panel's state keeps its type, whatever the browser does.
LEMMA BrowserPanel == ASSUME TypeOK, Browser PROVE panel' \in PanelRecords
<1>1. panel \in PanelRecords /\ Opened \in PanelRecords /\ Closed \in PanelRecords
  BY DEF TypeOK, Opened, Closed, PanelRecords
<1>2. \A n \in Calls : /\ calls[n].mentions \in Nat /\ calls[n].invitations \in Nat
                       /\ calls[n].rows \subseteq Subjects
  BY DEF TypeOK, CallRecords
<1>3. CASE \/ \E x \in Mentions \cup MemberOffers : Hear(x)
           \/ OpenPanel \/ ClosePanel \/ ClickMarkAll
           \/ \E o \in MemberOffers, kind \in Responses : ClickRespond(o, kind)
           \/ \E m \in Mentions : ClickMention(m)
  BY <1>1, <1>3 DEF Hear, OpenPanel, ClosePanel, ClickMarkAll, ClickRespond, ClickMention,
                    pageVars
<1>4. ASSUME NEW n \in Calls, Answered(n) PROVE panel' \in PanelRecords
  <2>1. \/ panel' = panel
        \/ \E r \in SUBSET Subjects :
              panel' = [panel EXCEPT !.mentions = calls[n].mentions,
                                     !.invitations = calls[n].invitations, !.rows = r]
    BY <1>1, <1>2, <1>4 DEF Answered, PanelRecords
  <2> QED BY <2>1, <1>1, <1>2 DEF PanelRecords
<1>5. ASSUME NEW n \in Calls, OffersListed(n) \/ Responded(n) \/ Failed(n)
      PROVE  panel' \in PanelRecords
  <2>1. \/ panel' = panel
        \/ \E r \in SUBSET Subjects : panel' = [panel EXCEPT !.offers = r]
    BY <1>1, <1>2, <1>5 DEF OffersListed, Responded, Failed, PanelRecords
  <2> QED BY <2>1, <1>1 DEF PanelRecords
<1>6. ASSUME NEW n \in Calls, Marked(n) PROVE panel' \in PanelRecords
  BY <1>1, <1>6 DEF Marked
<1> QED BY <1>3, <1>4, <1>5, <1>6 DEF Browser

\* The browser's steps keep the invariant.
LEMMA BrowserKeeps == ASSUME CInv, Browser PROVE CInv'
<1> USE DEF CInv
<1>1. UNCHANGED <<mention, invitation, notice, late, unmarked>>
  BY DEF Browser, Hear, OpenPanel, ClosePanel, ClickMarkAll, ClickRespond, ClickMention,
         Answered, OffersListed, Marked, Responded, Failed, rowVars, noticeHistory
<1>2. TypeOK'
  BY <1>1, BrowserCalls, BrowserPanel DEF TypeOK, RowsTypeOK
<1> QED BY <1>1, <1>2, BrowserCalls, Undisturbed

------------------------------------------------------------------------------
\* The invariant is inductive.
THEOREM NoticesInvariance == Spec => []CInv
<1>1. CInv /\ [Next]_vars => CInv'
  <2> SUFFICES ASSUME CInv, [Next]_vars PROVE CInv'
    OBVIOUS
  <2>1. CASE Others
    BY <2>1, OthersKeep
  <2>2. ASSUME NEW n \in Calls,
               \/ CountMentions(n) \/ CountNotices(n) \/ ListOffers(n) \/ MarkRead(n)
               \/ MarkAllRead(n)
        PROVE  CInv'
    BY <2>2, ReadersKeep
  <2>3. ASSUME NEW n \in Calls, Resolve(n) \/ MarkNotice(n) \/ Fail(n) PROVE CInv'
    BY <2>3, ResolveKeeps, MarkKeeps, FailKeeps
  <2>4. CASE Browser
    BY <2>4, BrowserKeeps
  <2>5. CASE UNCHANGED vars
    BY <2>5 DEF vars, rowVars, pageVars, noticeHistory, CInv, TypeOK, RowsTypeOK,
                NoticesCanBeCleared, UnreadNotices
  <2> QED BY <2>1, <2>2, <2>3, <2>4, <2>5 DEF Next, Routes
<1> QED BY <1>1, NotificationsInit, PTL DEF Spec

\* The tables and the requests in flight keep their types.
THEOREM TypeCorrect == Spec => []TypeOK
BY NoticesInvariance, PTL DEF CInv

\* A notice that counts as unread belongs to an offer that can still be answered, or is
\* about to be marked, unless it was filed after the answer or spared by a failure.
THEOREM NoticesAreCleared == Spec => []NoticesCanBeCleared
BY NoticesInvariance, PTL DEF CInv

------------------------------------------------------------------------------
(* The badge.  What a request still has to do: Asks(n), it will begin another *)
(* count; Stirring, a count is still to come that includes every change.      *)

Asks(n) ==
    \/ calls[n].kind \in Counting /\ calls[n].step = "sent"
    \/ calls[n].kind \in Responses \cup {"open"} /\ calls[n].step = "answered"
    \/ calls[n].kind = "navigate" /\ calls[n].step # None

Stirring == frames # {} \/ \E n \in Calls : Asks(n)

UpToDate == ~unheard /\ ~Stirring

MentionsNow == Cardinality(UnreadMentions)
NoticesNow == Cardinality(UnreadNotices)

(* Which request can be where, and that one count at most is the latest, which *)
(* the badge does not come from yet.                                           *)
KindsOK ==
    /\ \A n \in Calls : calls[n].step = "counted" => calls[n].kind \in Counting
    /\ \A n \in Calls : calls[n].step = "resolved" => calls[n].kind \in Responses

LatestOK ==
    \A n \in Calls : calls[n].latest => ~current /\ \A k \in Calls : calls[k].latest => k = n

(* The latest count, while nothing changes that it does not include, is what  *)
(* there is; so is the badge that comes from it.                              *)
LatestIsTrue ==
    \A n \in Calls : calls[n].latest /\ calls[n].kind \in Counting /\ UpToDate =>
        /\ calls[n].step \in {"counted", "answered"} => calls[n].mentions = MentionsNow
        /\ calls[n].step = "answered" => calls[n].invitations = NoticesNow

BadgeFollows == current /\ ~guessed /\ UpToDate => badge = MentionsNow + NoticesNow

BadgeInv == KindsOK /\ LatestOK /\ LatestIsTrue /\ BadgeFollows

------------------------------------------------------------------------------
(* A record d that takes the place of c, of the latest count only if it is c still. *)
SameCount(c, d) ==
    d.latest => /\ c.latest /\ c.kind = d.kind
                /\ c.kind \in Counting =>
                      c.step = d.step /\ c.mentions = d.mentions /\ c.invitations = d.invitations

CountsKept == \A k \in Calls : SameCount(calls[k], calls'[k])

\* A step that shows nothing, counts nothing and forgets no request that will.
LEMMA Quiet ==
    ASSUME BadgeInv, CountsKept, KindsOK', UpToDate' => UpToDate,
           UNCHANGED <<mention, inChannel, notice, badge, current, guessed>>
    PROVE  BadgeInv'
<1>1. MentionsNow' = MentionsNow /\ NoticesNow' = NoticesNow
  BY DEF MentionsNow, NoticesNow, UnreadMentions, UnreadNotices, Visible
<1>2. LatestOK'
  BY DEF BadgeInv, LatestOK, CountsKept, SameCount
<1>3. LatestIsTrue'
  BY <1>1 DEF BadgeInv, LatestIsTrue, CountsKept, SameCount
<1> QED BY <1>1, <1>2, <1>3 DEF BadgeInv, BadgeFollows

\* A step after which a count is still to come, or never.
LEMMA Disturbing ==
    ASSUME BadgeInv, CountsKept, KindsOK', ~UpToDate', current' = current
    PROVE  BadgeInv'
BY DEF BadgeInv, LatestOK, CountsKept, SameCount, LatestIsTrue, BadgeFollows

\* A request that was just made, and none, are of no count yet.
LEMMA SentCounts ==
    ASSUME NEW kind, NEW x
    PROVE  /\ Send(kind, x).kind = kind /\ Send(kind, x).step = "sent" /\ ~Send(kind, x).latest
           /\ NoCall.kind = None /\ NoCall.step = None /\ ~NoCall.latest
           /\ \A b : /\ [Send(kind, x) EXCEPT !.mine = b].kind = kind
                     /\ [Send(kind, x) EXCEPT !.mine = b].step = "sent"
                     /\ ~[Send(kind, x) EXCEPT !.mine = b].latest
           /\ \A b : /\ [Send(kind, x) EXCEPT !.invitations = b].kind = kind
                     /\ [Send(kind, x) EXCEPT !.invitations = b].step = "sent"
                     /\ ~[Send(kind, x) EXCEPT !.invitations = b].latest
           /\ \A b : /\ [Send(kind, x) EXCEPT !.step = "failed", !.mine = b].kind = kind
                     /\ [Send(kind, x) EXCEPT !.step = "failed", !.mine = b].step = "failed"
                     /\ ~[Send(kind, x) EXCEPT !.step = "failed", !.mine = b].latest
BY DEF Send, NoCall

(* A record that can take a place.                                            *)
Fits(c) ==
    /\ c.step = "counted" => c.kind \in Counting
    /\ c.step = "resolved" => c.kind \in Responses

\* One request becomes another.
LEMMA OneBecomes ==
    ASSUME TypeOK, KindsOK, NEW n \in Calls, NEW c, Becomes(n, c), Fits(c),
           SameCount(calls[n], c)
    PROVE  /\ CountsKept /\ KindsOK' /\ calls'[n] = c
           /\ \A k \in Calls \ {n} : calls'[k] = calls[k] /\ Asks(k)' = Asks(k)
<1>1. calls' = [calls EXCEPT ![n] = c]
  BY DEF Becomes
<1>2. calls'[n] = c /\ \A k \in Calls \ {n} : calls'[k] = calls[k]
  BY <1>1 DEF TypeOK
<1>3. \A k \in Calls \ {n} : Asks(k)' = Asks(k)
  BY <1>2 DEF Asks
<1>4. CountsKept
  <2>1. ASSUME NEW k \in Calls \ {n} PROVE SameCount(calls[k], calls'[k])
    BY <1>2 DEF SameCount
  <2> QED BY <1>2, <2>1 DEF CountsKept
<1>5. KindsOK'
  BY <1>2 DEF KindsOK, Fits
<1> QED BY <1>2, <1>3, <1>4, <1>5

\* ... that asks too, or whose answer is known to have failed.
LEMMA QuietCall ==
    ASSUME TypeOK, BadgeInv, NEW n \in Calls, NEW c, Becomes(n, c), Fits(c),
           SameCount(calls[n], c), Asks(n) => Asks(n)' \/ unheard', frames \subseteq frames',
           unheard => unheard',
           UNCHANGED <<mention, inChannel, notice, badge, current, guessed>>
    PROVE  BadgeInv'
<1>1. /\ CountsKept /\ KindsOK'
      /\ \A k \in Calls \ {n} : Asks(k)' = Asks(k)
  BY OneBecomes DEF BadgeInv
<1>2. UpToDate' => UpToDate
  BY <1>1 DEF UpToDate, Stirring
<1> QED BY <1>1, <1>2, Quiet

\* At first the one count there is has not begun.
LEMMA BadgeInit == Init => BadgeInv
<1> SUFFICES ASSUME Init PROVE BadgeInv
  OBVIOUS
<1>1. PICK n \in Calls : calls = [k \in Calls |-> IF k = n THEN Send("summary", None) ELSE NoCall]
  BY DEF Init
<1>2. \A k \in Calls : /\ ~calls[k].latest
                       /\ calls[k].step \notin {"counted", "resolved"}
  BY <1>1, SentCounts DEF None
<1> QED BY <1>2 DEF Init, BadgeInv, KindsOK, LatestOK, LatestIsTrue, BadgeFollows

\* What others do is announced by a frame, or known to be unheard.
LEMMA OthersKeepBadge == ASSUME TypeOK, BadgeInv, Others PROVE BadgeInv'
<1>1. UNCHANGED <<calls, badge, current, guessed>>
  BY DEF Others, FileMention, Offer, FileNotice, ChangeMembership, Disconnect, Reconnect,
         pageVars, badgeHistory
<1>2. CountsKept /\ KindsOK' /\ \A n \in Calls : Asks(n)' = Asks(n)
  BY <1>1 DEF CountsKept, SameCount, BadgeInv, KindsOK, Asks
<1>3. CASE \/ \E m \in Mentions : FileMention(m)
           \/ \E o \in MemberOffers : FileNotice(o)
           \/ ChangeMembership
  <2>1. unheard' \/ frames' # {}
    BY <1>3 DEF FileMention, FileNotice, ChangeMembership, Push
  <2> QED BY <2>1, <1>1, <1>2, Disturbing DEF UpToDate, Stirring
<1>4. CASE (\E o \in MemberOffers : Offer(o)) \/ Disconnect \/ Reconnect
  <2>1. UNCHANGED <<mention, inChannel, notice>>
    BY <1>4 DEF Offer, Disconnect, Reconnect, rowVars
  <2>2. (unheard => unheard') /\ (unheard' \/ frames' = frames)
    <3>1. CASE Disconnect
      <4>1. unheard' = (unheard \/ frames # {}) /\ frames' = {} BY <3>1 DEF Disconnect
      <4> QED BY <4>1
    <3>2. CASE (\E o \in MemberOffers : Offer(o)) \/ Reconnect
      BY <3>2 DEF Offer, Reconnect, badgeHistory
    <3> QED BY <1>4, <3>1, <3>2
  <2>3. UpToDate' => UpToDate
    BY <2>2, <1>2 DEF UpToDate, Stirring
  <2> QED BY <2>1, <2>3, <1>1, <1>2, Quiet
<1> QED BY <1>3, <1>4 DEF Others

\* A count that begins is the latest, and knows the mentions there are.
LEMMA CountKeepsBadge == ASSUME TypeOK, BadgeInv, NEW n \in Calls, CountMentions(n) PROVE BadgeInv'
<1> PICK c : /\ BeginsLast(n, c) /\ c \in CallRecords /\ c.step = "counted"
             /\ c.kind \in Counting /\ c.mentions = MentionsNow
  <2>1. calls[n] \in CallRecords /\ calls[n].kind \in Counting BY DEF TypeOK, CountMentions
  <2>2. PICK r \in SUBSET Subjects :
           BeginsLast(n, [calls[n] EXCEPT !.step = "counted", !.mentions = MentionsNow, !.rows = r])
    BY DEF CountMentions, MentionsNow, Visible, Subjects
  <2>3. MentionsNow \in Nat /\ "counted" \in Steps
    BY Counts DEF MentionsNow, Steps
  <2> DEFINE d == [calls[n] EXCEPT !.step = "counted", !.mentions = MentionsNow, !.rows = r]
  <2>4. d \in CallRecords /\ d.step = "counted" /\ d.kind \in Counting /\ d.mentions = MentionsNow
    BY <2>1, <2>3 DEF CallRecords
  <2> QED BY <2>2, <2>4
<1>1. /\ MentionsNow' = MentionsNow /\ ~current'
  BY DEF CountMentions, rowVars, BeginsLast, MentionsNow, UnreadMentions, Visible
<1>2. calls' = [k \in Calls |-> IF k = n THEN [c EXCEPT !.latest = TRUE]
                                ELSE [calls[k] EXCEPT !.latest = FALSE]]
  BY DEF BeginsLast
<1>3. /\ calls'[n].step = "counted" /\ calls'[n].kind \in Counting
      /\ calls'[n].mentions = MentionsNow
  BY <1>2 DEF CallRecords
<1>4. \A k \in Calls \ {n} : /\ ~calls'[k].latest /\ calls'[k].step = calls[k].step
                             /\ calls'[k].kind = calls[k].kind
  BY <1>2 DEF TypeOK, CallRecords
<1>5. KindsOK'
  BY <1>3, <1>4 DEF BadgeInv, KindsOK, Counting, Responses
<1> QED BY <1>1, <1>3, <1>4, <1>5 DEF BadgeInv, LatestOK, LatestIsTrue, BadgeFollows

\* So is markAllRead, whose answer is a guess.
LEMMA MarkAllKeepsBadge == ASSUME TypeOK, BadgeInv, NEW n \in Calls, MarkAllRead(n) PROVE BadgeInv'
<1> DEFINE c == [calls[n] EXCEPT !.step = "answered"]
<1>1. c \in CallRecords /\ c.step = "answered" /\ c.kind = "markAll"
  <2>1. calls[n] \in CallRecords /\ calls[n].kind = "markAll" /\ "answered" \in Steps
    BY DEF MarkAllRead, TypeOK, Steps
  <2> QED BY <2>1 DEF CallRecords
<1>2. /\ ~current'
      /\ calls' = [k \in Calls |-> IF k = n THEN [c EXCEPT !.latest = TRUE]
                                   ELSE [calls[k] EXCEPT !.latest = FALSE]]
  BY DEF MarkAllRead, BeginsLast
<1>3. calls'[n].step = "answered" /\ calls'[n].kind = "markAll"
  BY <1>1, <1>2 DEF CallRecords
<1>4. \A k \in Calls \ {n} : /\ ~calls'[k].latest /\ calls'[k].step = calls[k].step
                             /\ calls'[k].kind = calls[k].kind
  BY <1>2 DEF TypeOK, CallRecords
<1>5. KindsOK'
  BY <1>3, <1>4 DEF BadgeInv, KindsOK
<1> QED BY <1>2, <1>3, <1>4, <1>5 DEF BadgeInv, LatestOK, LatestIsTrue, BadgeFollows, Counting

\* The second statement of a count knows the notices there are.
LEMMA NoticesKeepBadge == ASSUME TypeOK, BadgeInv, NEW n \in Calls, CountNotices(n) PROVE BadgeInv'
<1> DEFINE c == [calls[n] EXCEPT !.step = "answered", !.invitations = NoticesNow]
<1>1. /\ calls[n].step = "counted" /\ calls[n].kind \in Counting /\ Becomes(n, c)
      /\ UNCHANGED <<mention, inChannel, notice, badge, current, guessed, unheard, frames>>
  BY DEF CountNotices, NoticesNow, BadgeInv, KindsOK, rowVars, pageVars, badgeHistory
<1>2. /\ c.step = "answered" /\ c.kind = calls[n].kind /\ c.latest = calls[n].latest
      /\ c.mentions = calls[n].mentions /\ c.invitations = NoticesNow
  BY DEF TypeOK, CallRecords
<1>3. calls'[n] = c /\ \A k \in Calls \ {n} : calls'[k] = calls[k]
  BY <1>1 DEF Becomes, TypeOK
<1>4. ~Asks(n) /\ \A k \in Calls \ {n} : Asks(k)' = Asks(k)
  BY <1>1, <1>3 DEF Asks, Counting, Responses
<1>5. UpToDate' => UpToDate
  BY <1>1, <1>4 DEF UpToDate, Stirring
<1>6. MentionsNow' = MentionsNow /\ NoticesNow' = NoticesNow
  BY <1>1 DEF MentionsNow, NoticesNow, UnreadMentions, UnreadNotices, Visible
<1>7. KindsOK' /\ LatestOK'
  BY <1>1, <1>2, <1>3 DEF BadgeInv, KindsOK, LatestOK
<1>8. LatestIsTrue'
  <2>1. ASSUME NEW k \in Calls, k # n, calls'[k].latest, calls'[k].kind \in Counting, UpToDate'
        PROVE  /\ calls'[k].step \in {"counted", "answered"} => calls'[k].mentions = MentionsNow
               /\ calls'[k].step = "answered" => calls'[k].invitations = NoticesNow
    BY <2>1, <1>3, <1>5 DEF BadgeInv, LatestIsTrue
  <2>2. ASSUME calls'[n].latest, UpToDate'
        PROVE  calls'[n].mentions = MentionsNow /\ calls'[n].invitations = NoticesNow
    BY <2>2, <1>1, <1>2, <1>3, <1>5 DEF BadgeInv, LatestIsTrue
  <2> QED BY <2>1, <2>2, <1>6 DEF LatestIsTrue
<1> QED BY <1>1, <1>5, <1>6, <1>7, <1>8 DEF BadgeInv, BadgeFollows

\* The other routes: what they mark, their caller will ask about.
LEMMA RoutesKeepBadge ==
    ASSUME TypeOK, BadgeInv, NEW n \in Calls,
           ListOffers(n) \/ MarkRead(n) \/ Resolve(n) \/ MarkNotice(n)
    PROVE  BadgeInv'
<1>1. UNCHANGED <<badge, current, guessed, unheard, frames>>
  BY DEF ListOffers, MarkRead, Resolve, MarkNotice, pageVars, badgeHistory
<1>2. calls[n].kind \notin Counting
  BY DEF ListOffers, MarkRead, Resolve, MarkNotice, BadgeInv, KindsOK, Counting, Responses
<1>3. PICK c : /\ Becomes(n, c) /\ c.kind = calls[n].kind /\ c.latest = calls[n].latest /\ Fits(c)
               /\ \/ /\ c.step = "answered" /\ calls[n].kind \in Responses \cup {"open", "navigate"}
                  \/ /\ UNCHANGED <<mention, inChannel, notice>>
                     /\ c.step # None /\ (calls[n].kind = "offers" \/ calls[n].step = "sent")
  <2>0. calls[n] \in CallRecords
    BY DEF TypeOK
  <2>1. CASE ListOffers(n)
    <3> DEFINE c == [calls[n] EXCEPT !.step = "answered",
                                     !.rows = {o \in MemberOffers : invitation[o] = "pending"}]
    <3>1. c.kind = calls[n].kind /\ c.latest = calls[n].latest /\ c.step = "answered"
      BY <2>0 DEF CallRecords
    <3> QED BY <2>1, <3>1 DEF ListOffers, rowVars, Fits, None
  <2>2. CASE MarkRead(n)
    <3>1. \A s : /\ [calls[n] EXCEPT !.step = s].kind = calls[n].kind
                 /\ [calls[n] EXCEPT !.step = s].latest = calls[n].latest
                 /\ [calls[n] EXCEPT !.step = s].step = s
      BY <2>0 DEF CallRecords
    <3>2. CASE calls[n].of \in Visible
      <4>1. Becomes(n, [calls[n] EXCEPT !.step = "answered"]) BY <2>2, <3>2 DEF MarkRead
      <4> QED BY <4>1, <3>1, <2>2 DEF MarkRead, Fits
    <3>3. CASE calls[n].of \notin Visible
      <4> DEFINE c == [calls[n] EXCEPT !.step = "failed"]
      <4>1. /\ Becomes(n, c)
            /\ UNCHANGED <<mention, inChannel, notice>> /\ calls[n].step = "sent"
        BY <2>2, <3>3 DEF MarkRead
      <4>2. c.kind = calls[n].kind /\ c.latest = calls[n].latest /\ c.step = "failed"
        BY <3>1
      <4> HIDE DEF c
      <4> QED BY <4>1, <4>2 DEF Fits, None
    <3> QED BY <3>2, <3>3
  <2>3. CASE Resolve(n)
    <3>1. PICK s \in {"failed", "resolved"} : Becomes(n, [calls[n] EXCEPT !.step = s])
      BY <2>3 DEF Resolve
    <3>2. LET c == [calls[n] EXCEPT !.step = s]
          IN  c.kind = calls[n].kind /\ c.latest = calls[n].latest /\ c.step = s
      BY <2>0 DEF CallRecords
    <3> QED BY <2>3, <3>1, <3>2 DEF Resolve, Fits, None
  <2>4. CASE MarkNotice(n)
    <3>1. LET c == [calls[n] EXCEPT !.step = "answered"]
          IN  c.kind = calls[n].kind /\ c.latest = calls[n].latest /\ c.step = "answered"
      BY <2>0 DEF CallRecords
    <3> QED BY <2>4, <3>1 DEF MarkNotice, BadgeInv, KindsOK, Fits
  <2> QED BY <2>1, <2>2, <2>3, <2>4
<1>4. SameCount(calls[n], c)
  BY <1>2, <1>3 DEF SameCount
<1>5. /\ CountsKept /\ KindsOK' /\ calls'[n] = c
      /\ \A k \in Calls \ {n} : Asks(k)' = Asks(k)
  BY <1>3, <1>4, OneBecomes DEF BadgeInv
<1>6. CASE c.step = "answered" /\ calls[n].kind \in Responses \cup {"open", "navigate"}
  <2>1. Asks(n)'
    BY <1>3, <1>5, <1>6 DEF Asks, None
  <2> QED BY <2>1, <1>1, <1>5, Disturbing DEF UpToDate, Stirring
<1>7. CASE /\ UNCHANGED <<mention, inChannel, notice>>
           /\ c.step # None /\ (calls[n].kind = "offers" \/ calls[n].step = "sent")
  <2>1. Asks(n) => Asks(n)'
    BY <1>2, <1>3, <1>5, <1>7 DEF Asks, Counting, Responses
  <2> QED BY <2>1, <1>1, <1>3, <1>4, <1>7, QuietCall
<1> QED BY <1>3, <1>6, <1>7

\* A failure after something changed is known to be unheard.
LEMMA FailKeepsBadge == ASSUME TypeOK, BadgeInv, NEW n \in Calls, Fail(n) PROVE BadgeInv'
<1> DEFINE c == [Send(calls[n].kind, calls[n].of) EXCEPT !.step = "failed", !.mine = calls[n].mine]
<1>1. /\ Becomes(n, c)
      /\ UNCHANGED <<mention, inChannel, notice, badge, current, guessed, frames>>
      /\ unheard' = (unheard \/ calls[n].step = "answered"
                             \/ (calls[n].step = "sent" /\ calls[n].kind \in Counting))
  BY DEF Fail, rowVars, pageVars
<1>2. c.kind = calls[n].kind /\ c.step = "failed" /\ ~c.latest
  BY SentCounts
<1>3. Fits(c) /\ SameCount(calls[n], c)
  BY <1>2 DEF Fits, SameCount
<1>4. calls'[n] = c
  BY <1>1, <1>3, OneBecomes DEF BadgeInv
<1>5. Asks(n) => Asks(n)' \/ unheard'
  BY <1>1, <1>2, <1>4 DEF Asks, None
<1> QED BY <1>1, <1>3, <1>5, QuietCall

\* What is asked for a closed panel is still asked.
LEMMA UnmountedCounts ==
    ASSUME TypeOK
    PROVE  \A k \in Calls : /\ Unmounted[k].kind = calls[k].kind
                            /\ Unmounted[k].step = calls[k].step
                            /\ Unmounted[k].latest = calls[k].latest
                            /\ Unmounted[k].mentions = calls[k].mentions
                            /\ Unmounted[k].invitations = calls[k].invitations
                            /\ SameCount(calls[k], Unmounted[k])
<1>1. \A k \in Calls : calls[k] \in CallRecords
  BY DEF TypeOK
<1>2. \A k \in Calls : Unmounted[k] = [calls[k] EXCEPT !.mine = FALSE]
  BY DEF Unmounted
<1>3. \A k \in Calls : /\ Unmounted[k].kind = calls[k].kind
                       /\ Unmounted[k].step = calls[k].step
                       /\ Unmounted[k].latest = calls[k].latest
                       /\ Unmounted[k].mentions = calls[k].mentions
                       /\ Unmounted[k].invitations = calls[k].invitations
  BY <1>1, <1>2 DEF CallRecords
<1> QED BY <1>3 DEF SameCount

\* A new request in place of none.
LEMMA ClickKeepsBadge ==
    ASSUME TypeOK, BadgeInv, NEW n \in Unused, NEW c, Becomes(n, c), c.step = "sent", ~c.latest,
           \/ frames \subseteq frames' \/ c.kind \in Counting,
           UNCHANGED <<mention, inChannel, notice, badge, current, guessed, unheard>>
    PROVE  BadgeInv'
<1>1. n \in Calls /\ calls[n].step = None /\ calls[n].kind = None
  BY SentCounts DEF Unused
<1>2. Fits(c) /\ SameCount(calls[n], c)
  BY DEF Fits, SameCount
<1>3. /\ CountsKept /\ KindsOK' /\ calls'[n] = c
  BY <1>1, <1>2, OneBecomes DEF BadgeInv
<1>4. CASE c.kind \in Counting
  <2>1. Asks(n)'
    BY <1>3, <1>4 DEF Asks
  <2> QED BY <2>1, <1>1, <1>3, Disturbing DEF UpToDate, Stirring
<1>5. CASE frames \subseteq frames'
  <2>1. ~Asks(n)
    BY <1>1 DEF Asks, None, Counting, Responses
  <2> QED BY <2>1, <1>1, <1>2, <1>5, QuietCall
<1> QED BY <1>4, <1>5

\* The badge takes an answer, of the latest count or not.
LEMMA AnsweredKeepsBadge == ASSUME TypeOK, BadgeInv, NEW n \in Calls, Answered(n) PROVE BadgeInv'
<1>1. /\ calls[n].step = "answered" /\ calls[n].kind \in Counting \cup {"markAll"}
      /\ badge' = calls[n].mentions + calls[n].invitations /\ current' = calls[n].latest
      /\ guessed' = (calls[n].kind = "markAll") /\ Becomes(n, NoCall)
      /\ UNCHANGED <<mention, inChannel, notice, frames, unheard>>
  BY DEF Answered, Show, rowVars
<1>2. NoCall.step = None /\ ~NoCall.latest /\ Fits(NoCall) /\ SameCount(calls[n], NoCall)
  BY SentCounts DEF Fits, SameCount, None
<1>3. /\ CountsKept /\ KindsOK' /\ calls'[n] = NoCall
      /\ \A k \in Calls \ {n} : calls'[k] = calls[k] /\ Asks(k)' = Asks(k)
  BY <1>1, <1>2, OneBecomes DEF BadgeInv
<1>4. ~Asks(n)
  BY <1>1 DEF Asks, Counting, Responses
<1>5. UpToDate' => UpToDate
  BY <1>1, <1>3, <1>4 DEF UpToDate, Stirring
<1>6. MentionsNow' = MentionsNow /\ NoticesNow' = NoticesNow
  BY <1>1 DEF MentionsNow, NoticesNow, UnreadMentions, UnreadNotices, Visible
<1>7. LatestOK'
  BY <1>1, <1>2, <1>3 DEF BadgeInv, LatestOK
<1>8. LatestIsTrue'
  BY <1>2, <1>3, <1>5, <1>6 DEF BadgeInv, LatestIsTrue
<1>9. BadgeFollows'
  <2>1. ASSUME current', ~guessed', UpToDate'
        PROVE  calls[n].mentions = MentionsNow /\ calls[n].invitations = NoticesNow
    BY <2>1, <1>1, <1>5 DEF BadgeInv, LatestIsTrue
  <2> QED BY <2>1, <1>1, <1>6 DEF BadgeFollows
<1> QED BY <1>3, <1>7, <1>8, <1>9 DEF BadgeInv

\* What else the browser hears and does: a frame or a mark is followed by a count.
LEMMA BrowserKeepsBadge == ASSUME TypeOK, BadgeInv, Browser PROVE BadgeInv'
<1>1. ASSUME NEW x \in Mentions \cup MemberOffers, Hear(x) PROVE BadgeInv'
  <2>1. PICK n \in Unused : Becomes(n, Send("summary", None))
    BY <1>1 DEF Hear
  <2>2. UNCHANGED <<mention, inChannel, notice, badge, current, guessed, unheard>>
    BY <1>1 DEF Hear, rowVars, badgeHistory
  <2> QED BY <2>1, <2>2, SentCounts, ClickKeepsBadge DEF Counting
<1>2. CASE OpenPanel
  <2>1. PICK n \in Unused, k \in Unused :
          n # k /\ calls' = [calls EXCEPT ![n] = Send("list", None), ![k] = Send("offers", None)]
    BY <1>2 DEF OpenPanel
  <2>2. n \in Calls /\ k \in Calls
    BY DEF Unused
  <2>3. /\ calls'[n] = Send("list", None) /\ calls'[k] = Send("offers", None)
        /\ \A j \in Calls \ {n, k} : calls'[j] = calls[j]
    BY <2>1, <2>2 DEF TypeOK
  <2>4. CountsKept /\ KindsOK'
    BY <2>3, SentCounts DEF CountsKept, SameCount, BadgeInv, KindsOK
  <2>5. Asks(n)'
    BY <2>3, SentCounts DEF Asks, Counting
  <2>6. current' = current
    BY <1>2 DEF OpenPanel, badgeHistory
  <2> QED BY <2>2, <2>4, <2>5, <2>6, Disturbing DEF UpToDate, Stirring
<1>3. CASE ClosePanel
  <2>1. calls' = Unmounted
        /\ UNCHANGED <<mention, inChannel, notice, badge, current, guessed, unheard, frames>>
    BY <1>3 DEF ClosePanel, rowVars, badgeHistory
  <2>2. CountsKept /\ KindsOK' /\ \A k \in Calls : Asks(k)' = Asks(k)
    BY <2>1, UnmountedCounts DEF CountsKept, BadgeInv, KindsOK, Asks
  <2>3. UpToDate' => UpToDate
    BY <2>1, <2>2 DEF UpToDate, Stirring
  <2> QED BY <2>1, <2>2, <2>3, Quiet
<1>4. CASE ClickMarkAll
  <2>1. PICK n \in Unused :
          Becomes(n, [Send("markAll", None) EXCEPT !.invitations = panel.invitations])
    BY <1>4 DEF ClickMarkAll
  <2>2. UNCHANGED <<mention, inChannel, notice, badge, current, guessed, unheard, frames>>
    BY <1>4 DEF ClickMarkAll, rowVars, pageVars, badgeHistory
  <2> DEFINE c == [Send("markAll", None) EXCEPT !.invitations = panel.invitations]
  <2>3. c.step = "sent" /\ ~c.latest
    BY SentCounts
  <2> HIDE DEF c
  <2> QED BY <2>1, <2>2, <2>3, ClickKeepsBadge DEF c
<1>5. ASSUME NEW o \in MemberOffers, NEW kind \in Responses, ClickRespond(o, kind)
      PROVE  BadgeInv'
  <2>1. PICK n \in Unused : Becomes(n, Send(kind, o))
    BY <1>5 DEF ClickRespond
  <2>2. UNCHANGED <<mention, inChannel, notice, badge, current, guessed, unheard, frames>>
    BY <1>5 DEF ClickRespond, rowVars, badgeHistory
  <2> QED BY <2>1, <2>2, SentCounts, ClickKeepsBadge
<1>6. ASSUME NEW m \in Mentions, ClickMention(m) PROVE BadgeInv'
  <2>1. PICK n \in Unused, kind \in {"open", "navigate"} : Becomes(n, Send(kind, m))
    BY <1>6 DEF ClickMention
  <2>2. UNCHANGED <<mention, inChannel, notice, badge, current, guessed, unheard, frames>>
    BY <1>6 DEF ClickMention, rowVars, pageVars, badgeHistory
  <2> QED BY <2>1, <2>2, SentCounts, ClickKeepsBadge
<1>7. ASSUME NEW n \in Calls, OffersListed(n) \/ Responded(n) \/ Failed(n) PROVE BadgeInv'
  <2>1. UNCHANGED <<mention, inChannel, notice, badge, current, guessed, unheard, frames>>
    BY <1>7 DEF OffersListed, Responded, Failed, rowVars, badgeHistory
  <2>2. PICK c : /\ Becomes(n, c) /\ c.step \in {None, "sent"} /\ ~c.latest
                 /\ \/ c.kind \in Counting /\ c.step = "sent"
                    \/ ~Asks(n)
    <3>1. CASE OffersListed(n)
      BY <3>1, SentCounts DEF OffersListed, Asks, Counting, Responses
    <3>2. CASE Failed(n)
      BY <3>2, SentCounts DEF Failed, Asks
    <3>3. CASE Responded(n)
      <4>1. Becomes(n, [Send("recount", None) EXCEPT !.mine = calls[n].mine])
        BY <3>3 DEF Responded
      <4> DEFINE c == [Send("recount", None) EXCEPT !.mine = calls[n].mine]
      <4>2. c.step = "sent" /\ ~c.latest /\ c.kind = "recount"
        BY SentCounts
      <4> HIDE DEF c
      <4>3. Becomes(n, c)
        BY <4>1 DEF c
      <4> QED BY <4>2, <4>3 DEF Counting
    <3> QED BY <1>7, <3>1, <3>2, <3>3
  <2>3. Fits(c) /\ SameCount(calls[n], c)
    BY <2>2 DEF Fits, SameCount, None
  <2>4. calls'[n] = c
    BY <2>2, <2>3, OneBecomes DEF BadgeInv
  <2>5. Asks(n) => Asks(n)'
    BY <2>2, <2>4 DEF Asks
  <2> QED BY <2>1, <2>2, <2>3, <2>5, QuietCall
<1>8. ASSUME NEW n \in Calls, Marked(n) PROVE BadgeInv'
  <2>1. UNCHANGED <<mention, inChannel, notice, badge, current, guessed, unheard, frames>>
    BY <1>8 DEF Marked, rowVars, badgeHistory
  <2>2. CASE calls' = [Unmounted EXCEPT ![n] = Send("navigate", calls[n].of)]
    <3>1. /\ calls'[n] = Send("navigate", calls[n].of)
          /\ \A k \in Calls \ {n} : calls'[k] = Unmounted[k]
      BY <2>2 DEF Unmounted
    <3>2. CountsKept /\ KindsOK'
      BY <3>1, UnmountedCounts, SentCounts DEF CountsKept, SameCount, BadgeInv, KindsOK
    <3>3. Asks(n)'
      BY <3>1, SentCounts DEF Asks, None
    <3> QED BY <2>1, <3>2, <3>3, Disturbing DEF UpToDate, Stirring
  <2>3. CASE Becomes(n, Send("summary", None))
    <3>1. Fits(Send("summary", None)) /\ SameCount(calls[n], Send("summary", None))
      BY SentCounts DEF Fits, SameCount
    <3>2. calls'[n] = Send("summary", None)
      BY <2>3, <3>1, OneBecomes DEF BadgeInv
    <3>3. Asks(n)'
      BY <3>2, SentCounts DEF Asks, Counting
    <3> QED BY <2>1, <2>3, <3>1, <3>3, QuietCall
  <2> QED BY <1>8, <2>2, <2>3 DEF Marked
<1>9. ASSUME NEW n \in Calls, Answered(n) PROVE BadgeInv'
  BY <1>9, AnsweredKeepsBadge
<1> QED BY <1>1, <1>2, <1>3, <1>4, <1>5, <1>6, <1>7, <1>8, <1>9 DEF Browser

\* The badge's invariant is inductive beside the types.
THEOREM BadgeInvariance == Spec => []BadgeInv
<1>1. TypeOK /\ BadgeInv /\ [Next]_vars => BadgeInv'
  <2> SUFFICES ASSUME TypeOK, BadgeInv, [Next]_vars PROVE BadgeInv'
    OBVIOUS
  <2>1. CASE Others
    BY <2>1, OthersKeepBadge
  <2>2. ASSUME NEW n \in Calls, CountMentions(n) \/ MarkAllRead(n) \/ CountNotices(n)
        PROVE  BadgeInv'
    BY <2>2, CountKeepsBadge, MarkAllKeepsBadge, NoticesKeepBadge
  <2>3. ASSUME NEW n \in Calls, ListOffers(n) \/ MarkRead(n) \/ Resolve(n) \/ MarkNotice(n)
        PROVE  BadgeInv'
    BY <2>3, RoutesKeepBadge
  <2>4. ASSUME NEW n \in Calls, Fail(n) PROVE BadgeInv'
    BY <2>4, FailKeepsBadge
  <2>5. CASE Browser
    BY <2>5, BrowserKeepsBadge
  <2>6. CASE UNCHANGED vars
    <3>1. /\ UNCHANGED <<mention, inChannel, notice, badge, current, guessed, unheard, frames>>
          /\ calls' = calls
      BY <2>6 DEF vars, rowVars, pageVars, badgeHistory
    <3>2. CountsKept /\ KindsOK' /\ \A n \in Calls : Asks(n)' = Asks(n)
      BY <3>1 DEF CountsKept, SameCount, BadgeInv, KindsOK, Asks
    <3>3. UpToDate' => UpToDate
      BY <3>1, <3>2 DEF UpToDate, Stirring
    <3> QED BY <3>1, <3>2, <3>3, Quiet
  <2> QED BY <2>1, <2>2, <2>3, <2>4, <2>5, <2>6 DEF Next, Routes
<1> QED BY <1>1, BadgeInit, TypeCorrect, PTL DEF Spec

\* At rest the badge counts what is unread, for any number of mentions, offers and
\* requests in flight, but for answers out of order, unheard changes and markAllRead's guess.
THEOREM BadgeCounts == Spec => []BadgeIsTrue
<1>1. BadgeInv => BadgeIsTrue
  <2> SUFFICES ASSUME BadgeInv, AtRest, current, ~unheard, ~guessed
               PROVE  badge = Cardinality(UnreadMentions) + Cardinality(UnreadNotices)
    BY DEF BadgeIsTrue
  <2>1. ~Stirring
    BY SentCounts DEF AtRest, Stirring, Asks, None, Counting, Responses
  <2> QED BY <2>1 DEF BadgeInv, BadgeFollows, UpToDate, MentionsNow, NoticesNow
<1> QED BY <1>1, BadgeInvariance, PTL

------------------------------------------------------------------------------
(* Names of entities.                                                         *)

NamesTypeOK ==
    /\ canonical \in [Entities -> Names \cup {NoName}]
    /\ aliases \in [Entities -> SUBSET Names]
    /\ edit \in [Members -> [entity : Entities \cup {NoName}, aliases : SUBSET Names,
                             stale : BOOLEAN]]
    /\ linking \in [name : Names \cup {NoName}, step : {"none", "insert"}, stale : BOOLEAN]
    /\ raced \subseteq Names

(* Only rows that exist have aliases.                                        *)
RowsOK == \A e \in Entities : ~Exists(e) => aliases[e] = {}

(* A name that was not raced has one row at most.                            *)
NamesOK == \A name \in Names \ raced : \A d, e \in Named(name) : d = e

(* While no write made its look stale, nobody else has the names an edit is   *)
(* about to write,                                                           *)
EditsOK ==
    \A m \in Members : edit[m] # NoEdit =>
        /\ edit[m].entity \in Entities /\ Exists(edit[m].entity)
        /\ ~edit[m].stale => \A name \in edit[m].aliases : Named(name) \subseteq {edit[m].entity}

(* and nobody has the name the worker is about to insert.                    *)
LinkOK ==
    linking.step = "insert" =>
        linking.name \in Names /\ (~linking.stale => Named(linking.name) = {})

(* The inductive invariant.                                                  *)
NInv == NamesTypeOK /\ RowsOK /\ NamesOK /\ EditsOK /\ LinkOK

------------------------------------------------------------------------------
\* An edit with these fields is none.
LEMMA NoEditByFields ==
    ASSUME NEW r \in [entity : Entities \cup {NoName}, aliases : SUBSET Names, stale : BOOLEAN],
           r.entity = NoName, r.aliases = {}, r.stale = FALSE
    PROVE  r = NoEdit
BY DEF NoEdit

\* What Edits makes of an edit under way.
LEMMA EditsChanges ==
    ASSUME NamesTypeOK, NEW names \in SUBSET Names, NEW m \in Members
    PROVE  /\ DOMAIN Edits(names) = Members
           /\ Edits(names)[m] \in [entity : Entities \cup {NoName}, aliases : SUBSET Names,
                                   stale : BOOLEAN]
           /\ Edits(names)[m].entity = edit[m].entity
           /\ Edits(names)[m].aliases = edit[m].aliases
           /\ ~Edits(names)[m].stale => ~edit[m].stale /\ edit[m].aliases \cap names = {}
           /\ edit[m] = NoEdit => Edits(names)[m] = NoEdit
<1> DEFINE new == [edit[m] EXCEPT !.stale = @ \/ edit[m].aliases \cap names # {}]
<1>1. DOMAIN Edits(names) = Members /\ Edits(names)[m] = new
  BY DEF Edits
<1>2. edit[m] \in [entity : Entities \cup {NoName}, aliases : SUBSET Names, stale : BOOLEAN]
  BY DEF NamesTypeOK
<1>3. (edit[m].stale \/ edit[m].aliases \cap names # {}) \in BOOLEAN
  OBVIOUS
<1>4. /\ new.entity = edit[m].entity /\ new.aliases = edit[m].aliases
      /\ new \in [entity : Entities \cup {NoName}, aliases : SUBSET Names, stale : BOOLEAN]
  BY <1>2, <1>3
<1>5. new.stale = (edit[m].stale \/ edit[m].aliases \cap names # {})
  BY <1>2
<1>6. edit[m] = NoEdit => new = NoEdit
  <2> SUFFICES ASSUME edit[m] = NoEdit PROVE new = NoEdit
    OBVIOUS
  <2>1. (edit[m].stale \/ edit[m].aliases \cap names # {}) = FALSE
    BY DEF NoEdit
  <2>2. /\ new \in [entity : Entities \cup {NoName}, aliases : SUBSET Names, stale : BOOLEAN]
        /\ new.entity = NoName /\ new.aliases = {} /\ new.stale = FALSE
    BY <2>1, <1>4, <1>5 DEF NoEdit
  <2> HIDE DEF new
  <2> QED BY <2>2, NoEditByFields
<1> QED BY <1>1, <1>4, <1>5, <1>6

\* There are no rows at first.
LEMMA NamesInitially == NamesInit => NInv
<1> SUFFICES ASSUME NamesInit PROVE NInv
  OBVIOUS
<1> USE DEF NamesInit, NoEdit, NoLink
<1>1. NamesTypeOK
  BY DEF NamesTypeOK
<1>2. \A e \in Entities : ~Exists(e) /\ aliases[e] = {}
  BY DEF Exists
<1>3. \A name \in Names : Named(name) = {}
  BY <1>2 DEF Named
<1>4. RowsOK /\ NamesOK
  BY <1>2, <1>3 DEF RowsOK, NamesOK
<1>5. EditsOK /\ LinkOK
  BY DEF EditsOK, LinkOK
<1> QED BY <1>1, <1>4, <1>5 DEF NInv

\* The worker remembers a name only when no row has it.
LEMMA FindKeeps == ASSUME NInv, NEW name \in Names, FindEntity(name) PROVE NInv'
<1> USE DEF FindEntity, NoLink
<1>1. UNCHANGED <<canonical, aliases, edit, raced>>
  OBVIOUS
<1>2. NamesTypeOK'
  BY DEF NInv, NamesTypeOK
<1>3. RowsOK' /\ NamesOK' /\ EditsOK'
  BY <1>1 DEF NInv, RowsOK, NamesOK, EditsOK, Exists, Named
<1>4. LinkOK'
  BY DEF LinkOK, Exists, Named
<1> QED BY <1>2, <1>3, <1>4 DEF NInv

\* An insert gives one row more to the inserted name only: one row in all if the worker's
\* look was not stale, and a raced name otherwise; edits that were about to write the name
\* become stale.
LEMMA CreateKeeps == ASSUME NInv, NEW e \in Entities, CreateEntity(e) PROVE NInv'
<1> DEFINE name == linking.name
<1> USE DEF NInv, NamesTypeOK
<1>1. name \in Names /\ ~Exists(e) /\ linking.step = "insert" /\ UNCHANGED aliases
  BY DEF CreateEntity, LinkOK
<1>2. name # NoName
  BY <1>1, EntityNamesAssumption
<1>3. \/ canonical' = canonical
      \/ canonical' = [canonical EXCEPT ![e] = name]
  BY DEF CreateEntity
<1>4. \A n \in Names : /\ Named(n)' \subseteq Named(n) \cup {e}
                       /\ n # name => Named(n)' \subseteq Named(n)
  <2> SUFFICES ASSUME NEW n \in Names, NEW d \in Named(n)', d \notin Named(n)
               PROVE  d = e /\ n = name
    OBVIOUS
  <2>1. d \in Entities /\ canonical'[d] # NoName /\ (canonical'[d] = n \/ n \in aliases[d])
    BY <1>1 DEF Named, Exists
  <2>2. canonical'[d] # canonical[d]
    BY <2>1 DEF Named, Exists
  <2>3. d = e /\ canonical'[d] = name
    BY <2>1, <2>2, <1>3
  <2>4. n \notin aliases[d]
    BY <2>3, <1>1 DEF RowsOK
  <2> QED BY <2>1, <2>3, <2>4
<1>5. raced \subseteq raced' /\ (linking.stale => name \in raced') /\ raced' \subseteq Names
  BY <1>1 DEF CreateEntity
<1>6. \A d \in Entities : Exists(d) => Exists(d)'
  BY <1>1, <1>2, <1>3 DEF Exists
<1>7. linking' = NoLink /\ edit' = Edits({name})
  BY DEF CreateEntity
<1>13. /\ DOMAIN edit' = Members
       /\ \A m \in Members :
             /\ edit'[m] \in [entity : Entities \cup {NoName}, aliases : SUBSET Names,
                              stale : BOOLEAN]
             /\ edit'[m].entity = edit[m].entity /\ edit'[m].aliases = edit[m].aliases
             /\ ~edit'[m].stale => ~edit[m].stale /\ name \notin edit[m].aliases
             /\ edit'[m] # NoEdit => edit[m] # NoEdit
  <2>1. {name} \in SUBSET Names /\ edit' = Edits({name})
    BY <1>1, <1>7
  <2>2. ASSUME NEW m \in Members
        PROVE  ~edit'[m].stale => ~edit[m].stale /\ name \notin edit[m].aliases
    <3>1. ~edit'[m].stale => ~edit[m].stale /\ edit[m].aliases \cap {name} = {}
      BY <2>1, EditsChanges
    <3> QED BY <3>1
  <2>3. ASSUME NEW m \in Members
        PROVE  /\ edit'[m] \in [entity : Entities \cup {NoName}, aliases : SUBSET Names,
                                stale : BOOLEAN]
               /\ edit'[m].entity = edit[m].entity /\ edit'[m].aliases = edit[m].aliases
               /\ edit'[m] # NoEdit => edit[m] # NoEdit
    BY <2>1, EditsChanges
  <2>4. DOMAIN edit' = Members
    BY <2>1 DEF Edits
  <2> QED BY <2>2, <2>3, <2>4
<1>8. NamesTypeOK'
  <2>1. canonical' \in [Entities -> Names \cup {NoName}] BY <1>1, <1>3
  <2>2. edit' \in [Members -> [entity : Entities \cup {NoName}, aliases : SUBSET Names,
                               stale : BOOLEAN]]
    <3>1. edit' = [m \in Members |-> edit'[m]]
      BY <1>7 DEF Edits
    <3> QED BY <3>1, <1>13
  <2> QED BY <2>1, <2>2, <1>1, <1>5, <1>7 DEF NoLink
<1>9. RowsOK'
  BY <1>1, <1>6 DEF RowsOK
<1>10. NamesOK'
  <2> SUFFICES ASSUME NEW n \in Names \ raced', NEW c \in Named(n)', NEW d \in Named(n)'
               PROVE  c = d
    BY DEF NamesOK
  <2>1. CASE n # name
    BY <2>1, <1>4, <1>5 DEF NamesOK
  <2>2. CASE n = name
    <3>1. ~linking.stale BY <2>2, <1>5
    <3>2. Named(n) = {} BY <3>1, <2>2, <1>1 DEF LinkOK
    <3> QED BY <3>2, <1>4
  <2> QED BY <2>1, <2>2
<1>11. EditsOK'
  <2> SUFFICES ASSUME NEW m \in Members, edit'[m] # NoEdit
               PROVE  /\ edit'[m].entity \in Entities /\ Exists(edit[m].entity)'
                      /\ ~edit'[m].stale =>
                           \A n \in edit'[m].aliases : Named(n)' \subseteq {edit'[m].entity}
    BY DEF EditsOK
  <2>1. edit[m] # NoEdit
    BY <1>13
  <2> QED BY <2>1, <1>4, <1>6, <1>13 DEF EditsOK
<1>12. LinkOK'
  BY <1>7 DEF LinkOK, NoLink
<1> QED BY <1>8, <1>9, <1>10, <1>11, <1>12

\* An edit that passed the check shares no name with another row.
LEMMA CheckKeeps ==
    ASSUME NInv, NEW m \in Members, NEW e \in Entities, NEW names \in SUBSET Names,
           CheckAliases(m, e, names)
    PROVE  NInv'
<1> USE DEF NInv, NamesTypeOK
<1>1. /\ UNCHANGED <<canonical, aliases, linking, raced>>
      /\ Exists(e) /\ \A name \in names : Named(name) \subseteq {e}
      /\ edit' = [edit EXCEPT ![m] = [entity |-> e, aliases |-> names, stale |-> FALSE]]
  BY DEF CheckAliases
<1>2. NamesTypeOK'
  BY <1>1
<1>3. RowsOK' /\ NamesOK' /\ LinkOK'
  BY <1>1 DEF RowsOK, NamesOK, LinkOK, Exists, Named
<1>4. EditsOK'
  <2> SUFFICES ASSUME NEW k \in Members, edit'[k] # NoEdit
               PROVE  /\ edit'[k].entity \in Entities /\ Exists(edit'[k].entity)
                      /\ ~edit'[k].stale =>
                           \A n \in edit'[k].aliases : Named(n) \subseteq {edit'[k].entity}
    BY <1>1 DEF EditsOK, Exists, Named
  <2>1. CASE k = m
    BY <2>1, <1>1
  <2>2. CASE k # m
    BY <2>2, <1>1 DEF EditsOK
  <2> QED BY <2>1, <2>2
<1> QED BY <1>2, <1>3, <1>4

\* Giving up forgets the edit.
LEMMA DropKeeps == ASSUME NInv, NEW m \in Members, DropEdit(m) PROVE NInv'
<1> USE DEF NInv, NamesTypeOK
<1>1. UNCHANGED <<canonical, aliases, linking, raced>> /\ edit' = [edit EXCEPT ![m] = NoEdit]
  BY DEF DropEdit
<1>2. NamesTypeOK'
  BY <1>1 DEF NoEdit
<1>3. RowsOK' /\ NamesOK' /\ LinkOK'
  BY <1>1 DEF RowsOK, NamesOK, LinkOK, Exists, Named
<1>4. \A k \in Members : edit'[k] # NoEdit => edit'[k] = edit[k]
  BY <1>1
<1>5. EditsOK'
  BY <1>1, <1>4 DEF EditsOK, Exists, Named
<1> QED BY <1>2, <1>3, <1>5

\* The update replaces the aliases of one row: no other name gains a row, and its own names
\* are raced if the look was stale; otherwise nobody else had them.  Every edit or insert
\* under way that looked for one of them becomes stale.
LEMMA WriteKeeps == ASSUME NInv, NEW m \in Members, WriteAliases(m) PROVE NInv'
<1> DEFINE e == edit[m].entity
           names == edit[m].aliases
<1> USE DEF NInv, NamesTypeOK
<1>1. /\ edit[m] # NoEdit /\ UNCHANGED canonical
      /\ aliases' = [aliases EXCEPT ![e] = names]
      /\ edit' = [Edits(names) EXCEPT ![m] = NoEdit]
      /\ linking' = Link(names)
  BY DEF WriteAliases
<1>2. e \in Entities /\ Exists(e) /\ names \in SUBSET Names
  BY <1>1 DEF EditsOK
<1>3. raced \subseteq raced' /\ (edit[m].stale => names \subseteq raced') /\ raced' \subseteq Names
  BY <1>2 DEF WriteAliases
<1>4. \A n \in Names : /\ Named(n)' \subseteq Named(n) \cup {e}
                       /\ n \notin names => Named(n)' \subseteq Named(n)
  <2> SUFFICES ASSUME NEW n \in Names, NEW d \in Named(n)', d \notin Named(n)
               PROVE  d = e /\ n \in names
    OBVIOUS
  <2>1. d \in Entities /\ n \in aliases'[d] /\ n \notin aliases[d]
    BY <1>1 DEF Named, Exists
  <2> QED BY <2>1, <1>1, <1>2
<1>5. \A d \in Entities : Exists(d)' = Exists(d)
  BY <1>1 DEF Exists
<1>6. \A k \in Members : edit'[k] # NoEdit =>
          /\ edit[k] # NoEdit
          /\ edit'[k].entity = edit[k].entity /\ edit'[k].aliases = edit[k].aliases
          /\ ~edit'[k].stale => ~edit[k].stale /\ edit[k].aliases \cap names = {}
  BY <1>1, <1>2, EditsChanges
<1>7. NamesTypeOK'
  <2>1. aliases' \in [Entities -> SUBSET Names] BY <1>1, <1>2
  <2>2. edit' \in [Members -> [entity : Entities \cup {NoName}, aliases : SUBSET Names,
                               stale : BOOLEAN]]
    <3>1. \A k \in Members : Edits(names)[k] \in [entity : Entities \cup {NoName},
                                                 aliases : SUBSET Names, stale : BOOLEAN]
      BY <1>2, EditsChanges
    <3>2. Edits(names) \in [Members -> [entity : Entities \cup {NoName}, aliases : SUBSET Names,
                                        stale : BOOLEAN]]
      BY <3>1 DEF Edits
    <3> QED BY <3>2, <1>1 DEF NoEdit
  <2>3. linking' \in [name : Names \cup {NoName}, step : {"none", "insert"}, stale : BOOLEAN]
    BY <1>1 DEF Link
  <2> QED BY <2>1, <2>2, <2>3, <1>1, <1>3
<1>8. RowsOK'
  BY <1>1, <1>2, <1>5 DEF RowsOK
<1>9. NamesOK'
  <2> SUFFICES ASSUME NEW n \in Names \ raced', NEW c \in Named(n)', NEW d \in Named(n)'
               PROVE  c = d
    BY DEF NamesOK
  <2>1. CASE n \notin names
    BY <2>1, <1>3, <1>4 DEF NamesOK
  <2>2. CASE n \in names
    <3>1. ~edit[m].stale BY <2>2, <1>3
    <3>2. Named(n) \subseteq {e} BY <3>1, <2>2, <1>1 DEF EditsOK
    <3> QED BY <3>2, <1>4
  <2> QED BY <2>1, <2>2
<1>10. EditsOK'
  <2> SUFFICES ASSUME NEW k \in Members, edit'[k] # NoEdit
               PROVE  /\ edit'[k].entity \in Entities /\ Exists(edit[k].entity)'
                      /\ ~edit'[k].stale =>
                           \A n \in edit'[k].aliases : Named(n)' \subseteq {edit'[k].entity}
    BY DEF EditsOK
  <2>1. edit[k] # NoEdit /\ edit[k].entity \in Entities /\ Exists(edit[k].entity)'
    BY <1>5, <1>6 DEF EditsOK
  <2>2. ASSUME ~edit'[k].stale, NEW n \in edit[k].aliases
        PROVE  Named(n)' \subseteq {edit[k].entity}
    <3>1. n \in Names /\ n \notin names BY <2>2, <1>6
    <3>2. Named(n) \subseteq {edit[k].entity} BY <2>1, <2>2, <1>6 DEF EditsOK
    <3> QED BY <3>1, <3>2, <1>4
  <2> QED BY <2>1, <2>2, <1>6
<1>11. LinkOK'
  <2>1. /\ linking'.name = linking.name /\ linking'.step = linking.step
        /\ ~linking'.stale => ~linking.stale /\ linking.name \notin names
    BY <1>1 DEF Link
  <2> QED BY <2>1, <1>4 DEF LinkOK
<1> QED BY <1>7, <1>8, <1>9, <1>10, <1>11

\* The invariant is inductive.
THEOREM NamesInvariance == NamesSpec => []NInv
<1>1. NInv /\ [NamesNext]_nameVars => NInv'
  <2> SUFFICES ASSUME NInv, [NamesNext]_nameVars PROVE NInv'
    OBVIOUS
  <2>1. ASSUME NEW name \in Names, FindEntity(name) PROVE NInv'
    BY <2>1, FindKeeps
  <2>2. ASSUME NEW e \in Entities, CreateEntity(e) PROVE NInv'
    BY <2>2, CreateKeeps
  <2>3. ASSUME NEW m \in Members, NEW e \in Entities, NEW names \in SUBSET Names,
               CheckAliases(m, e, names)
        PROVE  NInv'
    BY <2>3, CheckKeeps
  <2>4. ASSUME NEW m \in Members, DropEdit(m) PROVE NInv'
    BY <2>4, DropKeeps
  <2>5. ASSUME NEW m \in Members, WriteAliases(m) PROVE NInv'
    BY <2>5, WriteKeeps
  <2>6. CASE UNCHANGED nameVars
    BY <2>6 DEF nameVars, NInv, NamesTypeOK, RowsOK, NamesOK, EditsOK, LinkOK, Exists, Named
  <2> QED BY <2>1, <2>2, <2>3, <2>4, <2>5, <2>6 DEF NamesNext
<1> QED BY <1>1, NamesInitially, PTL DEF NamesSpec

\* "exactly one entity per name per workspace": no name resolves to two rows, but for one
\* that was written after another request had made the look at it stale.
THEOREM OneRowPerName == NamesSpec => []OneEntityPerName
<1>1. NInv => OneEntityPerName
  <2> SUFFICES ASSUME NInv, NEW name \in Names, name \notin raced
               PROVE  ~(Cardinality(Named(name)) > 1)
    BY DEF OneEntityPerName
  <2>1. \A d, e \in Named(name) : d = e
    BY DEF NInv, NamesOK
  <2>2. CASE Named(name) = {}
    BY <2>2, FS_EmptySet
  <2>3. CASE Named(name) # {}
    <3>1. PICK e : e \in Named(name) BY <2>3
    <3>2. Named(name) = {e} BY <2>1, <3>1
    <3>3. Cardinality(Named(name)) = 1 BY <3>2, FS_Singleton
    <3> QED BY <3>3
  <2> QED BY <2>2, <2>3
<1> QED BY <1>1, NamesInvariance, PTL

------------------------------------------------------------------------------
(* Releases of an enclave.  The phases of each script after its preflight:     *)

InstallSteps == {"load", "bundle", "postgres", "migrate", "grants", "models", "up", "health",
                 "config", "admin", "smoke", "audit", "report"}
UpgradeSteps == {"backup", "load", "bundle", "migrate", "grants", "up", "health", "repair",
                 "audit", "report"}

(* where the target's images are not loaded yet, where its containers are up, *)
(* and where the schema is the target's.                                      *)
Unloaded == {"backup", "load"}
IsUp == {"health", "config", "admin", "smoke", "repair", "audit", "report"}
Migrated == IsUp \cup {"grants", "models", "up"}

Scripts ==
    [kind : {"install", "upgrade"}, at : InstallSteps \cup UpgradeSteps, target : Releases,
     previous : Releases \cup {0}, bringing : BOOLEAN, skip : BOOLEAN]

StepsOK(s) == s.at \in (IF s.kind = "install" THEN InstallSteps ELSE UpgradeSteps)

DeploymentTypeOK ==
    /\ first \in Releases /\ running \in Releases \cup {0} /\ schema \in Nat /\ guidance \in Releases \cup {0}
    /\ script # NoScript => script \in Scripts /\ StepsOK(script)

(* What a script has done so far.                                             *)
Progress ==
    script # NoScript =>
        /\ script.at \notin Unloaded => script.target \in loaded
        /\ script.at \in Migrated => schema = script.target
        /\ script.at \notin IsUp => running = script.previous
        /\ script.bringing => script.kind = "upgrade" /\ script.at \in IsUp

(* An upgrade was started from a release that is on the host and worked, and  *)
(* goes on with a dump that this release can read.                            *)
Worked(v) == v \in loaded /\ v <= schema /\ (v \in reported \/ hurried)
Dumps(v) == skipped \/ hurried \/ v \in backups

UpgradeIsSafe ==
    script.kind = "upgrade" =>
        /\ script.previous # 0 /\ Worked(script.previous)
        /\ script.at # "backup" => Dumps(script.previous)

(* So was the one that a recipe names, and what runs is on the host.          *)
RecipeIsSafe == guidance # 0 => Worked(guidance) /\ Dumps(guidance)
RunningIsLoaded == running # 0 => running \in loaded /\ running <= schema

(* Until an installation has its report, there is one release only.           *)
Fresh == reported = {} /\ ~hurried

FreshHasOne ==
    /\ Fresh => running \in {0, first} /\ schema <= first
    /\ script.kind = "install" => reported = {} /\ script.target = first

(* The inductive invariant.                                                   *)
DeploymentInv ==
    /\ DeploymentTypeOK /\ Progress /\ UpgradeIsSafe /\ RecipeIsSafe /\ RunningIsLoaded
    /\ FreshHasOne /\ DumpForWhatServes

------------------------------------------------------------------------------
\* Each phase is followed by the next.
LEMMA Order ==
    /\ \A i \in 1..13 : After("install", InstallPhases[i]) = InstallPhases[i + 1]
    /\ \A i \in 1..10 : After("upgrade", UpgradePhases[i]) = UpgradePhases[i + 1]
<1>1. ASSUME NEW i \in 1..13 PROVE After("install", InstallPhases[i]) = InstallPhases[i + 1]
  <2>1. i \in DOMAIN InstallPhases /\ DOMAIN InstallPhases = 1..14
    BY DEF InstallPhases
  <2>2. \A j, k \in 1..14 : InstallPhases[j] = InstallPhases[k] => j = k
    BY DEF InstallPhases
  <2>3. (CHOOSE j \in DOMAIN InstallPhases : InstallPhases[j] = InstallPhases[i]) = i
    BY <2>1, <2>2
  <2> QED BY <2>3 DEF After
<1>2. ASSUME NEW i \in 1..10 PROVE After("upgrade", UpgradePhases[i]) = UpgradePhases[i + 1]
  <2>1. i \in DOMAIN UpgradePhases /\ DOMAIN UpgradePhases = 1..11
    BY DEF UpgradePhases
  <2>2. \A j, k \in 1..11 : UpgradePhases[j] = UpgradePhases[k] => j = k
    BY DEF UpgradePhases
  <2>3. (CHOOSE j \in DOMAIN UpgradePhases : UpgradePhases[j] = UpgradePhases[i]) = i
    BY <2>1, <2>2
  <2> QED BY <2>3 DEF After
<1> QED BY <1>1, <1>2

\* What is named by its position.
LEMMA InstallOrder ==
    /\ After("install", "preflight") = "load" /\ After("install", "load") = "bundle"
    /\ After("install", "bundle") = "postgres" /\ After("install", "postgres") = "migrate"
    /\ After("install", "migrate") = "grants" /\ After("install", "grants") = "models"
    /\ After("install", "models") = "up" /\ After("install", "up") = "health"
    /\ After("install", "health") = "config" /\ After("install", "config") = "admin"
    /\ After("install", "admin") = "smoke" /\ After("install", "smoke") = "audit"
    /\ After("install", "audit") = "report"
<1> DEFINE p == InstallPhases
<1>1. /\ p[1] = "preflight" /\ p[2] = "load" /\ p[3] = "bundle" /\ p[4] = "postgres"
      /\ p[5] = "migrate" /\ p[6] = "grants" /\ p[7] = "models" /\ p[8] = "up"
      /\ p[9] = "health" /\ p[10] = "config" /\ p[11] = "admin" /\ p[12] = "smoke"
      /\ p[13] = "audit" /\ p[14] = "report"
  BY DEF InstallPhases
<1>2. /\ After("install", p[1]) = p[2] /\ After("install", p[2]) = p[3]
      /\ After("install", p[3]) = p[4] /\ After("install", p[4]) = p[5]
      /\ After("install", p[5]) = p[6] /\ After("install", p[6]) = p[7]
      /\ After("install", p[7]) = p[8] /\ After("install", p[8]) = p[9]
      /\ After("install", p[9]) = p[10] /\ After("install", p[10]) = p[11]
      /\ After("install", p[11]) = p[12] /\ After("install", p[12]) = p[13]
      /\ After("install", p[13]) = p[14]
  <2> HIDE DEF p
  <2>1. \A i \in 1..13 : After("install", p[i]) = p[i + 1]
    BY Order DEF p
  <2> QED BY <2>1
<1> QED BY <1>1, <1>2

LEMMA UpgradeOrder ==
    /\ After("upgrade", "preflight") = "backup" /\ After("upgrade", "backup") = "load"
    /\ After("upgrade", "load") = "bundle" /\ After("upgrade", "bundle") = "migrate"
    /\ After("upgrade", "migrate") = "grants" /\ After("upgrade", "grants") = "up"
    /\ After("upgrade", "up") = "health" /\ After("upgrade", "health") = "repair"
    /\ After("upgrade", "repair") = "audit" /\ After("upgrade", "audit") = "report"
<1> DEFINE p == UpgradePhases
<1>1. /\ p[1] = "preflight" /\ p[2] = "backup" /\ p[3] = "load" /\ p[4] = "bundle"
      /\ p[5] = "migrate" /\ p[6] = "grants" /\ p[7] = "up" /\ p[8] = "health"
      /\ p[9] = "repair" /\ p[10] = "audit" /\ p[11] = "report"
  BY DEF UpgradePhases
<1>2. /\ After("upgrade", p[1]) = p[2] /\ After("upgrade", p[2]) = p[3]
      /\ After("upgrade", p[3]) = p[4] /\ After("upgrade", p[4]) = p[5]
      /\ After("upgrade", p[5]) = p[6] /\ After("upgrade", p[6]) = p[7]
      /\ After("upgrade", p[7]) = p[8] /\ After("upgrade", p[8]) = p[9]
      /\ After("upgrade", p[9]) = p[10] /\ After("upgrade", p[10]) = p[11]
  <2> HIDE DEF p
  <2>1. \A i \in 1..10 : After("upgrade", p[i]) = p[i + 1]
    BY Order DEF p
  <2> QED BY <2>1
<1> QED BY <1>1, <1>2

\* Where a script stands after a phase that is not its last.
LEMMA Moves ==
    ASSUME NEW s \in Scripts, StepsOK(s), s.at # "report"
    PROVE  LET t == [s EXCEPT !.at = After(s.kind, s.at)] IN
           /\ t \in Scripts /\ StepsOK(t) /\ t # NoScript
           /\ t.kind = s.kind /\ t.target = s.target /\ t.previous = s.previous
           /\ t.bringing = s.bringing
           /\ t.at # "backup" /\ (t.at = "load" <=> s.at = "backup")
           /\ t.at \in Migrated <=> s.at \in Migrated \cup {"migrate"}
           /\ t.at \in IsUp <=> s.at \in IsUp \cup {"up"}
<1> DEFINE t == [s EXCEPT !.at = After(s.kind, s.at)]
<1>1. CASE s.kind = "install"
  <2>1. s.at \in InstallSteps \ {"report"}
    BY <1>1 DEF StepsOK
  <2>2. /\ After(s.kind, s.at) \in InstallSteps \ {"load"}
        /\ After(s.kind, s.at) \in Migrated <=> s.at \in Migrated \cup {"migrate"}
        /\ After(s.kind, s.at) \in IsUp <=> s.at \in IsUp \cup {"up"}
    BY <1>1, <2>1, InstallOrder DEF InstallSteps, Migrated, IsUp
  <2>3. /\ t \in Scripts /\ t.kind = "install" /\ t.target = s.target
        /\ t.previous = s.previous /\ t.bringing = s.bringing /\ t.at = After(s.kind, s.at)
    BY <1>1, <2>2 DEF Scripts
  <2>4. t # NoScript
    BY <2>3 DEF NoScript
  <2> QED BY <1>1, <2>1, <2>2, <2>3, <2>4 DEF StepsOK, InstallSteps
<1>2. CASE s.kind = "upgrade"
  <2>1. s.at \in UpgradeSteps \ {"report"}
    BY <1>2 DEF StepsOK
  <2>2. /\ After(s.kind, s.at) \in UpgradeSteps \ {"backup"}
        /\ After(s.kind, s.at) = "load" <=> s.at = "backup"
        /\ After(s.kind, s.at) \in Migrated <=> s.at \in Migrated \cup {"migrate"}
        /\ After(s.kind, s.at) \in IsUp <=> s.at \in IsUp \cup {"up"}
    BY <1>2, <2>1, UpgradeOrder DEF UpgradeSteps, Migrated, IsUp
  <2>3. /\ t \in Scripts /\ t.kind = "upgrade" /\ t.target = s.target
        /\ t.previous = s.previous /\ t.bringing = s.bringing /\ t.at = After(s.kind, s.at)
    BY <1>2, <2>2 DEF Scripts
  <2>4. t # NoScript
    BY <2>3 DEF NoScript
  <2> QED BY <1>2, <2>2, <2>3, <2>4 DEF StepsOK
<1>3. s.kind \in {"install", "upgrade"}
  BY DEF Scripts
<1> QED BY <1>1, <1>2, <1>3

\* A script that runs is one of the scripts.
LEMMA Running ==
    ASSUME DeploymentInv, NEW phase \in InstallSteps \cup UpgradeSteps, At(phase)
    PROVE  script # NoScript /\ script \in Scripts /\ StepsOK(script)
<1>1. script # NoScript
  BY DEF At, NoScript, InstallSteps, UpgradeSteps
<1> QED BY <1>1 DEF DeploymentInv, DeploymentTypeOK

\* What is dumped, loaded, skipped and reported stays so.
Onward ==
    /\ loaded \subseteq loaded' /\ backups \subseteq backups' /\ reported \subseteq reported'
    /\ (skipped => skipped') /\ (hurried => hurried') /\ schema' \in Nat /\ schema <= schema'

LEMMA WorkedStays ==
    ASSUME DeploymentTypeOK, Onward, NEW v \in Releases \cup {0}
    PROVE  (Worked(v) => Worked(v)') /\ (Dumps(v) => Dumps(v)')
<1>1. v \in Nat /\ schema \in Nat
  BY DeploymentAssumption DEF Releases, DeploymentTypeOK
<1> QED BY <1>1 DEF Onward, Worked, Dumps

\* A phase that changes nothing but where the script stands.
LEMMA PassKeeps ==
    ASSUME DeploymentInv, script # NoScript, script.at \notin {"backup", "load", "migrate", "up", "report"},
           Pass, UNCHANGED <<first, loaded, running, schema, backups, reported, skipped, hurried>>
    PROVE  DeploymentInv'
<1>1. script \in Scripts /\ StepsOK(script)
  BY DEF DeploymentInv, DeploymentTypeOK
<1> DEFINE t == [script EXCEPT !.at = After(script.kind, script.at)]
<1>2. /\ t \in Scripts /\ StepsOK(t) /\ t # NoScript
      /\ t.kind = script.kind /\ t.target = script.target /\ t.previous = script.previous
      /\ t.bringing = script.bringing
      /\ t.at \notin Unloaded
      /\ t.at \in Migrated <=> script.at \in Migrated
      /\ t.at \in IsUp <=> script.at \in IsUp
  BY <1>1, Moves DEF Unloaded
<1>3. /\ script' = t
      /\ UNCHANGED <<loaded, running, schema, backups, guidance, reported, skipped, hurried>>
  BY DEF Pass, Goto
<1>4. script.at \notin Unloaded
  BY DEF Unloaded
<1> HIDE DEF t
<1>5. DeploymentTypeOK' /\ Progress' /\ FreshHasOne' /\ UpgradeIsSafe'
  BY <1>2, <1>3, <1>4 DEF DeploymentInv, DeploymentTypeOK, Progress, FreshHasOne, Fresh,
                         UpgradeIsSafe, Worked, Dumps, Unloaded
<1>6. RecipeIsSafe' /\ RunningIsLoaded' /\ DumpForWhatServes'
  BY <1>3 DEF DeploymentInv, RecipeIsSafe, RunningIsLoaded, DumpForWhatServes, Worked, Dumps
<1> QED BY <1>5, <1>6 DEF DeploymentInv

\* A script that fails leaves a recipe once it was bringing containers up.
LEMMA FailsKeeps ==
    ASSUME DeploymentInv, Fails,
           UNCHANGED <<first, loaded, running, schema, backups, reported, skipped, hurried>>
    PROVE  DeploymentInv'
<1>1. script' = NoScript
  BY DEF Fails
<1>2. guidance' = guidance \/ (script # NoScript /\ script.bringing /\ guidance' = script.previous)
  BY DEF Fails, NoScript
<1>3. NoScript.kind = "none"
  BY DEF NoScript
<1>4. DeploymentTypeOK' /\ RecipeIsSafe'
  <2>1. CASE guidance' = guidance
    BY <2>1, <1>1 DEF DeploymentInv, DeploymentTypeOK, RecipeIsSafe, Worked, Dumps
  <2>2. CASE script # NoScript /\ script.bringing /\ guidance' = script.previous
    <3>1. script \in Scripts /\ script.kind = "upgrade" /\ script.at # "backup"
      BY <2>2 DEF DeploymentInv, DeploymentTypeOK, Progress, IsUp
    <3>2. Worked(script.previous) /\ Dumps(script.previous) /\ script.previous \in Releases \cup {0}
      BY <3>1 DEF DeploymentInv, UpgradeIsSafe, Scripts
    <3> QED BY <3>2, <2>2, <1>1 DEF DeploymentInv, DeploymentTypeOK, RecipeIsSafe, Worked, Dumps
  <2> QED BY <1>2, <2>1, <2>2
<1>5. Progress' /\ UpgradeIsSafe' /\ FreshHasOne'
  BY <1>1, <1>3 DEF DeploymentInv, Progress, UpgradeIsSafe, FreshHasOne, Fresh
<1>6. RunningIsLoaded' /\ DumpForWhatServes'
  BY DEF DeploymentInv, RunningIsLoaded, DumpForWhatServes
<1> QED BY <1>4, <1>5, <1>6 DEF DeploymentInv

\* At first there is nothing.
LEMMA DeploymentInitially == DeploymentInit => DeploymentInv
<1> SUFFICES ASSUME DeploymentInit PROVE DeploymentInv
  OBVIOUS
<1>1. first \in Nat
  BY DeploymentAssumption DEF DeploymentInit, Releases
<1> QED BY <1>1 DEF DeploymentInit, DeploymentInv, DeploymentTypeOK, Progress, UpgradeIsSafe,
                    RecipeIsSafe, RunningIsLoaded, FreshHasOne, Fresh, DumpForWhatServes, NoScript

\* An upgrade starts from what runs, an installation while nothing was reported.
LEMMA StartKeeps ==
    ASSUME DeploymentInv, UNCHANGED first,
           \/ \E options \in SUBSET Options : StartInstall(options)
           \/ \E v \in Releases, options \in SUBSET Options : StartUpgrade(v, options)
    PROVE  DeploymentInv'
<1>1. PICK kind \in {"install", "upgrade"}, v \in Releases, options \in SUBSET Options :
         /\ Start(kind, v, options)
         /\ kind = "install" => reported = {} /\ v = first /\ hurried' = hurried
         /\ kind = "upgrade" => hurried' = (hurried \/ running \notin reported) /\ running # 0
  <2>1. first \in Releases
    BY DEF DeploymentInv, DeploymentTypeOK
  <2> QED BY <2>1 DEF StartInstall, StartUpgrade, Start, Preflight
<1> DEFINE s == [kind |-> kind, at |-> After(kind, "preflight"), target |-> v,
                  previous |-> running, bringing |-> FALSE,
                  skip |-> options \cap {"SKIP_BACKUP", "SKIP_FIRST_ADMIN"} # {}]
<1>2. /\ script' = s /\ script = NoScript
      /\ UNCHANGED <<loaded, running, schema, backups, guidance, reported, skipped>>
  BY <1>1 DEF Start, host, Idle
<1>3. /\ s.kind = kind /\ s.target = v /\ s.previous = running /\ s.bringing = FALSE
      /\ s.at \in Unloaded /\ s \in Scripts /\ StepsOK(s)
      /\ kind = "upgrade" => s.at = "backup"
  <2>1. CASE kind = "install"
    BY <2>1, InstallOrder DEF Unloaded, Scripts, StepsOK, InstallSteps, DeploymentInv,
                              DeploymentTypeOK
  <2>2. CASE kind = "upgrade"
    BY <2>2, UpgradeOrder DEF Unloaded, Scripts, StepsOK, UpgradeSteps, DeploymentInv,
                              DeploymentTypeOK
  <2> QED BY <2>1, <2>2
<1>4. s.at \notin Migrated \cup IsUp
  BY <1>3 DEF Unloaded, Migrated, IsUp
<1> HIDE DEF s
<1>5. Onward
  <2>1. hurried => hurried'
    BY <1>1
  <2>2. schema \in Nat
    BY DEF DeploymentInv, DeploymentTypeOK
  <2> QED BY <1>2, <2>1, <2>2 DEF Onward
<1>6. DeploymentTypeOK' /\ Progress'
  BY <1>2, <1>3, <1>4 DEF DeploymentInv, DeploymentTypeOK, Progress
<1>7. UpgradeIsSafe'
  BY <1>1, <1>2, <1>3 DEF DeploymentInv, RunningIsLoaded, UpgradeIsSafe, Worked
<1>8. FreshHasOne'
  <2>1. CASE kind = "install"
    BY <2>1, <1>1, <1>2, <1>3 DEF DeploymentInv, FreshHasOne, Fresh
  <2>2. CASE kind = "upgrade"
    <3>1. ~Fresh'
      BY <2>2, <1>1, <1>2 DEF Fresh
    <3> QED BY <2>2, <3>1, <1>2, <1>3 DEF FreshHasOne
  <2> QED BY <2>1, <2>2
<1>9. RecipeIsSafe' /\ RunningIsLoaded' /\ DumpForWhatServes'
  <2>1. RecipeIsSafe'
    <3>1. guidance \in Releases \cup {0}
      BY DEF DeploymentInv, DeploymentTypeOK
    <3> QED BY <3>1, <1>2, <1>5, WorkedStays DEF DeploymentInv, RecipeIsSafe
  <2>2. RunningIsLoaded' /\ DumpForWhatServes'
    BY <1>2, <1>5 DEF DeploymentInv, RunningIsLoaded, DumpForWhatServes, Onward
  <2> QED BY <2>1, <2>2
<1> QED BY <1>6, <1>7, <1>8, <1>9 DEF DeploymentInv

\* The recipe is followed.
LEMMA RollBackKeeps == ASSUME DeploymentInv, UNCHANGED first, RollBack PROVE DeploymentInv'
<1>1. /\ running' = guidance /\ guidance # 0 /\ script = NoScript /\ script.kind = "none"
      /\ UNCHANGED <<loaded, schema, backups, script, guidance, reported, skipped, hurried>>
  BY DEF RollBack, histories, Idle, NoScript
<1>2. Worked(guidance) /\ Dumps(guidance) /\ ~Fresh
  BY <1>1 DEF DeploymentInv, RecipeIsSafe, Worked, Fresh
<1> QED BY <1>1, <1>2 DEF DeploymentInv, DeploymentTypeOK, Progress, UpgradeIsSafe, RecipeIsSafe,
                          RunningIsLoaded, FreshHasOne, Fresh, DumpForWhatServes, Worked, Dumps

\* The backup is of the schema that the running release left, or that it can read.
LEMMA BackupKeeps == ASSUME DeploymentInv, UNCHANGED first, Backup PROVE DeploymentInv'
<1>1. script # NoScript /\ script \in Scripts /\ StepsOK(script)
  BY Running DEF Backup, UpgradeSteps
<1> DEFINE t == [script EXCEPT !.at = After(script.kind, script.at)]
<1>2. /\ script.at = "backup" /\ script.kind = "upgrade" /\ script' = t
      /\ UNCHANGED <<loaded, running, schema, guidance, reported, hurried>>
      /\ skipped' \/ (schema \in backups' /\ UNCHANGED skipped)
      /\ Onward
  BY <1>1 DEF Backup, At, Pass, Goto, Dumped, StepsOK, InstallSteps, Scripts, Onward,
              DeploymentInv, DeploymentTypeOK
<1>3. /\ t \in Scripts /\ StepsOK(t) /\ t # NoScript
      /\ t.kind = "upgrade" /\ t.target = script.target /\ t.previous = script.previous
      /\ t.bringing = script.bringing /\ t.at = "load"
  BY <1>1, <1>2, Moves
<1> HIDE DEF t
<1>4. DeploymentTypeOK' /\ Progress' /\ FreshHasOne'
  BY <1>1, <1>2, <1>3 DEF DeploymentInv, DeploymentTypeOK, Progress, FreshHasOne, Fresh, Unloaded,
                          Migrated, IsUp
<1>5. UpgradeIsSafe'
  <2>1. /\ script.previous # 0 /\ Worked(script.previous) /\ running = script.previous
        /\ script.previous \in Releases
    BY <1>1, <1>2 DEF DeploymentInv, UpgradeIsSafe, Progress, IsUp, Scripts
  <2>2. Dumps(script.previous)'
    <3>1. CASE schema > running /\ ~skipped /\ ~hurried
      BY <3>1, <2>1, <1>2, <1>3 DEF DeploymentInv, DumpForWhatServes, Dumps, Onward
    <3>2. CASE schema = running
      BY <3>2, <2>1, <1>2, <1>3 DEF Dumps
    <3>3. CASE skipped \/ hurried
      BY <3>3, <1>2 DEF Dumps, Onward
    <3>4. schema \in Nat /\ running \in Nat /\ running <= schema
      BY <2>1, DeploymentAssumption DEF DeploymentInv, DeploymentTypeOK, Worked, Releases
    <3> QED BY <3>1, <3>2, <3>3, <3>4
  <2>3. Worked(script.previous)'
    BY <2>1, <1>2, <1>3 DEF Worked
  <2> QED BY <2>1, <2>2, <2>3, <1>2, <1>3 DEF UpgradeIsSafe, Worked, Dumps
<1>6. RecipeIsSafe' /\ RunningIsLoaded' /\ DumpForWhatServes'
  BY <1>2, WorkedStays DEF DeploymentInv, DeploymentTypeOK, RecipeIsSafe, RunningIsLoaded,
                           DumpForWhatServes, Onward
<1> QED BY <1>4, <1>5, <1>6 DEF DeploymentInv

\* An intact bundle puts the target's images on the host.
LEMMA LoadKeeps == ASSUME DeploymentInv, UNCHANGED first, Load PROVE DeploymentInv'
<1>1. script # NoScript /\ script \in Scripts /\ StepsOK(script) /\ script.at = "load"
  BY Running DEF Load, UpgradeSteps, At
<1>2. CASE ~Loads
  BY <1>2, FailsKeeps DEF Load, PassIf, histories
<1>3. CASE Loads
  <2> DEFINE t == [script EXCEPT !.at = After(script.kind, script.at)]
  <2>1. /\ script' = t /\ loaded' = loaded \cup {script.target}
        /\ UNCHANGED <<running, schema, backups, guidance, reported, skipped, hurried>>
    BY <1>3 DEF Load, PassIf, Pass, Goto, histories
  <2>2. /\ t \in Scripts /\ StepsOK(t) /\ t # NoScript
        /\ t.kind = script.kind /\ t.target = script.target /\ t.previous = script.previous
        /\ t.bringing = script.bringing /\ t.at \notin Unloaded \cup Migrated \cup IsUp
    BY <1>1, Moves DEF Unloaded, Migrated, IsUp
  <2>3. Onward
    BY <2>1 DEF Onward, DeploymentInv, DeploymentTypeOK
  <2> HIDE DEF t
  <2>4. DeploymentTypeOK' /\ Progress' /\ FreshHasOne'
    BY <1>1, <2>1, <2>2 DEF DeploymentInv, DeploymentTypeOK, Progress, FreshHasOne, Fresh, IsUp
  <2>5. UpgradeIsSafe'
    BY <1>1, <2>1, <2>2 DEF DeploymentInv, UpgradeIsSafe, Worked, Dumps
  <2>6. RecipeIsSafe' /\ RunningIsLoaded' /\ DumpForWhatServes'
    BY <2>1 DEF DeploymentInv, RecipeIsSafe, RunningIsLoaded, DumpForWhatServes, Worked, Dumps
  <2> QED BY <2>4, <2>5, <2>6 DEF DeploymentInv
<1> QED BY <1>2, <1>3

\* A migration takes the schema on, at most to the target; what runs has its dump.
LEMMA MigrateKeeps == ASSUME DeploymentInv, UNCHANGED first, Migrate PROVE DeploymentInv'
<1>1. script # NoScript /\ script \in Scripts /\ StepsOK(script) /\ script.at = "migrate"
  BY Running DEF Migrate, UpgradeSteps, At
<1>2. UNCHANGED <<loaded, running, backups, reported, skipped, hurried>>
  BY DEF Migrate, histories
<1>3. CASE schema < script.target
  <2>1. schema' = schema + 1 /\ UNCHANGED <<script, guidance>>
    BY <1>3 DEF Migrate
  <2>2. schema \in Nat /\ script.target \in Nat /\ first \in Nat
    BY <1>1, DeploymentAssumption DEF DeploymentInv, DeploymentTypeOK, Scripts, Releases
  <2>3. Onward
    BY <1>2, <2>1, <2>2 DEF Onward
  <2>4. DeploymentTypeOK' /\ Progress' /\ UpgradeIsSafe' /\ RecipeIsSafe' /\ RunningIsLoaded'
    <3>1. DeploymentTypeOK' /\ Progress'
      BY <1>1, <1>2, <2>1, <2>2 DEF DeploymentInv, DeploymentTypeOK, Progress, Migrated, IsUp
    <3>2. UpgradeIsSafe'
      <4>1. script.previous \in Releases \cup {0} BY <1>1 DEF Scripts
      <4> QED BY <4>1, <2>1, <2>3, WorkedStays DEF DeploymentInv, UpgradeIsSafe
    <3>3. RecipeIsSafe' /\ RunningIsLoaded'
      <4>1. running \in Nat
        BY DeploymentAssumption DEF DeploymentInv, DeploymentTypeOK, Releases
      <4> QED BY <4>1, <1>2, <2>1, <2>2, <2>3, WorkedStays
              DEF DeploymentInv, DeploymentTypeOK, RecipeIsSafe, RunningIsLoaded
    <3> QED BY <3>1, <3>2, <3>3
  <2>5. FreshHasOne'
    <3>1. Fresh => script.kind = "install"
      BY <1>1 DEF DeploymentInv, UpgradeIsSafe, Worked, Fresh, Scripts
    <3> QED BY <3>1, <1>2, <1>3, <2>1, <2>2 DEF DeploymentInv, FreshHasOne, Fresh
  <2>6. DumpForWhatServes'
    <3>1. CASE script.kind = "upgrade"
      <4>1. running = script.previous /\ Dumps(script.previous)
        BY <1>1, <3>1 DEF DeploymentInv, Progress, UpgradeIsSafe, IsUp
      <4> QED BY <4>1, <1>2 DEF DumpForWhatServes, Dumps
    <3>2. CASE script.kind = "install"
      <4>1. hurried \/ (running \in {0, first} /\ script.target = first)
        BY <3>2 DEF DeploymentInv, FreshHasOne, Fresh
      <4> QED BY <4>1, <1>2, <1>3, <2>1, <2>2 DEF DumpForWhatServes
    <3> QED BY <1>1, <3>1, <3>2 DEF Scripts
  <2> QED BY <2>4, <2>5, <2>6 DEF DeploymentInv
<1>4. CASE ~(schema < script.target) /\ schema # script.target
  BY <1>2, <1>4, FailsKeeps DEF Migrate, PassIf
<1>5. CASE schema = script.target
  <2> DEFINE t == [script EXCEPT !.at = After(script.kind, script.at)]
  <2>1. script' = t /\ UNCHANGED <<schema, guidance>>
    <3>1. ~(schema < script.target)
      BY <1>1, <1>5, DeploymentAssumption DEF Scripts, Releases
    <3> QED BY <1>5, <3>1 DEF Migrate, PassIf, Pass, Goto
  <2>2. /\ t \in Scripts /\ StepsOK(t) /\ t # NoScript
        /\ t.kind = script.kind /\ t.target = script.target /\ t.previous = script.previous
        /\ t.bringing = script.bringing /\ t.at \notin Unloaded \cup IsUp
    BY <1>1, Moves DEF Unloaded, IsUp
  <2> HIDE DEF t
  <2>3. DeploymentTypeOK' /\ Progress' /\ FreshHasOne'
    BY <1>1, <1>2, <1>5, <2>1, <2>2 DEF DeploymentInv, DeploymentTypeOK, Progress, FreshHasOne,
                                        Fresh, IsUp, Unloaded
  <2>4. UpgradeIsSafe'
    BY <1>1, <1>2, <2>1, <2>2 DEF DeploymentInv, UpgradeIsSafe, Worked, Dumps, Unloaded
  <2>5. RecipeIsSafe' /\ RunningIsLoaded' /\ DumpForWhatServes'
    BY <1>2, <2>1 DEF DeploymentInv, RecipeIsSafe, RunningIsLoaded, DumpForWhatServes, Worked, Dumps
  <2> QED BY <2>3, <2>4, <2>5 DEF DeploymentInv
<1> QED BY <1>3, <1>4, <1>5

\* The target answers, with the schema it was migrated to.
LEMMA BringUpKeeps == ASSUME DeploymentInv, UNCHANGED first, BringUp PROVE DeploymentInv'
<1>1. script # NoScript /\ script \in Scripts /\ StepsOK(script) /\ script.at = "up"
  BY Running DEF BringUp, UpgradeSteps, At
<1> DEFINE s == [script EXCEPT !.bringing = (script.kind = "upgrade")]
           t == [s EXCEPT !.at = After(s.kind, s.at)]
<1>2. /\ script' = t /\ running' = script.target
      /\ UNCHANGED <<loaded, schema, backups, guidance, reported, skipped, hurried>>
  BY DEF BringUp, Goto, histories
<1>3. /\ s \in Scripts /\ StepsOK(s) /\ s.at = "up" /\ s.kind = script.kind
      /\ s.target = script.target /\ s.previous = script.previous
      /\ s.bringing = (script.kind = "upgrade")
  BY <1>1 DEF Scripts, StepsOK
<1> HIDE DEF s
<1>4. /\ t \in Scripts /\ StepsOK(t) /\ t # NoScript
      /\ t.kind = script.kind /\ t.target = script.target /\ t.previous = script.previous
      /\ t.bringing = (script.kind = "upgrade") /\ t.at \in IsUp
  BY <1>3, Moves DEF IsUp
<1> HIDE DEF t
<1>5. /\ schema = script.target /\ script.target \in loaded /\ script.target \in Releases
      /\ script.target \in Nat
  BY <1>1, DeploymentAssumption DEF DeploymentInv, Progress, Migrated, Unloaded, Scripts, Releases
<1>6. DeploymentTypeOK' /\ Progress'
  BY <1>2, <1>4, <1>5 DEF DeploymentInv, DeploymentTypeOK, Progress
<1>7. UpgradeIsSafe'
  BY <1>1, <1>2, <1>4 DEF DeploymentInv, UpgradeIsSafe, Worked, Dumps
<1>8. FreshHasOne'
  <2>1. Fresh => script.kind = "install"
    BY <1>1 DEF DeploymentInv, UpgradeIsSafe, Worked, Fresh, Scripts
  <2> QED BY <2>1, <1>2, <1>4 DEF DeploymentInv, FreshHasOne, Fresh
<1>9. RecipeIsSafe' /\ RunningIsLoaded' /\ DumpForWhatServes'
  BY <1>2, <1>5 DEF DeploymentInv, RecipeIsSafe, RunningIsLoaded, DumpForWhatServes, Worked, Dumps
<1> QED BY <1>6, <1>7, <1>8, <1>9 DEF DeploymentInv

\* Or the containers do not come up.
LEMMA UpFailsKeeps == ASSUME DeploymentInv, UNCHANGED first, UpFails PROVE DeploymentInv'
<1>1. script # NoScript /\ script \in Scripts /\ StepsOK(script) /\ script.at = "up"
  BY Running DEF UpFails, UpgradeSteps, At
<1>2. /\ script' = NoScript /\ running' \in {0, running, script.target}
      /\ guidance' = IF script.kind = "upgrade" THEN script.previous ELSE guidance
      /\ UNCHANGED <<loaded, schema, backups, reported, skipped, hurried>>
  BY DEF UpFails, histories
<1>3. NoScript.kind = "none"
  BY DEF NoScript
<1>4. /\ schema = script.target /\ script.target \in loaded /\ script.target \in Releases
      /\ script.target \in Nat /\ script.previous \in Releases \cup {0}
  BY <1>1, DeploymentAssumption DEF DeploymentInv, Progress, Migrated, Unloaded, Scripts, Releases
<1>5. DeploymentTypeOK'
  BY <1>2, <1>4 DEF DeploymentInv, DeploymentTypeOK
<1>6. RecipeIsSafe'
  BY <1>1, <1>2 DEF DeploymentInv, UpgradeIsSafe, RecipeIsSafe, Worked, Dumps
<1>7. FreshHasOne'
  <2>1. Fresh => script.kind = "install"
    BY <1>1 DEF DeploymentInv, UpgradeIsSafe, Worked, Fresh, Scripts
  <2> QED BY <2>1, <1>2, <1>3 DEF DeploymentInv, FreshHasOne, Fresh
<1>8. RunningIsLoaded' /\ DumpForWhatServes'
  BY <1>2, <1>4 DEF DeploymentInv, RunningIsLoaded, DumpForWhatServes
<1> QED BY <1>2, <1>3, <1>5, <1>6, <1>7, <1>8 DEF DeploymentInv, Progress, UpgradeIsSafe

\* A report closes the recipe.
LEMMA ReportKeeps == ASSUME DeploymentInv, UNCHANGED first, WriteReport PROVE DeploymentInv'
<1>1. /\ script' = NoScript /\ guidance' = 0 /\ reported' = reported \cup {script.target}
      /\ UNCHANGED <<loaded, running, schema, backups, skipped, hurried>>
  BY DEF WriteReport, host, histories
<1>2. NoScript.kind = "none"
  BY DEF NoScript
<1> QED BY <1>1, <1>2 DEF DeploymentInv, DeploymentTypeOK, Progress, UpgradeIsSafe, RecipeIsSafe,
                          RunningIsLoaded, FreshHasOne, Fresh, DumpForWhatServes

\* The other phases, and what a bundle is.
LEMMA OtherPhasesKeep ==
    ASSUME DeploymentInv, UNCHANGED first,
           \/ BundleCheck \/ Postgres \/ Grants \/ ServedModels \/ Health \/ DataRepair
           \/ ValidateConfig \/ FirstAdmin \/ SmokeTest \/ AuditVerify
    PROVE  DeploymentInv'
<1>1. /\ script.at \in {"bundle", "postgres", "grants", "models", "health", "repair", "config",
                        "admin", "smoke", "audit"}
      /\ Pass \/ Fails
      /\ UNCHANGED <<loaded, running, schema, backups, reported, skipped, hurried>>
  BY DEF BundleCheck, Postgres, Grants, ServedModels, Health, DataRepair, ValidateConfig,
         FirstAdmin, SmokeTest, AuditVerify, At, PassIf, untouched, host, histories
<1>2. script # NoScript
  BY <1>1 DEF NoScript
<1>3. CASE Pass
  BY <1>1, <1>2, <1>3, PassKeeps
<1>4. CASE Fails
  BY <1>1, <1>4, FailsKeeps
<1> QED BY <1>1, <1>3, <1>4

\* The invariant is inductive.
THEOREM DeploymentInvariance == DeploymentSpec => []DeploymentInv
<1>1. DeploymentInv /\ [DeploymentNext]_deploymentVars => DeploymentInv'
  <2> SUFFICES ASSUME DeploymentInv, [DeploymentNext]_deploymentVars PROVE DeploymentInv'
    OBVIOUS
  <2>0. UNCHANGED first
    BY DEF DeploymentNext, deploymentVars
  <2>1. CASE \/ \E v \in Releases, whole \in BOOLEAN : Transfer(v, whole)
             \/ UNCHANGED deploymentVars
    <3>1. UNCHANGED <<first, loaded, running, schema, backups, script, guidance, reported,
                    skipped, hurried>>
      BY <2>0, <2>1 DEF Transfer, deploymentVars, host, histories
    <3> QED BY <3>1 DEF DeploymentInv, DeploymentTypeOK, Progress, UpgradeIsSafe, RecipeIsSafe,
                        RunningIsLoaded, FreshHasOne, Fresh, DumpForWhatServes, Worked, Dumps
  <2>2. CASE \/ \E options \in SUBSET Options : StartInstall(options)
             \/ \E v \in Releases, options \in SUBSET Options : StartUpgrade(v, options)
    BY <2>0, <2>2, StartKeeps
  <2>3. CASE RollBack
    BY <2>0, <2>3, RollBackKeeps
  <2>4. CASE Phase
    BY <2>0, <2>4, BackupKeeps, LoadKeeps, MigrateKeeps, BringUpKeeps, ReportKeeps, OtherPhasesKeep
       DEF Phase
  <2>5. CASE CommandFails
    BY <2>0, <2>5, FailsKeeps DEF CommandFails, host, histories
  <2>6. CASE UpFails
    BY <2>0, <2>6, UpFailsKeeps
  <2> QED BY <2>1, <2>2, <2>3, <2>4, <2>5, <2>6 DEF DeploymentNext, DeploymentStep
<1> QED BY <1>1, DeploymentInitially, PTL DEF DeploymentSpec

\* A rollback recipe never leads to a dead end: its release is on the host and worked,
\* unless an upgrade was started from one that had not, for any number of releases.
THEOREM RecipesLeadBack == DeploymentSpec => []RecipeLeadsBack
<1>1. DeploymentInv => RecipeLeadsBack
  BY DEF DeploymentInv, RecipeIsSafe, Worked, RecipeLeadsBack
<1> QED BY <1>1, DeploymentInvariance, PTL

\* While the database is ahead of the release that serves, there is a dump that this
\* release can read, unless SKIP_BACKUP was used or an unfinished release upgraded.
THEOREM DumpIsThere == DeploymentSpec => []DumpForWhatServes
<1>1. DeploymentInv => DumpForWhatServes
  BY DEF DeploymentInv
<1> QED BY <1>1, DeploymentInvariance, PTL

==============================================================================
