-------------------------------- MODULE Lookups --------------------------------
(***************************************************************************)
(* What the browser shows of the answers to its requests: search boxes,    *)
(* pickers, panels and navigational lists (frontend/src/components) that   *)
(* ask again before they are answered, each with its own way of telling a  *)
(* late answer from the one it wants; and the lists that are fetched page  *)
(* by page (fetchAllPages of frontend/src/api/client.js, over the routes   *)
(* of backend/src/routes) while their rows change.                         *)
(*                                                                         *)
(* A key is what a request asks for: a query, a scope, a page, a           *)
(* workspace.  A behaviour is that of one panel, chosen at the start.      *)
(***************************************************************************)
EXTENDS Integers, Sequences, SequencesExt, FiniteSets

CONSTANTS
    Keys,           \* what can be asked for
    Nothing,        \* nothing is asked for
    FirstRows,      \* rows of every list at the start
    Tied,           \* rows of the same created_at (or the same last message)
    PageSize,       \* rows of a page: the limit fetchAllPages asks for
    MaxFetches,     \* bound: requests
    MaxLists,       \* bound: requests for a list that comes page by page
    MaxChanges      \* bound: rows that come, go or move, and the requests by then

ASSUME LookupsAssumption ==
    /\ Nothing \notin Keys
    /\ FirstRows \in Nat /\ PageSize \in Nat \ {0}
    /\ MaxFetches \in Nat /\ MaxLists \in Nat /\ MaxChanges \in Nat

------------------------------------------------------------------------------
(* The panels.  guard: which answers are applied; debounced: a timer runs     *)
(* before the request is made; failure: what becomes of the answer on screen; *)
(* leave: what is dropped when nothing is asked for any more; pages: one      *)
(* answer, pages shown as they come, or pages shown when all have come;       *)
(* order: what the rows of a paged list are ordered by.                       *)

Panel(guard, debounced, failure, leave, pages, order) ==
    [guard |-> guard, debounced |-> debounced, failure |-> failure, leave |-> leave,
     pages |-> pages, order |-> order]

Searches(guard, leave) == Panel(guard, TRUE, "clears", leave, "one", "created")
Views(failure, leave) == Panel("none", FALSE, failure, leave, "one", "created")
Lists(guard, failure, pages, order) == Panel(guard, FALSE, failure, {"never"}, pages, order)

PeoplePicker == Searches("newest", {"answer"})
PeoplePickerOfOne == Searches("newest", {})
Suggestions == Searches("asked", {"answer", "timer"})
ThreadSuggestions == Suggestions
SearchBar == Searches("none", {"answer", "timer"})
EntityPicker == Searches("none", {"answer"})

EntityDetails == Panel("effect", FALSE, "keeps", {"never"}, "one", "created")
WorkspaceMembers == Views("keeps", {"never"})
OrgMembers == Views("keeps", {"never"})
ChannelMembers == Views("keeps", {"never"})
AdminChannelMembers == Views("keeps", {"never"})
Accounts == Views("keeps", {"never"})
AllWorkspaces == Views("clears", {"never"})
UserOrgs == Views("keeps", {"never"})
TrendingEntities == Views("keeps", {"never"})
WorkspaceTasks == Views("clears", {"never"})
Activity == Views("keeps", {"answer", "timer"})
DormantChannels == Views("keeps", {"never"})
MembershipGraph == Views("keeps", {"answer", "timer"})
Sentiment == Views("keeps", {"answer", "timer"})
InteractionTrend == Views("keeps", {"answer", "timer"})

Channels == Lists("effect", "keeps", "shown", "created")
AdminChannels == Lists("none", "keeps", "gathered", "created")
DirectMessages == Lists("none", "keeps", "shown", "activity")
Discoverable == Lists("none", "keeps", "gathered", "created")
Links == Lists("none", "clears", "gathered", "created")
OrgLinks == Links
Offers == Lists("none", "keeps", "gathered", "created")
ScopeChannels == Panel("none", FALSE, "clears", {"answer"}, "gathered", "created")

Panels ==
    {PeoplePicker, PeoplePickerOfOne, Suggestions, ThreadSuggestions, SearchBar, EntityPicker,
     EntityDetails, WorkspaceMembers, OrgMembers, ChannelMembers, AdminChannelMembers, Accounts,
     AllWorkspaces, UserOrgs, TrendingEntities, WorkspaceTasks, Activity, DormantChannels,
     MembershipGraph, Sentiment, InteractionTrend, Channels, AdminChannels, DirectMessages,
     Discoverable, Links, OrgLinks, Offers, ScopeChannels}

------------------------------------------------------------------------------
VARIABLES
    panel,          \* the panel this behaviour is about
    wanted,         \* the key it asks for now
    timer,          \* the key of the search its debounce timer will run
    fetches,        \* its requests, in the order they were made
    shown,          \* the request whose answer it shows, and the rows of it
    rows,           \* the lists behind the routes
    changes,        \* changes of the lists so far
    upset           \* history: an older answer, or its failure, undid a newer one

asking == <<panel, wanted, timer>>
vars == <<asking, fetches, shown, rows, changes, upset>>

Fetches == DOMAIN fetches
Paged == panel.pages # "one"
Requests == IF Paged THEN MaxLists ELSE MaxFetches
Blank == [of |-> 0, list |-> <<>>]
Initially == [i \in 1 .. FirstRows |-> i]

Init ==
    /\ panel \in Panels
    /\ wanted = Nothing /\ timer = Nothing /\ fetches = <<>> /\ shown = Blank
    /\ rows = [k \in Keys |-> IF Paged THEN Initially ELSE <<>>]
    /\ changes = 0 /\ upset = FALSE

\* A request.  For its current page, count and size stand for the two statements of a
\* route, -1 until they have run; begun and shifted are history.
Request(key) ==
    [key |-> key, state |-> "open", cancelled |-> FALSE, got |-> <<>>,
     count |-> -1, size |-> -1, begun |-> ToSet(rows[key]), shifted |-> FALSE]

\* An effect's cleanup sets `cancelled` for the requests of the effect before it.
Asked(key) ==
    /\ Len(fetches) < Requests
    /\ fetches' = Append([f \in Fetches |-> [fetches[f] EXCEPT !.cancelled = TRUE]], Request(key))

------------------------------------------------------------------------------
(* What the user does.                                                        *)

\* Typing, choosing, paging, or a reload after a change; a debounced search restarts
\* its timer.
Want(key) ==
    /\ wanted' = key
    /\ IF panel.debounced THEN timer' = key /\ Len(fetches) < Requests /\ UNCHANGED fetches
       ELSE Asked(key) /\ UNCHANGED timer
    /\ UNCHANGED <<panel, shown, rows, changes, upset>>

\* The timer fires.
Search ==
    /\ timer # Nothing /\ timer' = Nothing /\ Asked(timer)
    /\ UNCHANGED <<panel, wanted, shown, rows, changes, upset>>

\* The search is cleared, the selection made, the scope incomplete.
Leave ==
    /\ "never" \notin panel.leave /\ wanted # Nothing /\ wanted' = Nothing
    /\ shown' = IF "answer" \in panel.leave THEN Blank ELSE shown
    /\ timer' = IF "timer" \in panel.leave THEN Nothing ELSE timer
    /\ UNCHANGED <<panel, fetches, rows, changes, upset>>

\* PeoplePicker's handleFocus: with nothing to show it searches at once.
Focus(key) ==
    /\ panel.guard = "newest" /\ wanted \in {Nothing, key} /\ wanted' = key
    /\ IF shown = Blank THEN Asked(key) ELSE UNCHANGED fetches
    /\ UNCHANGED <<panel, timer, shown, rows, changes, upset>>

------------------------------------------------------------------------------
(* The routes: each page is read by two statements, in either order.          *)

Open(f) == fetches[f].state = "open"

Count(f) ==
    /\ Paged /\ Open(f) /\ fetches[f].count = -1
    /\ fetches' = [fetches EXCEPT ![f].count = Len(rows[fetches[f].key])]
    /\ UNCHANGED <<asking, shown, rows, changes, upset>>

\* Rows of a list next to each other that ORDER BY does not tell apart: a row that comes
\* between two rows is not of their created_at unless it ties with them too.
Together(list, i) == i > 1 /\ {list[i - 1], list[i]} \subseteq Tied

\* There is no second ORDER BY: a statement may find two such rows the other way round.
Orders(list) ==
    {list} \cup {[list EXCEPT ![i] = list[i - 1], ![i - 1] = list[i]] :
                    i \in {j \in DOMAIN list : Together(list, j)}}

\* LIMIT and OFFSET: the rows after those that came.
NextPage(got, list) == SubSeq(list, Len(got) + 1, Min({Len(got) + PageSize, Len(list)}))

Read(f) ==
    LET fetch == fetches[f]
        list == rows[fetch.key]
    IN
    /\ Paged /\ Open(f) /\ fetch.size = -1
    /\ \E order \in Orders(list) :
           LET page == NextPage(fetch.got, order) IN
           fetches' = [fetches EXCEPT
               ![f] = [fetch EXCEPT !.got = @ \o page, !.size = Len(page),
                                    !.shifted = @ \/ page # NextPage(fetch.got, list)]]
    /\ UNCHANGED <<asking, shown, rows, changes, upset>>

\* What a change at a place does to the requests under way: a row that goes was not
\* there all along; those that have read past the place miss a row or meet one again, and
\* a row that comes between their two statements may end them early, unless it is the
\* last of a list whose rows do not move.
Shifted(key, list, place) ==
    [f \in Fetches |->
        IF Open(f) /\ fetches[f].key = key
        THEN [fetches[f] EXCEPT
                !.begun = @ \cap ToSet(list),
                !.shifted = \/ @ \/ place <= Len(fetches[f].got)
                            \/ /\ Len(list) > Len(rows[key])
                               /\ place < Len(list) \/ panel.order = "activity"
                               /\ fetches[f].count >= 0 /\ fetches[f].size < 0]
        ELSE fetches[f]]

Change(key, list, place) ==
    /\ Paged /\ changes + Len(fetches) < MaxChanges /\ changes' = changes + 1
    /\ \E f \in Fetches : Open(f) /\ fetches[f].key = key
    /\ rows' = [rows EXCEPT ![key] = list]
    /\ fetches' = Shifted(key, list, place)
    /\ UNCHANGED <<asking, shown, upset>>

\* A row that is created, or that the caller may see from now on: one joins a channel,
\* a workspace is opened to all or un-archived, a transaction that began earlier commits.
Insert(key) ==
    \E place \in 1 .. Len(rows[key]) + 1 :
        /\ place \in DOMAIN rows[key] => ~Together(rows[key], place)
        /\ Change(key, InsertAt(rows[key], place, FirstRows + changes + 1), place)

Delete(key) ==
    \E place \in DOMAIN rows[key] : Change(key, RemoveAt(rows[key], place), place)

\* A message makes its conversation the first one.
Rise(key) ==
    \E place \in 2 .. Len(rows[key]) :
        /\ panel.order = "activity"
        /\ Change(key, <<rows[key][place]>> \o RemoveAt(rows[key], place), 1)

------------------------------------------------------------------------------
(* The answers.                                                               *)

\* Mutant: no guard at all.
AppliesAll(f) == TRUE

\* Whether the answer to f is applied.
Applies(f) ==
    CASE panel.guard = "newest" -> f = Len(fetches)
      [] panel.guard = "asked" -> fetches[f].key = wanted
      [] panel.guard = "effect" -> ~fetches[f].cancelled
      [] OTHER -> TRUE

\* Whether the failure of f is: the suggestions ask only that the trigger be the same.
AppliesFailure(f) ==
    CASE panel.guard = "asked" -> wanted # Nothing
      [] OTHER -> Applies(f)

\* Mutant: the loop ends one page early.
LastPageOffByOne(fetch) == fetch.size = 0 \/ Len(fetch.got) + PageSize >= fetch.count

\* fetchAllPages ends at an empty page or at the total.
LastPage(fetch) == fetch.size = 0 \/ Len(fetch.got) >= fetch.count

\* A newer request was answered.
Outdone(f) == \E g \in Fetches : g > f /\ fetches[g].state = "done"

Answer(f) ==
    LET fetch == fetches[f]
        done == ~Paged \/ LastPage(fetch)
        show == (done \/ panel.pages = "shown") /\ Applies(f)
    IN
    /\ Open(f)
    /\ Paged => fetch.count >= 0 /\ fetch.size >= 0
    /\ fetches' = [fetches EXCEPT ![f] =
           [fetch EXCEPT !.state = IF done THEN "done" ELSE "open", !.count = -1, !.size = -1]]
    /\ shown' = IF show THEN [of |-> f, list |-> fetch.got] ELSE shown
    /\ upset' = (upset \/ (show /\ Outdone(f) /\ panel.guard = "none"))
    /\ UNCHANGED <<asking, rows, changes>>

Fail(f) ==
    LET clear == panel.failure = "clears" /\ AppliesFailure(f) IN
    /\ Open(f) /\ fetches' = [fetches EXCEPT ![f].state = "failed"]
    /\ shown' = IF clear THEN Blank ELSE shown
    /\ upset' = (upset \/ (clear /\ Outdone(f) /\ panel.guard \in {"none", "asked"}))
    /\ UNCHANGED <<asking, rows, changes>>

Next ==
    \/ Search \/ Leave
    \/ \E key \in Keys : Want(key) \/ Focus(key) \/ Insert(key) \/ Delete(key) \/ Rise(key)
    \/ \E f \in Fetches : Count(f) \/ Read(f) \/ Answer(f) \/ Fail(f)

Spec == Init /\ [][Next]_vars

------------------------------------------------------------------------------
AtRest == timer = Nothing /\ \A f \in Fetches : ~Open(f)

\* When every answer is in and the newest request, for what is still wanted, was answered,
\* the panel shows that answer, in whatever order the answers came: always where a
\* sequence number or an effect's cleanup guards it, and elsewhere but for an older
\* answer (or, for suggestions, an older failure) that came after a newer one.
NewestIsShown ==
    LET newest == Len(fetches) IN
    AtRest /\ ~upset /\ newest > 0 =>
        (fetches[newest].state = "done" /\ fetches[newest].key = wanted =>
            /\ shown.of # 0 /\ fetches[shown.of].key = wanted
            /\ panel.guard # "asked" => shown = [of |-> newest, list |-> fetches[newest].got])

\* A list fetched page by page has every row that was there all along, and none twice,
\* whatever the size of a page and wherever rows come and go: but for a change before the
\* place it had reached, a row that came between a page's two statements, or a page on
\* which two rows of the same created_at changed places.
PagesComplete ==
    \A f \in Fetches :
        Paged /\ fetches[f].state = "done" /\ ~fetches[f].shifted =>
            /\ fetches[f].begun \subseteq ToSet(fetches[f].got)
            /\ IsInjective(fetches[f].got)

==============================================================================
