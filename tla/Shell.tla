--------------------------------- MODULE Shell ---------------------------------
(***************************************************************************)
(* What is selected and open in the browser (frontend/src/components/      *)
(* ChatShell.jsx): organization, workspace, channel, thread and entity.    *)
(* Clicks change it at once; the lists come later, page by page; and the   *)
(* handlers that create, join or leave something go on, when they are      *)
(* answered, with the selection they saw when they were called.            *)
(*                                                                         *)
(* Left out: the messages of the channels (ChatFeed), what is left of a    *)
(* row but its name, and the sheets and panels themselves (Editors).       *)
(***************************************************************************)
EXTENDS Integers, Sequences, SequencesExt

CONSTANTS
    Organizations,  \* the user's, and one that can be created
    FirstOrgs,      \* the sequence of those the server lists
    Workspaces,     \* the user's, and those that can be created or joined
    FirstList,      \* the sequence of those the server lists
    OrgOf,          \* the organization of each workspace
    Rooms,          \* channels and direct conversations, with one thread each
    HomeOf,         \* the workspace of each, or Nowhere
    NewRooms,       \* those that can be created
    Nowhere,        \* null
    MaxClicks,      \* bound: what the user does
    MaxAwaited      \* bound: a click needs fewer requests under way

ASSUME ShellAssumption ==
    /\ Nowhere \notin Organizations \cup Workspaces \cup Rooms
    /\ FirstOrgs \in Seq(Organizations) /\ FirstList \in Seq(Workspaces)
    /\ OrgOf \in [Workspaces -> Organizations]
    /\ HomeOf \in [Rooms -> Workspaces \cup {Nowhere}] /\ NewRooms \subseteq Rooms
    /\ MaxClicks \in Nat /\ MaxAwaited \in Nat

VARIABLES
    org,            \* selectedOrganizationId
    workspace,      \* selectedWorkspaceId
    channel,        \* selectedChannelId
    thread,         \* threadRoot, by its channel
    replies,        \* threadReplies, by the channel of their root
    entity,         \* entityDetails, by its workspace
    organizations, workspaces, channels,    \* the lists
    awaited,        \* requests under way that differ, with what their handlers saw
    clicks,         \* what the user did so far
    odd             \* history: how what is open came to be from elsewhere

selection == <<org, workspace, channel, thread, entity>>
lists == <<organizations, workspaces, channels>>
shellVars == <<selection, replies, lists, awaited, clicks, odd>>

Direct == {room \in Rooms : HomeOf[room] = Nowhere}

\* A request and what its handler saw: a selection and a list.
Saw(op, of, at, list) == [op |-> op, of |-> of, at |-> at, list |-> list]
Awaited(op, of) == Saw(op, of, Nowhere, <<>>)

ShellInit ==
    /\ org = Nowhere /\ workspace = Nowhere /\ channel = Nowhere
    /\ thread = Nowhere /\ replies = Nowhere /\ entity = Nowhere
    /\ organizations = <<>> /\ workspaces = <<>> /\ channels = {}
    /\ awaited = {Awaited("listWorkspaces", Nowhere),
                  Awaited("listOrganizations", Nowhere)}
    /\ clicks = 0 /\ odd = {}

------------------------------------------------------------------------------
(* The updates of one handler, and the effects after them: a workspace of     *)
(* another organization is deselected with its channel, but not its thread;   *)
(* entity details close when the workspace changes, and its channels are      *)
(* asked for, an earlier request for channels being cancelled.                *)

Here == [org |-> org, workspace |-> workspace, channel |-> channel, thread |-> thread,
         entity |-> entity, list |-> workspaces]

Strange(s) ==
    /\ s.org # Nowhere /\ s.workspace \in ToSet(s.list)
    /\ OrgOf[s.workspace] # s.org

Cancelled(requests) == {r \in requests : r.op # "listChannels"}

\* requests and marks: what is still awaited, and odd, before the effects.
RenderWith(s, requests, marks) ==
    LET then == IF Strange(s) THEN Nowhere ELSE s.workspace
        moved == s.workspace # workspace \/ then # workspace
    IN
    /\ org' = s.org /\ workspace' = then
    /\ channel' = IF Strange(s) THEN Nowhere ELSE s.channel
    /\ thread' = s.thread /\ workspaces' = s.list
    /\ entity' = IF moved THEN Nowhere ELSE s.entity
    /\ awaited' =
           IF ~moved THEN requests
           ELSE Cancelled(requests) \cup
                (IF then = Nowhere THEN {} ELSE {Awaited("listChannels", then)})
    /\ odd' = (IF s.thread = thread /\ thread # Nowhere THEN marks ELSE marks \ {"orphan"})
              \cup (IF Strange(s) /\ s.thread # Nowhere THEN {"orphan"} ELSE {})

Render(s, requests) == RenderWith(s, requests, odd)

------------------------------------------------------------------------------
(* What the user does.                                                        *)

Click == clicks < MaxClicks /\ clicks' = clicks + 1 /\ Cardinality(awaited) < MaxAwaited

\* Mutant: the thread stays open.
ChoosingKeepingThread(s, room) == [s EXCEPT !.channel = room]

\* selectChannel
Choosing(s, room) == [s EXCEPT !.channel = room, !.thread = Nowhere]

SelectOrganization(o) ==
    /\ Click /\ o \in ToSet(organizations)
    /\ Render([Here EXCEPT !.org = o], awaited)
    /\ UNCHANGED <<replies, organizations, channels>>

\* handleSelectWorkspace: the sidebar lists those of the organization; the one that is
\* selected already is left for its home screen.
SelectWorkspace(w) ==
    /\ Click /\ w \in ToSet(workspaces) /\ org \in {Nowhere, OrgOf[w]}
    /\ Render(IF w = workspace THEN Choosing(Here, Nowhere)
              ELSE [Here EXCEPT !.workspace = w], awaited)
    /\ UNCHANGED <<replies, organizations, channels>>

SelectChannel(room) ==
    /\ Click
    /\ \/ room \in channels /\ workspace # Nowhere
       \/ room \in Direct \ NewRooms
    /\ Render(Choosing(Here, room), awaited)
    /\ UNCHANGED <<replies, organizations, channels>>

\* openThread, from a message of the channel.
OpenThread ==
    /\ Click /\ channel \in channels \cup Direct
    /\ Render([Here EXCEPT !.thread = channel], awaited \cup {Awaited("listReplies", channel)})
    /\ UNCHANGED <<replies, organizations, channels>>

CloseThread ==
    /\ Click /\ thread # Nowhere
    /\ Render([Here EXCEPT !.thread = Nowhere], awaited)
    /\ UNCHANGED <<replies, organizations, channels>>

\* handleNavigateToSearchResult and -Mention, handleViewContext: to a message of any
\* workspace, or to the thread of a reply; from an entity's references, which close.
Navigate(room, reply, context) ==
    LET there == IF HomeOf[room] = Nowhere THEN workspace ELSE HomeOf[room]
        chosen == [Choosing(Here, room) EXCEPT !.workspace = there,
                                               !.entity = IF context THEN Nowhere ELSE @]
    IN
    /\ Click /\ room \notin NewRooms
    /\ context => entity # Nowhere /\ HomeOf[room] = entity
    /\ Render(IF reply THEN [chosen EXCEPT !.thread = room] ELSE chosen,
              IF reply THEN awaited \cup {Awaited("listReplies", room)} ELSE awaited)
    /\ UNCHANGED <<replies, organizations, channels>>

\* handleOpenEntityFromExplorer
OpenFromExplorer ==
    /\ Click /\ workspace # Nowhere
    /\ entity' = workspace /\ odd' = odd \ {"entity"}
    /\ UNCHANGED <<org, workspace, channel, thread, replies, lists, awaited>>

\* A click that shows nothing before it is answered: the handlers below.
Begin(request) ==
    /\ Click /\ awaited' = awaited \cup {request}
    /\ UNCHANGED <<selection, replies, lists, odd>>

HandlerClick ==
    \/ workspace # Nowhere /\ channel \notin Direct /\ Begin(Awaited("openEntity", workspace))
    \/ \E w \in Workspaces :
           \/ w \notin ToSet(workspaces \o FirstList) /\ Begin(Awaited("createWorkspace", w))
           \/ w \in ToSet(workspaces) /\ Begin(Saw("leaveWorkspace", w, workspace, workspaces))
    \/ \E o \in Organizations :
           \/ o \notin ToSet(organizations \o FirstOrgs) /\ Begin(Awaited("createOrganization", o))
           \/ o = org /\ Begin(Saw("leaveOrganization", o, Nowhere, organizations))
    \/ \E room \in Rooms :
           \/ /\ room \in NewRooms \ channels /\ HomeOf[room] = workspace
              /\ Begin(Awaited("createChannel", room))
           \/ room \in channels /\ workspace # Nowhere /\ Begin(Awaited("joinChannel", room))
           \/ room \in channels \cap {channel} /\ Begin(Saw("leaveChannel", room, channel, <<>>))
           \/ room \in Direct /\ Begin(Awaited("openDirect", room))

------------------------------------------------------------------------------
(* The answers, to the handler of request r.                                  *)

Rest(r) == awaited \ {r}

\* prev.filter
Without(list, one) ==
    LET kept[n \in 0..Len(list)] ==
            IF n = 0 THEN <<>>
            ELSE IF list[n] = one THEN kept[n - 1] ELSE Append(kept[n - 1], list[n])
    IN kept[Len(list)]

First(list) == IF list = <<>> THEN Nowhere ELSE Head(list)

\* A page more of listWorkspaces (list: the pages that came) selects the first workspace.
WorkspacesPage(r) ==
    LET page == IF FirstList = <<>> THEN <<>> ELSE SubSeq(FirstList, 1, Len(r.list) + 1) IN
    /\ r.op = "listWorkspaces"
    /\ Render([Here EXCEPT !.list = page,
                           !.workspace = IF page = <<>> THEN @ ELSE Head(page)],
              IF page = FirstList THEN Rest(r) ELSE Rest(r) \cup {[r EXCEPT !.list = page]})
    /\ UNCHANGED <<replies, organizations, channels, clicks>>

OrganizationsPage(r) ==
    /\ r.op = "listOrganizations"
    /\ organizations' = FirstOrgs
    /\ Render([Here EXCEPT !.org = IF org = Nowhere THEN First(FirstOrgs) ELSE org], Rest(r))
    /\ UNCHANGED <<replies, channels, clicks>>

\* New channels may be anyone's.
ChannelsPage(r) ==
    /\ r.op = "listChannels"
    /\ \E new \in SUBSET NewRooms :
           channels' = {room \in (Rooms \ NewRooms) \cup new : HomeOf[room] = r.of}
    /\ awaited' = Rest(r) /\ odd' = odd \ {"rows"}
    /\ UNCHANGED <<selection, replies, organizations, workspaces, clicks>>

RepliesPage(r) ==
    LET root == r.of IN
    /\ r.op = "listReplies"
    /\ replies' = root
    /\ odd' = IF root = thread THEN odd \ {"replies"} ELSE odd \cup {"replies"}
    /\ awaited' = Rest(r)
    /\ UNCHANGED <<selection, lists, clicks>>

EntityOpened(r) ==
    LET home == r.of IN
    /\ r.op = "openEntity"
    /\ entity' = home
    /\ odd' = IF home = workspace THEN odd \ {"entity"} ELSE odd \cup {"entity"}
    /\ awaited' = Rest(r)
    /\ UNCHANGED <<org, workspace, channel, thread, replies, lists, clicks>>

\* What the handler that creates, joins or leaves something does to the selection.
Handled(r) ==
    CASE r.op = "createWorkspace" ->
             [Here EXCEPT !.list = Append(workspaces, r.of), !.workspace = r.of]
      [] r.op = "leaveWorkspace" ->
             LET remaining == Without(r.list, r.of) IN
             IF r.at # r.of THEN [Here EXCEPT !.list = remaining]
             ELSE [Choosing(Here, Nowhere) EXCEPT !.list = remaining, !.workspace = First(remaining)]
      [] r.op = "createOrganization" -> [Here EXCEPT !.org = r.of]
      [] r.op = "leaveOrganization" ->
             [Here EXCEPT !.org = IF @ = r.of THEN First(Without(r.list, r.of)) ELSE @]
      [] r.op = "leaveChannel" -> IF r.at = r.of THEN Choosing(Here, Nowhere) ELSE Here
      [] OTHER -> Choosing(Here, r.of)

\* ... and to the lists; a channel that is left stays listed when it is public.
Done(r) ==
    /\ r.op \in {"createWorkspace", "leaveWorkspace", "createOrganization", "leaveOrganization",
                 "createChannel", "joinChannel", "leaveChannel", "openDirect"}
    /\ organizations' = CASE r.op = "createOrganization" -> Append(organizations, r.of)
                          [] r.op = "leaveOrganization" -> Without(r.list, r.of)
                          [] OTHER -> organizations
    /\ channels' \in CASE r.op = "createChannel" -> {channels \cup {r.of}}
                       [] r.op = "leaveChannel" -> {channels, channels \ {r.of}}
                       [] OTHER -> {channels}
    /\ RenderWith(Handled(r), Rest(r),
                  IF r.op = "createChannel" /\ HomeOf[r.of] # workspace THEN odd \cup {"rows"} ELSE odd)
    /\ UNCHANGED <<replies, clicks>>

\* A request fails: its handler stops.
NotDone(r) ==
    /\ clicks < MaxClicks /\ clicks' = clicks + 1
    /\ awaited' = Rest(r)
    /\ odd' = odd \cup CASE r.op = "listChannels" -> {"rows"}
                         [] r.op = "listReplies" -> {"replies"}
                         [] OTHER -> {}
    /\ UNCHANGED <<selection, replies, lists>>

ShellNext ==
    \/ OpenThread \/ CloseThread \/ OpenFromExplorer \/ HandlerClick
    \/ \E o \in Organizations : SelectOrganization(o)
    \/ \E w \in Workspaces : SelectWorkspace(w)
    \/ \E room \in Rooms : SelectChannel(room)
    \/ \E room \in Rooms : \E reply, context \in BOOLEAN : Navigate(room, reply, context)
    \/ \E r \in awaited :
           \/ WorkspacesPage(r) \/ OrganizationsPage(r) \/ ChannelsPage(r)
           \/ RepliesPage(r) \/ EntityOpened(r) \/ Done(r) \/ NotDone(r)

ShellSpec == ShellInit /\ [][ShellNext]_shellVars

------------------------------------------------------------------------------
Awaits(op) == \E r \in awaited : r.op = op

\* What is open belongs together, whatever was clicked, answered late or left meanwhile:
\* a thread is of the selected channel, unless its workspace was deselected with the
\* organization; the replies shown are of the thread, and the channels listed and the
\* entity opened of the selected workspace, but for what a handler brought after its
\* workspace or thread was left; and no workspace of another organization stays selected.
OpenBelongs ==
    /\ thread # Nowhere => channel = thread \/ (channel = Nowhere /\ "orphan" \in odd)
    /\ thread # Nowhere /\ ~Awaits("listReplies") => replies = thread \/ "replies" \in odd
    /\ workspace # Nowhere /\ ~Awaits("listChannels") =>
           \A room \in channels : HomeOf[room] = workspace \/ "rows" \in odd
    /\ entity # Nowhere => entity = workspace \/ "entity" \in odd
    /\ ~Strange(Here)

==============================================================================
