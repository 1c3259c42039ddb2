# SilentWhisper: specifications and proofs

SilentWhisper is a self-hosted chat application: an Express and WebSocket backend in one
Node process, PostgreSQL, a React frontend, and scripts that install and upgrade it without
a network. These TLA+ modules model the parts whose correctness depends on the order of things:
in the backend the AI admission gate, the audit log and its outbox, messages and their jobs, the
WebSocket registries, refresh tokens, and every route that changes who belongs where; in
the browser the session, the chat feed, what is selected, searched, listed and edited; on the host the
two scripts. TLC checks them on small instances; TLAPS proves every safety property of the
passing runs, and some more, for every value of the constants.

`PROJECT.json` lists the components, the runs, the source lines of every definition, the
hazards, the mutants that show what each property catches, and the theorems.

Run `tlc -config <run>.cfg <Module>` and `tlapm <Module>Proofs.tla` in this directory.

## How concurrency is modelled

Two grains of atomicity are used, both from the code:

* Node runs one continuation at a time. The code between two `await`s is one action; every
  other handler, timer and event may run at an `await`. A statement that is awaited is in
  effect when the database executes it, and the continuation sees its answer later.
* PostgreSQL runs at READ COMMITTED. A statement is one action; a transaction matters as a
  unit where it holds a lock (the advisory lock of the audit chain, the row lock of a
  message or of a refresh token) or must take effect together, and it rolls back when its connection dies.

A failure of a statement is either of two things for the caller who sees an exception: it did
not take effect, or it did and the answer was lost. The modules have both. A crash loses all
memory of the process; the database keeps what was committed.

In the browser a handler runs to its next `await`; React's state setters take effect before the
next event, a closure keeps the values of the render it was made in, and effects run after the
state they depend on has changed. In the shell scripts an action is one phase.

## Components

| Component | State | Operations | Interacts with | What makes it correct |
|---|---|---|---|---|
| AI gate (`llm/concurrencyGate.js`) | `inFlight`, `queue` | acquire, abort, release | AI routes, settings row, `res` close events | slots neither leak nor double, FIFO, the queue drains |
| Audit log (`audit/auditService.js`) | `audit_logs`, advisory lock | append, verify | every mutating route | one chain, no fork; verification truthful |
| Audit outbox (`auditRetryQueue.js`, `auditRetryWorker.js`) | `audit_retry_outbox` | enqueue, claim, replay, delete, retry | AI routes, audit log | an answered AI request leaves evidence; rows settle; no silent duplicates |
| Messages (`routes/messages.js`, `messageService.js`) | `messages`, `message_edits` | create, edit, toggle | sockets, job queues, audit log | no lost update |
| Message jobs (two queues, two workers) | `message_side_effect_jobs`, `embedding_jobs`, their outputs | enqueue, backfill, claim, process, retry | messages, sockets | outputs catch up with the text; one push per user |
| Sockets (`ws/*`) | user connections, rooms, presence | authenticate, join, leave, heartbeat, close, sweeps, disconnectUser | account disabling, membership queries | registries agree with the sockets |
| Sessions (`auth/*`, `routes/auth.js`) | `refresh_tokens` | login, refresh, logout, reset, change password | account status | no session survives revocation; reuse detected |
| Accounts (`routes/admin.js`) | `users` | create, disable, enable, promote, demote, reset | sessions, sockets | disabled means out; an administrator remains |
| Workspaces, organizations (`routes/workspaces.js`, `organizations.js`, `authz/*`) | members, roles, channels, settings | roles, transfer, leave, remove, archive, channels | invitations, messages | one owner; channel members are workspace members; an archived scope is closed |
| Invitations (`routes/invitations.js`, `membershipInvitations.js`) | `invitations`, `membership_invitations` | create, accept, decline, revoke, expire | scopes, notifications | an answer is final; one account per link |
| Direct messages (`routes/directMessages.js`) | DIRECT channels | open under the pair's lock | channels | one fresh channel per pair |
| Read routes (search, reports, lists) | none | queries | members, channels | what was written stays inside |
| Management panels (`WorkspaceSettingsSheet.jsx`, `UserManagementPanel.jsx`, `OrgManagementPanel.jsx`, `SystemAdminPanel.jsx` and the like) | none | a button for each row | lists, membership routes | a button is refused only where that is known |
| Entities (`entityService.js`, `routes/entities.js`) | names, aliases | find or create, edit aliases | message worker | a name resolves to one row |
| Notifications (`routes/notifications.js`, `NotificationPanel.jsx`) | mentions, notices, badge, panel | file, count, mark, answer | worker, offers, sockets | the badge is true; an unread notice can be cleared |
| Frontend session (`api/client.js`, `AuthContext.jsx`) | token, user, cookie | restore, sign in and out, refresh, retry | sessions, socket | the tab shows the session it has |
| Frontend feed (`ws/socket.js`, `ChatShell.jsx`, `ChannelView.jsx`) | socket, joined channels, messages | connect, select, send, merge, reconnect | sockets, messages | feeds complete, nothing twice, joined again |
| Frontend selection (`ChatShell.jsx`) | organization, workspace, channel, thread, entity | every click, late answers, effects | lists | what is open belongs together |
| Frontend lookups, lists, panels (`components/*`) | answers, forms | ask, apply, page, save | read and write routes | newest answer shown, pages complete, saves kept |
| Installing and upgrading (`scripts/airgap-*.sh`) | images, schema, dumps | phases, rollback by hand | operator, backup | a way back always exists; upgrades complete |
| LLM adapters, providers, validation, configuration, rendering, migrations | none of their own | calls, pure functions, text | all of the above | local |

What is hard in this code: state read before an `await` and used after it (limits, membership,
account status, message content, closures of the browser), answers lost after a commit, rows
claimed by a worker that then dies, several statements of one handler of which a later one fails, process
memory (rooms, presence, the gate) that has to follow events nobody waits for, and answers
that reach the browser in another order than they were asked for.

## Modules

| Module | Models | Checked by |
|---|---|---|
| `LlmGate` | the gate with its callers from request to release | `MCLlmGate` / `llm_gate` |
| `AppendOnlyLog` | what the audit trail promises: a history that grows by one event | refined by `AuditTrail` |
| `AuditTrail` | append, outbox, retry worker, verification, failures and crashes | `audit_trail` |
| `MessageEdits` | `messages`, `message_edits` and the two updating transactions | as part of `MessageJobs` |
| `MessageJobs` | extends `MessageEdits` by the two job queues and workers | `MCMessageJobs` / `message_side_effects`, `message_embeddings` |
| `Sockets` | frame handlers in two parts, registries, presence, disabling | `MCSockets` / `sockets` |
| `Sessions` | refresh tokens of one account, the handlers and administrative actions that change them | `MCSessions` / `sessions`, `sessions_this_tab` |
| `Access` | the tables of a scope, permissions, a request as checks and a write | as part of `Memberships` |
| `Workspaces`, `Organizations`, `Invitations`, `DirectMessages` | extend `Access` by the routes of one file each | as part of `Memberships` |
| `Memberships` | composes them: Init, Next, what must hold however requests overlap | `MCMemberships` / `memberships` |
| `Listings` | extends `Memberships` by every query: who sees which rows | `MCMemberships` / `memberships` |
| `Panels` | extends `Listings` by the buttons that the management panels put on those rows | `MCMemberships` / `memberships` |
| `EntityNames`, `Notifications` | entity names and aliases; one user's notifications | `MCStores` / `stores` |
| `ChatFeed` | socket client, feed and the server's side of one connection | `chat_feed` |
| `Lookups`, `Editors`, `Shell`, `ClientSession` | the browser's panels, selection and session | `MCBrowser` / `browser` |
| `Deployment` | releases, both scripts, dumps, operator | `MCDeployment` / `deployment` |
| `*Proofs` | the theorems; which module has whose is said under Proofs | tlapm |

`MCStores` and `MCBrowser` put modules that share no state side by side; a behaviour of the run
is that of one of them. `Workspaces`, `Organizations`, `Invitations` and
`DirectMessages` share the variables of `Access` and are truly composed.

### LlmGate

A member of `Requests` is a client of an AI route. `pc` follows its handler: `loading` (database reads before
the close listener exists), `settings` (listener attached, limit being read), `capped` (it holds the limit it
read, in `cap`, and is about to call `acquireSlot`), `waiting`, `generating`, `auditing` (only the streaming
routes await `onBeforeEnd` with the slot held). `acquireSlot` is the four actions
`AcquireAborted/Free/Refused/Queued`, its `onAbort` is `DisconnectQueued`, `release` is `Release`, used by
every way out. The limit the gate compares with is the caller's own, perhaps outdated: this is why
`WithinPeak` speaks of the highest limit ever stored (`peak`), and why `OvertakingNeedsARaise` allows a
newcomer to pass waiters only with a larger limit than theirs, which is the behaviour of the code after an
administrator raises the limit. `gone` and `signal` are two variables because a close before the listener is
attached is never heard.

### AuditTrail and AppendOnlyLog

`appendAuditEvent` is `Begin`, `Lock`, `ReadLast`, `Commit`, with `Abort` and `CommitUnheard` for
its failures. Its callers differ in what they do next: a plain handler answers (`Answer`,
`AnswerError`), a streaming AI handler falls back on the outbox (`enqueueAuditRetry`,
`EnqueueFails`), a worker deletes or reschedules its row, an auditor's verification is itself an
audited event. Hashes are sequences of events: injective and covering the previous hash, which
is all the chain uses of SHA-256. The `id` column is the position in `log`, since the insert happens
under the lock. The history variables `lost`, `doubtful` and `stranded` name the
failures that the code lets go: an event given up, a record whose writer was told it failed, a row left
'processing'. The properties say that nothing goes wrong outside these names.

### MessageEdits and MessageJobs

A content is a text and a version; the text stands for the mentions and entity tokens in it, a
checkbox toggle changes the version only. An edit or a toggle is `BeginUpdate` (SELECT ... FOR
UPDATE), then `CommitEdit`/`CommitToggle` or `RollBack`. `MessageJobs` conjoins these with what the
route does next: broadcast, audit event, enqueue in the route's order (`todo`). The upsert's
WHERE clause is `InsertOrReset`. A worker's tick is backfill, claim, and for each job load, work,
complete, or catch and reschedule; the content is read in `loadMessageContext` and used later.
`StaleIsOwed` relates outputs to the latest text: while they lag, a job is on its way, or the
message is in `dropped`, `overtaken` or `stranded`, the three ways in which the code forgets one.
A vector or a link that lags behind a dead-lettered ('failed') embedding row counts as owed, since
the row is there for an operator to see; an edit does not revive such a row.

### Sockets

A frame that needs the database is two actions: its arrival with a positive answer of the query
(`Authenticate`, `Join`) puts it in `frames`, its continuation (`Authenticated`,
`AuthenticateRefused`, `Joined`) takes it out. Close events, timers and disable requests run in
between. A failing status query rejects in an event listener that nothing awaits, and the process ends
(`StatusQueryFails`). `missed` names the sockets that a continuation registered after they were
closed or evicted, or that a failed disable left open; `phantom` the users such a continuation
marked online. A second disable request for the same user that overlaps the first one repeats
the same steps and is not modelled apart.

### Sessions

One account, several browsers (a cookie jar each), handlers that serve one request at a time and stop
at every statement they await. `row` is the table; the reason of a revocation ("rotated", "loggedOut",
"swept") is history, the code keeps the time only. `LockRow` is the SELECT ... FOR UPDATE of
`rotateRefreshToken` and decides by the row; `Rotate` is its revoke and insert, committed together;
`Holds` says how long the row is held. `revokeAllRefreshTokensForUser`, and the same UPDATE in the
reuse branch, are `Snapshot` and `Sweep`: at READ COMMITTED the statement works on the rows committed
when it began and waits for the locked ones, so rows inserted meanwhile escape it. The model takes the
rows of a sweep at one moment, where PostgreSQL locks them one after the other; that two such statements
might block each other in the middle, and one be cancelled, is among the failures of `StatementFails`.
`Answer` includes the audit event; `AuditFails` is its failure, which leaves the cookie to the answer in login
and change-password (the header is set already), clears it in refresh, keeps it in logout.

`era` counts the forced sign-outs that were ordered (new password, disabled, reuse detected), `grade` is the
era of the credentials a token rests on, inherited by rotation. A live token of an older grade is one that
should be gone. `ForcedSignOutIsComplete` says that it exists only while the sweep is under way, or with an
excuse: "lateIssue" (inserted by a login or password change that had passed its checks before), "lateRotation"
(inserted by a refresh whose transaction committed after the sweep's snapshot) or "spared" (the sweep failed).
The late cases are what the code does, and a reader should know of them: a login or a refresh in flight during
a password change survives it. `DisabledHoldsNoSession`, proved and no longer run, leaves no "lateRotation"
for a disabled account, since POST /refresh checks the status after it has rotated.

### Access, Workspaces, Organizations, Invitations, DirectMessages, Memberships

The tables are those of one scope: a workspace with one channel, an organization, or a pair of users. Every
route of these files has the same shape, which `Access` makes a definition of: a handler awaits checks one
after another, each a query with a condition (`Passes`), keeps something of an answer (`Sees`), and writes. So
an action `ChangeRole(h)` is the request with its list of checks in the handler's order, and the write;
`Check` is every check between. Nothing that was checked is locked unless the code does so (`Holds`: FOR
UPDATE of the link or offer, the pair's advisory lock), so any other request may come between a check and the
write, which is where the routes differ: an insert meets a primary key (`Enrolled`), an update by id
overwrites whatever is there by now.

History variables name the overlaps that the code lets happen, and the properties say that nothing goes wrong
outside them: `contested` (a write met an owner its checks had not seen: two transfers under way together
leave two owners, a role change reaches the new one), `visitors` (seated in a channel after their membership
ended), `crossed` (a revocation lands on an acceptance committed since its read), `orphaned` (two
administrators demote each other), `doubled` (a direct channel beside one that was aged when looked for).
`validation.js:22` says OWNER is "structurally unique per workspace (guaranteed by migration 0012)"; 0012
creates no such index, which is why `contested` is needed.

### Listings

Each read route is one operator: who is answered, with which rows. `WrittenStaysInside` relates every query
over what was written to the membership of the reader.

### Panels

Each button is one operator: the requests it would send for the rows that a list of `Listings` shows. Some
panels hide a button by the role they were told (the frontend's `authz/permissions.js`, "kept in sync by hand"
with the backend's), some by a flag of the row, some not at all. `Accepts` evaluates the very check lists of
`Workspaces`, `Organizations` and `Invitations`, one check after the other, with what each sees.
`OffersAreAccepted` is an equivalence: the route refuses a button's request exactly in the cases of `Refused`.
TLC evaluates it between requests, since a request under way has changed nothing yet; the theorem has it of
every state (`ButtonsAreAnswered`).
These are what a reader should know of:

* An archived scope keeps its buttons in the administrators' lists, in the members' panels and on an
  invitation to it; the routes answer 409 (or, to archiving again, 200 without doing anything).
* The role select offers MANAGER to managers, and rows of managers and of the owner have a role select and
  Remove, whoever looks (`UserManagementPanel.jsx:338-364`); the routes want MANAGE_MANAGERS, and nobody
  changes the owner.
* "Invite (needs acceptance)" is offered for people who have a pending invitation; the route answers 409
  (`workspaces.js:625-630`).
* The search for a new owner finds the owner when an administrator searches.
* Archive and Unarchive are shown to managers to whom it is not delegated.
* The organization switcher offers to leave an organization that an administrator is no member of.

Two comments are contradicted by these: `workspaces.js:729-731` ("a picker built on this endpoint can never
suggest someone the add endpoint would then reject") and `WorkspaceSettingsSheet.jsx:526-528` ("this only
unlocks UI that the backend was already going to accept"). Left out are the forms that create scopes and
accounts, renaming, passwords and direct messages: what they can be refused for is the text that was typed.
The panels show the rows of the moment here; that they may be outdated is the subject of `Lookups` and
`Editors`.

### EntityNames

`findOrCreateEntity` is find, insert, and find again; an alias edit is the collision query and the update by
id. A unique index guards canonical names, nothing guards aliases, so a name may come to resolve to two rows
when two looks precede two writes (`raced`).

### Notifications

Rows on the server, frames on one socket, requests of one browser, and what badge and panel show. A count is
answered with the rows of one moment and applied at another. What the code lets happen, by name: `current` is
false after answers came in the wrong order; `guessed` after markAllRead, which takes the invitations from the
panel's own summary, so the badge undercounts when one came meanwhile; `unheard` after a frame was lost, since
a reconnection does not count again; `late` for an offer answered before its notice was filed, and `unmarked`
when marking it failed: both stay unread for good.

### ChatFeed

One tab, both ends of one connection, the wires between. Messages in a feed are numbers, placeholders their
negatives. The client joins on selection and again on 'authenticated', the server may turn a frame away before
it has authenticated, and refuse the handshake itself while `refusal` lasts: the access token has expired or
the account is disabled ("token", `server.js:136-155`, and the sweep of expired tokens), or other tabs hold
all connections ("full", `server.js:167-171`). The client then reconnects with the token it has
(`socket.js:57-59`): closing has cleared the timer that would refresh it, so it goes round until some other
request of the tab renews the token. `declined` are the channels whose join was refused (`server.js:197-200`):
nothing in the client hears that error frame, and nothing tries again on this connection. `SelectedIsJoined`
excuses both, and no other failure. `unseen` are messages broadcast while the client was not in the room or
lost with a connection, `overwritten` those that a history fetched before them took away again; a message is
in either until a history brings it. `FeedComplete` says that a feed never has a message twice, and that once
no broadcast or frame of its channel is on its way it has every message but these. The module has one tab
where `Sockets` has many, so the two name the same handlers apart (`HandleJoin` of one connection, its
`subscribed`).

### Lookups, Editors, Shell, ClientSession

`Lookups` describes a panel by three facts: which answers it applies, whether a timer debounces, what a
failure leaves on the screen; the source has each combination in the panels that `Lookups` lists, and a
behaviour is that of one. The same module has the lists fetched page by page, for any size of a page, while
rows come and go anywhere: lists are filtered by membership, visibility and archiving, so an old row may
appear in the middle. They are ordered by `created_at` (or the last message) alone, so two statements may find
rows that tie (`Tied`) in different orders; a page on which that happens counts as shifted. `Editors` does the
same for what follows a change: patch the row, reload the list, take the answer, or put back what the handler
saw; a change the server carried out counts as the newest of its scope although its answer is lost. `Shell`
has every handler of `ChatShell` that changes the selection, with what its closure saw. `ClientSession` has
one tab's token, cookie, shared refresh and single retry, and handlers that fail after part of their work
(`HandlerFails`).

As above, history variables name what the code lets happen. A reader should know of these:

* An older search answer overwrites a newer one in the panels without a sequence number
  (`UserManagementPanel.jsx:248` and those of the same kind in `Lookups`); two panels reload with the scope of
  the closure after an await.
* `PATCH /entities` answers without summary and relationships, and the panel replaces the whole
  entity by the answer; generating a summary puts back the entity as it was at the click.
* Leaving a workspace or an organization puts back the list captured at render; what came meanwhile is
  dropped. Pages of a workspace list reselect the first row each time, which `ChatShell.jsx:457-459` calls a
  "harmless no-op".
* A search hit in another organization's workspace is selected and at once deselected by the effect on
  the organization; its thread stays open, against `ChatShell.jsx:783-786`.
* Leaving a channel clears the one chosen meanwhile; a created channel is appended to the list of
  the workspace that is selected by then.
* A handler that fails half-way leaves tab and server apart until the user signs in or out: POST /refresh
  clears the cookie at whatever error, before the rotation or after it (`routes/auth.js:266-277`), which signs
  the tab out; login, the redemption of a link and a password change may fail with the cookie set; logout with
  the token revoked; GET /me after a page load with a session that nobody shows.
* Of two rows created in one transaction a list that comes page by page may show one twice and the other not
  at all.
* `streamPost` and the socket's timer do not report a lost session, although `AuthContext.jsx:39-40` says any
  request does. A wrong password (401) refreshes and sends the request again. A network failure of a refresh
  signs out with a valid cookie left. A refresh answered after signing out restores a token; a password change
  beside the tab's own refresh ends the session it has just opened.

### Deployment

Releases are numbered, a release brings one migration. Each phase of `airgap-install.sh` and
`airgap-upgrade.sh` is an action that passes or fails; the operator installs any release (`first`), stages
bundles, starts a script with options, follows the recipe that a failed upgrade printed or starts again.
`hurried` and `skipped` name the options that give a guarantee away. A bundle brings a manifest that lists its
own tars (`build-release-images.sh:86-90`), in place of the one before, and the scripts check that one
(`Intact`); the damaged tar of another bundle is found by `docker load` (`Loads`).

Things the text of the scripts and the runbook do not say, or say elsewhere only:

* `airgap-install.sh:213-225` has no case for the append-only table `message_edits` (migration 0027), so a
  fresh install of any release with it, the current one included, fails at Phase E however often it is tried,
  a defect that `airgap-upgrade.sh:276-284` describes as found and fixed in its own copy. No backend comes up,
  so there is nothing to upgrade either. `UpgradeCompletes` says both: from a release without the table an
  operator who keeps trying gets to the latest one; from any other, nothing is ever reported.
* A failure before step 7 may leave migrations applied, where `RUNBOOK.md` speaks of an enclave "completely
  untouched".
* After a failure in Phase F to H a second run is refused ("nothing to upgrade") until the operator has rolled
  back.

## Runs

| Run | Instance and bounds | Shows |
|---|---|---|
| `llm_gate` | 4 clients (2 streaming), limits {1, 2}, queue depth 2; 162,613 states | slots accounted, overtaking only after a raise, waiters served |
| `audit_trail` | one actor of each role, 2 attempts, batches of 2, pages of 1, 2 events, 3 faults, 1 crash; about 69,000 states | chain, refinement of `AppendOnlyLog`, evidence, verification, the outbox settles |
| `message_side_effects` | one workspace message, two texts, 2 writes, 2 faults, 1 crash; 212,683 states | one push per user, every job settles |
| `message_embeddings` | two handlers, 3 writes, 2 faults, 1 crash; 215,158 states | no lost edit, stale vectors owed |
| `sockets` | 3 sockets, 2 users, 1 channel, 2 frames in flight, limit 2, 1 disable; 878,128 states up to symmetry | registries, presence, leaks |
| `sessions` | 2 browsers, 3 handlers, 4 requests, 1 fault; 963,981 states up to symmetry | linear rotation, complete sign-outs |
| `memberships` | 5 users, 2 requests that overlap, 2 offers, 2 direct channels, administrators or not, from each of the settled scopes of `MCMemberships`; 317,392 states up to symmetry | one owner, an administrator remains, answers final, archived closed, queries, every button of every list |
| `stores` | 1 mention, 1 offer, 3 calls, 2 clicks, 1 trouble; 2 entities, 3 names, 2 members, 1 alias each; 2,370,175 states | badge, notices, one entity per name |
| `chat_feed` | 1 channel, 2 messages, 2 selections, 1 broken connection, expired token, full limit or refused join; 1,288,721 states | feed complete, joined again |
| `browser` | `Lookups`: 2 keys, 3 requests, 2 lists of 2 rows that tie, pages of 2, 3 changes and requests; `Editors`: 2 scopes, 2 fields, 3 writes, 1 selection, 1 fault; `Shell`: 3 organizations, 4 workspaces, 5 rooms, 3 clicks; `ClientSession`: 2 calls at once, 4 events, 4 tokens, 1 trouble; 2,262,939 states up to symmetry | what is shown is current and belongs together |
| `deployment` | 3 releases, the third a new major, any of them installed first, 2 faults; 158,496 states | a way back, a dump for what serves, upgrades complete |
| `sessions_this_tab` | one handler, so requests in sequence; no fault | counterexample to "this tab keeps working without interruption" |

The last one checks a sentence of the repository that the code does not keep; the finding in
`PROJECT.json` quotes it. It is expected to fail.

Why the bounds are enough for the questions asked: four clients fill two slots and two queue places, or one
slot, two places and a refusal; both limits allow a raise and a cut while clients wait. Two events and three
faults are a failed write, a failed replay and a failed bookkeeping statement of one event while another actor
writes; pages of one row make every append fall between pages. Two texts, one that mentions a user and names
an entity and one that does not, give an edit that adds and one that removes. Three writes are a send and two
updates that race. Three sockets and two users are a limit reached, a third handshake, and a bystander; two
frames in flight are the smallest race. Four requests are two sessions, an order to sign out and a refresh or
login that races it, three of them at once. Two overlapping requests of the membership routes are every pair
of routes with every order of their checks and writes, between an owner, a manager, a member or outsider,
administrators among them or not, and two persons without an account; the named races are all of two requests.
One mention and one offer are the two kinds of notifications, and three calls are a click beside two counts
that overtake each other. Two messages and a broken connection are a history that races a broadcast, with one
missed; one failure more or one refusal are a reconnection that is welcome or not. Two rows that tie, a third
that comes before, between or after them, and pages of two make full, partial and empty last pages. Each of
three releases as the first one installed is one without `message_edits`, and two with it. Three requests of a
lookup are an old answer, a new one and a failure. Three clicks are an open thread, a change of scope and a
late answer. The proved properties hold without these bounds, except that the bounds are themselves constants
of the modules, of arbitrary value.

Symmetry is used over sockets, users and frame slots in `sockets`, browsers and handlers in `sessions`,
handlers in `memberships`, calls in `stores`, fields and scopes in `browser`; no module or property tells the
members apart, and these runs check no liveness. `CHECK_DEADLOCK FALSE` is set where the system really stops:
all requests served, all writes done, all sockets closed, the bounds on what users do reached.

## Fairness

* `LlmGate!FairSpec`: a generation ends, because every adapter call has a timeout, and the audit
  write before the response's end settles. Clients and administrators owe nothing.
* `AuditTrail!FairSpec`: strong fairness of `Lock`, since PostgreSQL queues the waiters of an
  advisory lock; weak fairness of statements that were sent and of the handlers' continuations; the worker's
  timer keeps ticking. Faults, crashes and new requests are never promised.
* `MessageJobs!FairSpec`: the two workers' timers keep ticking, so reconciliation, claims and
  the processing of a claimed batch go on. Nothing is assumed of handlers, so a handler that stops
  between commit and enqueue is covered by `EveryMessageSettles`.
* `ChatFeed!Fairness`: events of the browser's socket fire, its reconnect timer ticks, the server reads frames
  and its queries are answered, the client hears what arrives. A join is answered one way or the other, a
  handshake too; nothing promises that a refusal ends or that a token is renewed (`Lapse`, `Relent` have no
  fairness). The user owes nothing and connections break a bounded number of times.
* `Deployment!FairSpec`: a phase that was started ends. Strong fairness of staging (the first and the latest
  release), starting and rolling back is an assumption about the operator, who keeps trying; no code makes it
  true.
* The other specifications have safety properties only and no fairness.

## Proofs

Eight modules have theorems about their full specification, for every value of the
constants under the modules' ASSUMEs (finite sets, positive limits, disjoint roles).

* **LlmGateProofs**. `IInv` is `TypeOK` with the counter equal to the number of holders, the queue
  duplicate-free and exactly the waiting handlers, each waiter's limit at most `inFlight`, limits in use at
  most `peak`, and signals consistent with `pc`. `QueuedAreOverLimit` is what makes it inductive: without it a
  non-empty queue might have no holder. From it: `TypeCorrect`, `NoSlotLeaks`, `GateBounds`, `QueueHonest`,
  `WaitersHaveAHolder`, `AbortedLeave`, and the action properties `OvertakingTheorem` and `FirstInFirstOut`,
  with lemmas about taking one position out of a sequence.
* **AuditTrailProofs**. The chain invariant says that only the lock's holder is between lock and commit, that
  what it read is still the last hash, and that the log is a chain; a second part relates a verifier's
  position and expected hash to the log. From it: `ChainNeverForks`, `ImplementsAppendOnlyLog` (initial states
  map to initial states, every step to `Record` or a stutter), `VerificationIsTruthful`. A third part,
  `EvidenceInv`, gives every event one actor that is responsible for it (`Own`), keeps its outbox row from
  being pending meanwhile, and says that whoever could still record it knows it is unrecorded or doubtful.
  From it: `AnsweredIsEvidenced`, `RecordedOnce`.
* **MessageJobsProofs**. First the messages alone: `EInv` says that the row lock is exclusive and its holder's
  `read` is the current content; from it `EditsAreNotLost`, of `MessageSpec`. Then `JobsImplementEdits`: every
  step of `MessageJobs` is a step of `MessageEdits` or leaves its variables alone, so the same holds of the
  whole. `JInv` adds the types, what a handler still has to enqueue (`HandlersOK`), what a batch may hold and
  what has been done of the job in hand (`BatchOK`, `RowOK`), that a row which is processing is in a batch or
  stranded (`StatusOK`), and that whoever was pushed has a row that prevents the next (`PushesOK`). `ChaseOK`
  is what makes `StaleIsOwed` inductive: a content overtaken while a job works on it has an enqueue behind it,
  so that completing the job never leaves a stale row to nobody. From it: `MentionsArePushedOnce`,
  `LagIsOwed`, `JobsLoseNoEdits`.
* **SocketsProofs**. `SInv`: types, a closed socket is registered only if missed, a live one exactly under its
  identity, presence agrees with the registry but for phantoms, frames in flight belong to authenticated
  sockets where that is needed. From it: `LimitHolds`, `RegistryIsFaithful`, `PresenceIsFaithful`,
  `CleanupIsComplete`, `IdentityNeverChanges`. The same module has the proof of `ChatFeed`. `FeedInv`: types,
  what a client believes of its connection (`Connected`), `JoinedIsSubscribed`, what each frame on a wire says
  of the message it names (`Wired`), a message is stored once (`StoredOnce`) under a number already given
  (`Numbered`) and shown once (`ShownOnce`), and, refused joins and handshakes among the steps,
  `NothingForgotten`: a stored message is in the feed, in a frame, owed by a handler that still awaits, or in
  `unseen` or `overwritten`. From it: `JoinedChannelsAreServed`, `FeedsAreComplete`.
* **SessionsProofs**. `SInv`: types, what a handler knows where it stands, the row lock is exclusive, a row
  about to be rotated is still unrevoked, all but one row of a chain are rotated, and the two sign-out
  properties, which are inductive beside it. A step either keeps all locks (`LocksKept`), moves rows forward
  only (`RowsForward`) and keeps what ends a token (`EndsKept`), or is treated by a lemma of its own. From it:
  `RotationNeverForks`, `SignOutsAreComplete`, `DisabledIsOut`.
* **StoresProofs** has three modules that share no names, one after the other. `Notifications`: `CInv` is the
  types of rows, requests and panel with `NoticesCanBeCleared` itself, which is inductive: each step either
  leaves offers and notices alone (`Undisturbed`) or is one of filing, resolving, marking and failing.
  `BadgeInv` says that one count at most is the latest, that as long as nothing has changed that it does not
  include, what its two queries have read is what there is (`LatestIsTrue`), and that the badge, once it comes
  from such a count, follows what is unread (`BadgeFollows`). From them: `NoticesAreCleared`, `BadgeCounts`.
  `EntityNames`: `NInv` is the types, rows that do not exist have no aliases, and what is about to be written
  was looked up: an edit that is not stale names only what resolves to its own row or to none, a link that is
  not stale names nothing that exists. Without these two the last write could not be known to be safe. From
  it: `OneRowPerName`. `Deployment`: `DeploymentInv` says what a script that has come to a phase has done
  (`Progress`), what an upgrade that took a dump and loaded images may rely on (`UpgradeIsSafe`), what the
  recipe of a failed one names (`RecipeIsSafe`), and that nothing else has run before the first report. From
  it: `RecipesLeadBack`, `DumpIsThere`.
* **MembershipsProofs**. `MInv` is the types with what each handler knows of its request at every check still
  to come (who is in it, where it may run, that it saw the scope open, that its target was no owner, that the
  link was unanswered), what it knows of the row it holds (`RowOK`: pending until it writes; the count of
  direct channels it saw under the lock), that no two handlers hold the same row, and the properties
  `OneOwner`, `AdministratorRemains` and `NothingIsMadeTwice`. These knowledge clauses are what a check buys
  in another statement than the write: without them a write cannot be seen to be safe. Each route has a lemma
  with its two halves, the request and the write; the writes share frames (`MembersWritten`, `RolesWritten`,
  `LinkWritten`, `OffersWritten`, `AdministratorsWritten` and others). From it: `OneOwnerHolds`,
  `AdministratorStays`, `MadeOnce`, and of single steps `ArchivedStaysClosed` and `AnswersAreFinal`.
  `InsideInv`, beside it, says that a request which may yet put somebody in the channel has seen a membership
  once that check is behind it (`SeatOK`), and that only members and the visitors a race lets in are there.
  From it: `WrittenInside`, of every query of `Listings`. `ListsAreAccepted` needs only the types of the
  invariant: a lemma for each button says what request it sends (`Press`), lemmas about one to four checks
  what `Accepts` comes to, and the rest compares that with `Refused`, in every combination of roles,
  overrides, flags and statuses.
* **BrowserProofs** has the four modules of the panels. `Lookups`: `ShownInv` relates the newest request to
  what is shown, panel by panel: what a guard admits, what a failure leaves, what a timer still owes.
  `PagesInv` is about the lists: none has a row twice (`Fine`); of each request for pages that no change has
  shifted, what it has got begins the list (`OpenPage`), and the rows that were there when it started lie
  within the rows it counted (`Ahead`), so that its last page completes them, for every `PageSize`; a
  statement's order is one of `Orders`, and one that matters to the page marks it as shifted. From them:
  `NewestAnswerShown`, `ListsComplete`. `Shell`: `ShellInv` has one clause for each kind of thing shown
  (thread, replies, rows, entity), each either of what is selected or of a request or mark that excuses it.
  From it: `SelectionBelongs`. `ClientSession`: `SessionInv` says that, unless a listed race or a handler that
  failed half-way has made it `loose`, the tab is loading, signed out or signed in with token, cookie and
  pending calls that agree (`Coherent`). From it: `TabAgreesWithServer`. `Editors`: `EditorsInv` keeps, for
  every request under way, that what it has saved, was answered or will put back fits what is stored, given
  what the module calls its races. From it: `PanelsShowWhatIsStored`, and of single steps `SavesAreKept`.

Every invariant and action property of a passing run is the conclusion of one of these theorems. Model-checked
only are the liveness properties (`WaitersServed`, `PendingSettles`, `EveryMessageSettles`,
`SelectedIsJoined`, `UpgradeCompletes`): liveness under fairness is out of the prover's reach. Sequences are
reasoned about by what is in them (`ToSet` of a sequence after an append, a removal or a split) and by their
positions; one place needs an induction, over the length of a list that a filter shortens (`Without` in
`Shell`), and has it from the least counterexample, since the induction theorems of the library cannot be
used.

Several listed theorems (`GateBounds`, `QueueHonest`, `FirstInFirstOut`, `LimitHolds`, `DisabledIsOut` and
others) have no run of their own: the property follows from an invariant that a run checks, or restates part
of it.

## Not modelled

* WebSocket rate limiter, HTTP rate limits, validation, configuration and start-up: counters and pure checks
  of one value, local to a request; no order of events matters to them.
* Embedding provider, sentiment, LLM adapters, prompts, health check: provider I/O and arithmetic on text and
  vectors. `LlmGate` and `MessageJobs` treat a call as a step that ends or fails.
* Rendering, and the schema text of the migrations (what a constraint does is part of the actions that meet
  it).
* The parsers' grammar, ranking and aggregation in reports: pure functions of one value.

Of the components that `PROJECT.json` calls partly modelled: creating and renaming a scope are single
transactions after which `Memberships` starts; one channel, one pair and one link stand for all of them, since
no statement relates two; group conversations are always new; fan-out of a message frame is a set of sends in
one continuation; presence frames and the layout of the feed are left out of `ChatFeed`; profile routes and
rejected credentials change no token.
