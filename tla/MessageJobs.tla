------------------------------ MODULE MessageJobs ------------------------------
(***************************************************************************)
(* The work that follows every change of a message (MessageEdits): mention *)
(* notifications and entity links through message_side_effect_jobs,        *)
(* embeddings through embedding_jobs.  The producers are the handlers of   *)
(* routes/messages.js and ws/server.js; the consumers are                  *)
(* workers/messageSideEffectsWorker.js and search/embeddingWorker.js, one  *)
(* of each (the application runs as a single instance).                    *)
(***************************************************************************)
EXTENDS MessageEdits, FiniteSets

CONSTANTS
    Queues,         \* the workers of the instance, of "sideEffects" and "embedding"
    InWorkspace,    \* those whose channel belongs to a workspace (the others are direct messages)
    Users, Mentions,    \* channel members, and whom each text mentions
    Entities, Tokens,   \* entities, and which ones each text names
    MaxAttempts,    \* config.messageSideEffects.maxAttempts, config.embedding.maxAttempts
    BatchSize,      \* workerBatchSize of both
    MaxFaults,      \* bound: statements or provider calls that fail
    MaxCrashes      \* bound: backend crashes

ASSUME MessagesAssumption ==
    /\ Queues \subseteq {"sideEffects", "embedding"}
    /\ InWorkspace \subseteq Messages
    /\ Mentions \in [Texts -> SUBSET Users]
    /\ Tokens \in [Texts -> SUBSET Entities]

ASSUME BoundsAssumption ==
    /\ MaxAttempts \in Nat \ {0} /\ BatchSize \in Nat \ {0}
    /\ MaxFaults \in Nat /\ MaxCrashes \in Nat

KindsOf(q) == IF q = "embedding" THEN {"EMBEDDING"} ELSE {"NOTIFICATION", "ENTITY_LINK"}
Kinds == UNION {KindsOf(q) : q \in Queues}
Jobs == Messages \X Kinds
JobsOf(q) == Messages \X KindsOf(q)
NoJob == <<>>

VARIABLES
    pc,         \* where each handler stands
    todo,       \* the jobs it has still to enqueue, in order
    status,     \* the job rows' status, "none" without a row
    attempts,   \* their attempts
    at,         \* where each worker stands; "idle" is running = false
    batch,      \* the jobs of its claim that it has not finished
    job,        \* the one it works on
    row,        \* the content loadMessageContext gave it
    notified,   \* mention_notifications: who has a row for the message
    links,      \* message_entities
    vector,     \* message_embeddings: the content the vector was computed from
    pushed,     \* history: `mention` frames pushed, per message and user
    dropped,    \* history: jobs that were never enqueued for the latest content
    overtaken,  \* history: jobs whose enqueue met a row already processing older content
    stranded,   \* history: jobs left 'processing' by a worker that dropped them
    faults, crashes   \* history: how many of each so far

handlerVars == <<pc, todo>>
queueVars == <<status, attempts>>
workerVars == <<at, batch, job, row>>
outputs == <<notified, links, vector, pushed>>
gaps == <<dropped, overtaken, stranded>>
counts == <<faults, crashes>>
vars == <<content, edits, rowLock, tx, read, writes, pc, todo, status, attempts,
          at, batch, job, row, notified, links, vector, pushed,
          dropped, overtaken, stranded, faults, crashes>>

Init ==
    /\ InitMessages
    /\ pc = [h \in Handlers |-> "idle"]
    /\ todo = [h \in Handlers |-> <<>>]
    /\ status = [j \in Jobs |-> "none"]
    /\ attempts = [j \in Jobs |-> 0]
    /\ at = [q \in Queues |-> "idle"]
    /\ batch = [q \in Queues |-> {}]
    /\ job = [q \in Queues |-> NoJob]
    /\ row = [q \in Queues |-> NoContent]
    /\ notified = [m \in Messages |-> {}]
    /\ links = [m \in Messages |-> {}]
    /\ vector = [m \in Messages |-> NoContent]
    /\ pushed = [m \in Messages |-> [u \in Users |-> 0]]
    /\ dropped = {} /\ overtaken = {} /\ stranded = {}
    /\ faults = 0 /\ crashes = 0

Goto(h, where) == pc' = [pc EXCEPT ![h] = where]
Fault == faults < MaxFaults /\ faults' = faults + 1 /\ UNCHANGED crashes

\* On to the next job, or to the answer.
Proceed(h, rest) ==
    /\ todo' = [todo EXCEPT ![h] = rest]
    /\ Goto(h, IF rest = <<>> THEN "idle" ELSE "enqueue")

\* jobTypes: links are for messages of a workspace only.
SideEffects(m) ==
    IF "sideEffects" \notin Queues THEN <<>>
    ELSE IF m \in InWorkspace THEN <<<<m, "NOTIFICATION">>, <<m, "ENTITY_LINK">>>>
    ELSE <<<<m, "NOTIFICATION">>>>

\* Mutant: a message that has a vector is not enqueued again.
EmbeddingOnce(m) ==
    IF "embedding" \in Queues /\ vector[m] = NoContent THEN <<<<m, "EMBEDDING">>>> ELSE <<>>

Embedding(m) == IF "embedding" \in Queues THEN <<<<m, "EMBEDDING">>>> ELSE <<>>

------------------------------------------------------------------------------
(* The handlers: send, edit, toggle a task.                                   *)

\* POST .../messages and the `message` frame: the row is inserted, the room
\* told, and the jobs are enqueued before the answer.
PostMessage(h) ==
    /\ pc[h] = "idle"
    /\ \E m \in Messages : createMessage(h, m) /\ Proceed(h, SideEffects(m) \o Embedding(m))
    /\ UNCHANGED <<queueVars, workerVars, outputs, gaps, counts>>

\* The statements of an update's transaction before its commit.
Update(h) ==
    /\ pc[h] = "idle"
    /\ \E m \in Messages : BeginUpdate(h, m) \/ RollBack(h, m)
    /\ UNCHANGED <<handlerVars, queueVars, workerVars, outputs, gaps, counts>>

\* The edit commits and the room is told; then the audit event is awaited before
\* anything is enqueued.
EditMessage(h) ==
    /\ \E m \in Messages :
          /\ CommitEdit(h, m)
          /\ todo' = [todo EXCEPT ![h] = Embedding(m) \o SideEffects(m)]
    /\ Goto(h, "audit")
    /\ UNCHANGED <<queueVars, workerVars, outputs, gaps, counts>>

\* The same for a toggle; only the embedding follows.
ToggleTask(h) ==
    /\ \E m \in Messages :
          /\ CommitToggle(h, m)
          /\ todo' = [todo EXCEPT ![h] = Embedding(m)]
    /\ Goto(h, "audit")
    /\ UNCHANGED <<queueVars, workerVars, outputs, gaps, counts>>

\* The audit event is recorded.
AuditWritten(h) ==
    /\ pc[h] = "audit"
    /\ Proceed(h, todo[h])
    /\ UNCHANGED <<messageVars, queueVars, workerVars, outputs, gaps, counts>>

ToDo(h) == {todo[h][i] : i \in 1 .. Len(todo[h])}

\* If it fails the route answers 500: the content has changed, nothing follows.
AuditFails(h) ==
    /\ pc[h] = "audit"
    /\ Fault
    /\ dropped' = dropped \cup ToDo(h)
    /\ todo' = [todo EXCEPT ![h] = <<>>]
    /\ Goto(h, "idle")
    /\ UNCHANGED <<messageVars, queueVars, workerVars, outputs, overtaken, stranded>>

\* Mutant: a plain ON CONFLICT DO NOTHING for the side effects too.
InsertIgnored(j) == status[j] = "none"

\* An embedding row is only inserted; a side-effect row that is completed or
\* failed is reset; any other row is left untouched.
InsertOrReset(j) ==
    \/ status[j] = "none"
    \/ j[2] # "EMBEDDING" /\ status[j] \in {"completed", "failed"}

Upsert(j) ==
    IF InsertOrReset(j)
    THEN /\ status' = [status EXCEPT ![j] = "pending"]
         /\ attempts' = [attempts EXCEPT ![j] = 0]
    ELSE UNCHANGED queueVars

\* What a worker has read is still what the job depends on: for a vector the
\* whole content, for mentions and links the text.
UpToDate(q) ==
    LET m == job[q][1] IN
    IF job[q][2] = "EMBEDDING" THEN row[q] = content[m] ELSE row[q][1] = content[m][1]

\* The worker has already read an older content for this job.
AlreadyRunning(j) ==
    \E q \in Queues : job[q] = j /\ at[q] \in {"work", "link", "done"} /\ ~UpToDate(q)

\* enqueueMessageSideEffectJobs and enqueueEmbeddingJob, one statement at a time.
Enqueue(h) ==
    /\ pc[h] = "enqueue"
    /\ LET j == Head(todo[h]) IN
          /\ Upsert(j)
          /\ overtaken' = IF AlreadyRunning(j) THEN overtaken \cup {j} ELSE overtaken
    /\ Proceed(h, Tail(todo[h]))
    /\ UNCHANGED <<messageVars, workerVars, outputs, dropped, stranded, counts>>

\* The jobs of the same enqueue call that come after the failing one.
SameCall(h) ==
    {j \in ToDo(h) : (j[2] = "EMBEDDING") = (Head(todo[h])[2] = "EMBEDDING")}

\* The statement fails, or seems to: the rest of its call, which comes before the
\* other call, is skipped, the failure swallowed.
EnqueueFails(h) ==
    /\ pc[h] = "enqueue"
    /\ Fault
    /\ Upsert(Head(todo[h])) \/ UNCHANGED queueVars
    /\ dropped' = dropped \cup SameCall(h)
    /\ \E n \in 1 .. Len(todo[h]) :
          /\ SameCall(h) = {todo[h][i] : i \in 1 .. n}
          /\ Proceed(h, SubSeq(todo[h], n + 1, Len(todo[h])))
    /\ UNCHANGED <<messageVars, workerVars, outputs, overtaken, stranded>>

------------------------------------------------------------------------------
(* The workers' ticks: reconciliation, when it is due, then a claim.          *)

\* Mutant: only messages without any row are backfilled.
MissingAll(kind) ==
    {<<m, kind>> : m \in {n \in Messages :
        content[n] # NoContent /\ \A k \in Kinds : status[<<n, k>>] = "none"}}

\* Messages that never got a row of this kind; for an embedding, nor a vector.
Missing(kind) ==
    {<<m, kind>> : m \in {n \in Messages :
        /\ content[n] # NoContent /\ status[<<n, kind>>] = "none"
        /\ kind = "ENTITY_LINK" => n \in InWorkspace
        /\ kind = "EMBEDDING" => vector[n] = NoContent}}

\* One INSERT ... SELECT ... ON CONFLICT DO NOTHING.
Backfill(kind) ==
    /\ status' = [j \in Jobs |-> IF j \in Missing(kind) THEN "pending" ELSE status[j]]
    /\ UNCHANGED <<messageVars, handlerVars, attempts, batch, job, row, outputs, gaps, counts>>

\* enqueueMissingMessageSideEffectJobs runs two of them.
BackfillNotifications ==
    /\ "sideEffects" \in Queues /\ at["sideEffects"] = "idle"
    /\ Backfill("NOTIFICATION")
    /\ at' = [at EXCEPT !["sideEffects"] = "backfill"]

BackfillEntityLinks ==
    /\ "sideEffects" \in Queues /\ at["sideEffects"] = "backfill"
    /\ Backfill("ENTITY_LINK")
    /\ at' = [at EXCEPT !["sideEffects"] = "claim"]

enqueueMissingEmbeddingJobs ==
    /\ "embedding" \in Queues /\ at["embedding"] = "idle"
    /\ Backfill("EMBEDDING")
    /\ at' = [at EXCEPT !["embedding"] = "claim"]

\* A statement of the tick fails before the claim: the tick is over, until the
\* timer starts the next one.
TickFails(q) ==
    /\ at[q] \in {"backfill", "claim"}
    /\ Fault
    /\ at' = [at EXCEPT ![q] = "idle"]
    /\ UNCHANGED <<messageVars, handlerVars, queueVars, batch, job, row, outputs, gaps>>

Pending(q) == {j \in JobsOf(q) : status[j] = "pending"}

\* As many pending rows as fit; which ones are the oldest is left open.
Claims(q) == {S \in SUBSET Pending(q) :
                 Cardinality(S) = IF Cardinality(Pending(q)) < BatchSize
                                  THEN Cardinality(Pending(q)) ELSE BatchSize}

StartJob(q, S) ==
    /\ batch' = [batch EXCEPT ![q] = S]
    /\ row' = [row EXCEPT ![q] = NoContent]
    /\ IF S = {}
       THEN /\ job' = [job EXCEPT ![q] = NoJob]
            /\ at' = [at EXCEPT ![q] = "idle"]
       ELSE /\ \E j \in S : job' = [job EXCEPT ![q] = j]
            /\ at' = [at EXCEPT ![q] = "load"]

claimBatch(q) ==
    /\ at[q] \in {"idle", "claim"}
    /\ \E S \in Claims(q) :
          /\ status' = [j \in Jobs |-> IF j \in S THEN "processing" ELSE status[j]]
          /\ StartJob(q, S)
    /\ UNCHANGED <<messageVars, handlerVars, attempts, outputs, gaps, counts>>

\* for (const job of jobs) await processJob(db, job)
NextJob(q) == StartJob(q, batch[q] \ {job[q]})

\* An exception that processJob does not catch ends the tick; the rows of the
\* batch stay as they are.
Abandon(q) ==
    /\ stranded' = stranded \cup {j \in batch[q] : status'[j] = "processing"}
    /\ StartJob(q, {})

------------------------------------------------------------------------------
(* processJob *)

\* The message is read in a statement of its own; from here on the job works on
\* this content.
loadMessageContext(q) ==
    /\ at[q] = "load"
    /\ row' = [row EXCEPT ![q] = content[job[q][1]]]
    /\ at' = [at EXCEPT ![q] = "work"]
    /\ dropped' = dropped \ {job[q]} /\ overtaken' = overtaken \ {job[q]}
    /\ UNCHANGED <<messageVars, handlerVars, queueVars, batch, job, outputs, stranded, counts>>

\* That read is outside the try.
LoadFails(q) ==
    /\ at[q] = "load"
    /\ Fault
    /\ UNCHANGED queueVars
    /\ Abandon(q)
    /\ UNCHANGED <<messageVars, handlerVars, outputs, dropped, overtaken>>

Working(q, kind) == at[q] = "work" /\ job[q][2] = kind
Mentioned(q) == Mentions[row[q][1]]
Named(q) == Tokens[row[q][1]]
New(q) == Mentioned(q) \ notified[job[q][1]]

\* Mutant: the frame goes to everyone mentioned, as it used to.
NotifyEveryone(q) ==
    LET m == job[q][1] IN
    /\ Working(q, "NOTIFICATION")
    /\ notified' = [notified EXCEPT ![m] = @ \cup Mentioned(q)]
    /\ pushed' = [pushed EXCEPT ![m] = [u \in Users |-> @[u] + IF u \in Mentioned(q) THEN 1 ELSE 0]]
    /\ at' = [at EXCEPT ![q] = "done"]
    /\ UNCHANGED <<messageVars, handlerVars, queueVars, batch, job, row, links, vector, gaps, counts>>

\* INSERT ... ON CONFLICT DO NOTHING RETURNING, then a frame to each row returned.
processNotificationJob(q) ==
    LET m == job[q][1] IN
    /\ Working(q, "NOTIFICATION")
    /\ notified' = [notified EXCEPT ![m] = @ \cup Mentioned(q)]
    /\ pushed' = [pushed EXCEPT ![m] = [u \in Users |-> @[u] + IF u \in New(q) THEN 1 ELSE 0]]
    /\ at' = [at EXCEPT ![q] = "done"]
    /\ UNCHANGED <<messageVars, handlerVars, queueVars, batch, job, row, links, vector, gaps, counts>>

\* linkMessageEntities: links the text no longer names are deleted first.
UnlinkEntities(q) ==
    /\ Working(q, "ENTITY_LINK")
    /\ links' = [links EXCEPT ![job[q][1]] = @ \cap Named(q)]
    /\ at' = [at EXCEPT ![q] = IF Named(q) = {} THEN "done" ELSE "link"]
    /\ UNCHANGED <<messageVars, handlerVars, queueVars, batch, job, row, notified, vector, pushed, gaps, counts>>

LinkEntities(q) ==
    /\ at[q] = "link"
    /\ links' = [links EXCEPT ![job[q][1]] = @ \cup Named(q)]
    /\ at' = [at EXCEPT ![q] = "done"]
    /\ UNCHANGED <<messageVars, handlerVars, queueVars, batch, job, row, notified, vector, pushed, gaps, counts>>

\* embedText has answered: vector, score, and the job row's deletion, in one
\* transaction.
StoreEmbedding(q) ==
    /\ Working(q, "EMBEDDING")
    /\ vector' = [vector EXCEPT ![job[q][1]] = row[q]]
    /\ status' = [status EXCEPT ![job[q]] = "none"]
    /\ NextJob(q)
    /\ UNCHANGED <<messageVars, handlerVars, attempts, notified, links, pushed, gaps, counts>>

\* A side-effect row is kept as 'completed'.
Complete(q) ==
    /\ at[q] = "done"
    /\ status' = [status EXCEPT ![job[q]] = "completed"]
    /\ NextJob(q)
    /\ UNCHANGED <<messageVars, handlerVars, attempts, outputs, gaps, counts>>

\* Inside the try a statement or the provider fails, or the answer is lost of a
\* statement that took effect: of the notifications' insert (then nobody is
\* pushed to), of the embedding's commit, of the last update.
JobFails(q) ==
    LET m == job[q][1] IN
    /\ at[q] \in {"work", "link", "done"}
    /\ Fault
    /\ \/ UNCHANGED <<status, notified, vector>>
       \/ /\ Working(q, "NOTIFICATION")
          /\ notified' = [notified EXCEPT ![m] = @ \cup Mentioned(q)]
          /\ UNCHANGED <<status, vector>>
       \/ /\ Working(q, "EMBEDDING")
          /\ vector' = [vector EXCEPT ![m] = row[q]]
          /\ status' = [status EXCEPT ![job[q]] = "none"]
          /\ UNCHANGED notified
       \/ /\ at[q] = "done"
          /\ status' = [status EXCEPT ![job[q]] = "completed"]
          /\ UNCHANGED <<notified, vector>>
    /\ at' = [at EXCEPT ![q] = "catch"]
    /\ UNCHANGED <<messageVars, handlerVars, attempts, batch, job, row, links, pushed, gaps>>

\* Mutant: a status that no query looks for.
NextStatusMisspelt(n) == IF n >= MaxAttempts THEN "failed" ELSE "retrying"

\* attempts >= maxAttempts ? 'failed' : 'pending'
NextStatus(n) == IF n >= MaxAttempts THEN "failed" ELSE "pending"

\* UPDATE ... SET status, attempts: no effect on a row that is not there.
Reschedule(j) ==
    IF status[j] = "none" THEN UNCHANGED queueVars
    ELSE /\ attempts' = [attempts EXCEPT ![j] = @ + 1]
         /\ status' = [status EXCEPT ![j] = NextStatus(attempts[j] + 1)]

RetryLater(q) ==
    /\ at[q] = "catch"
    /\ Reschedule(job[q])
    /\ NextJob(q)
    /\ UNCHANGED <<messageVars, handlerVars, outputs, gaps, counts>>

\* The update in the catch block fails as well, or seems to.
RetryLaterFails(q) ==
    /\ at[q] = "catch"
    /\ Fault
    /\ Reschedule(job[q]) \/ UNCHANGED queueVars
    /\ Abandon(q)
    /\ UNCHANGED <<messageVars, handlerVars, outputs, dropped, overtaken>>

------------------------------------------------------------------------------
\* The process dies: transactions roll back, handlers and ticks are gone.
Crash ==
    /\ crashes < MaxCrashes
    /\ crashes' = crashes + 1
    /\ pc' = [h \in Handlers |-> "idle"]
    /\ todo' = [h \in Handlers |-> <<>>]
    /\ dropped' = dropped \cup UNION {ToDo(h) : h \in Handlers}
    /\ at' = [q \in Queues |-> "idle"]
    /\ batch' = [q \in Queues |-> {}]
    /\ job' = [q \in Queues |-> NoJob]
    /\ row' = [q \in Queues |-> NoContent]
    /\ stranded' = stranded \cup UNION {{j \in batch[q] : status[j] = "processing"} : q \in Queues}
    /\ RollBackAll
    /\ UNCHANGED <<queueVars, outputs, overtaken, faults>>

Handler(h) ==
    \/ PostMessage(h) \/ Update(h) \/ EditMessage(h) \/ ToggleTask(h)
    \/ AuditWritten(h) \/ AuditFails(h) \/ Enqueue(h) \/ EnqueueFails(h)

Reconcile == BackfillNotifications \/ BackfillEntityLinks \/ enqueueMissingEmbeddingJobs

Process(q) ==
    \/ loadMessageContext(q) \/ processNotificationJob(q) \/ UnlinkEntities(q) \/ LinkEntities(q)
    \/ StoreEmbedding(q) \/ Complete(q) \/ RetryLater(q)

Worker(q) ==
    TickFails(q) \/ claimBatch(q) \/ Process(q) \/ LoadFails(q) \/ JobFails(q) \/ RetryLaterFails(q)

Next ==
    \/ Crash
    \/ Reconcile
    \/ \E h \in Handlers : Handler(h)
    \/ \E q \in Queues : Worker(q)

Spec == Init /\ [][Next]_vars

\* The timers keep ticking, so each worker goes on with its batch, claims what is
\* pending, and reconciles when that is due.  Nothing is assumed of the handlers,
\* nor of failures.
FairSpec ==
    /\ Spec
    /\ WF_vars(BackfillNotifications) /\ WF_vars(BackfillEntityLinks)
    /\ WF_vars(enqueueMissingEmbeddingJobs)
    /\ \A q \in Queues : WF_vars(claimBatch(q)) /\ WF_vars(Process(q))

------------------------------------------------------------------------------
(* Properties *)

\* The types of the tables and of the handlers' and workers' local state.
TypeOK ==
    /\ MessagesTypeOK
    /\ pc \in [Handlers -> {"idle", "audit", "enqueue"}]
    /\ todo \in [Handlers -> Seq(Jobs)]
    /\ status \in [Jobs -> {"none", "pending", "processing", "completed", "failed"}]
    /\ attempts \in [Jobs -> Nat]
    /\ at \in [Queues -> {"idle", "backfill", "claim", "load", "work", "link", "done", "catch"}]
    /\ batch \in [Queues -> SUBSET Jobs]
    /\ job \in [Queues -> Jobs \cup {NoJob}]
    /\ row \in [Queues -> Contents \cup {NoContent}]
    /\ notified \in [Messages -> SUBSET Users]
    /\ links \in [Messages -> SUBSET Entities]
    /\ vector \in [Messages -> Contents \cup {NoContent}]
    /\ pushed \in [Messages -> [Users -> Nat]]
    /\ dropped \subseteq Jobs /\ overtaken \subseteq Jobs /\ stranded \subseteq Jobs
    /\ faults \in 0 .. MaxFaults /\ crashes \in 0 .. MaxCrashes

\* Whatever is retried, replayed, edited or backfilled, a user is pushed at most
\* one `mention` frame for a message.
PushedOnce == \A m \in Messages, u \in Users : pushed[m][u] <= 1

\* What a job of this kind would change if it ran now.
Stale(j) ==
    LET m == j[1] IN
    /\ content[m] # NoContent
    /\ \/ j[2] = "NOTIFICATION" /\ ~(Mentions[content[m][1]] \subseteq notified[m])
       \/ j[2] = "ENTITY_LINK" /\ m \in InWorkspace /\ links[m] # Tokens[content[m][1]]
       \/ j[2] = "EMBEDDING" /\ vector[m] # content[m]

\* A worker has it and will read, or has read, the latest content.
InGoodHands(j) ==
    \E q \in Queues :
        /\ j \in batch[q]
        /\ j = job[q] => at[q] \in {"load", "catch"} \/ UpToDate(q)

\* Somebody will still look at it, or it is dead-lettered for all to see.
Owed(j) ==
    \/ \E h \in Handlers : j \in ToDo(h)
    \/ status[j] \in {"pending", "failed"}
    \/ j \in Missing(j[2])
    \/ status[j] = "processing" /\ InGoodHands(j)

\* Notifications, links and vectors lag behind the text only while a job for them
\* is on its way; they are left behind for good only by the named failures: a job
\* never enqueued, an enqueue met by a running job, a tick that died.
StaleIsOwed ==
    \A j \in Jobs : Stale(j) => Owed(j) \/ j \in dropped \cup overtaken \cup stranded

\* Nothing is left for it to do, or its failure shows in its row.
Settled(j) ==
    \/ status[j] \in {"completed", "failed"}
    \/ j[2] = "EMBEDDING" /\ status[j] = "none" /\ vector[j[1]] # NoContent
    \/ j[2] = "ENTITY_LINK" /\ j[1] \notin InWorkspace
    \/ j \in stranded

\* Every message sent gets each of its jobs run, also when the enqueue failed or
\* the process died, unless the job ends in 'failed' or is left 'processing'.
EveryMessageSettles == \A j \in Jobs : content[j[1]] # NoContent ~> Settled(j)
==============================================================================
