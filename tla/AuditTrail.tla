------------------------------ MODULE AuditTrail ------------------------------
(***************************************************************************)
(* The hash-chained audit log (audit/auditService.js), the retry outbox    *)
(* for AI audit events (auditRetryQueue.js, auditRetryWorker.js) and the   *)
(* chain verification (verifyAuditChain behind POST /audit/verify), with   *)
(* all the callers of appendAuditEvent at work at once.                    *)
(*                                                                         *)
(* SHA-256 is abstracted to what the chain relies on: it is injective and  *)
(* covers the previous hash, so a hash is the sequence of events it covers.*)
(* The id column is not modelled: it is drawn by the INSERT under the      *)
(* advisory lock, so the order of ids is the order of commits.             *)
(***************************************************************************)
EXTENDS Naturals, Sequences, FiniteSets

CONSTANTS
    Handlers,           \* request handlers that await appendAuditEvent after their write
    AiHandlers,         \* streaming AI handlers: appendAuditEventOrEnqueueRetry in onBeforeEnd
    Workers,            \* auditRetryWorker, one per process (two while deploys overlap)
    Auditors,           \* POST /audit/verify handlers
    RetryMaxAttempts,   \* config.audit.retryMaxAttempts
    RetryBatch,         \* config.audit.retryWorkerBatchSize
    VerifyBatch,        \* verifyAuditChain's page size
    MaxEvents,          \* bound: events issued in a behaviour
    MaxFaults,          \* bound: database statements that fail or whose answer is lost
    MaxCrashes          \* bound: backend crashes

Actors == Handlers \cup AiHandlers \cup Workers \cup Auditors
Events == 1 .. MaxEvents

ASSUME RolesAssumption ==
    /\ Handlers \cap (AiHandlers \cup Workers \cup Auditors) = {}
    /\ AiHandlers \cap (Workers \cup Auditors) = {}
    /\ Workers \cap Auditors = {}

ASSUME NumbersAssumption ==
    /\ RetryMaxAttempts \in Nat \ {0} /\ RetryBatch \in Nat \ {0} /\ VerifyBatch \in Nat \ {0}
    /\ MaxEvents \in Nat /\ MaxFaults \in Nat /\ MaxCrashes \in Nat

VARIABLES
    log,        \* audit_logs, by id: rows [event, prev_row_hash, curr_row_hash]
    lock,       \* transactions that hold pg_advisory_xact_lock(AUDIT_CHAIN_LOCK_KEY)
    pc,         \* where each actor stands
    event,      \* the event it is writing, 0 if none
    seen,       \* prevRowHash as its transaction read it
    outbox,     \* audit_retry_outbox.status per event, "none" without a row
    attempts,   \* audit_retry_outbox.attempts
    batch,      \* the claimed rows a worker has not finished
    check,      \* verifyAuditChain's local variables, and the log's length when it began
    issued,     \* history: events issued so far
    answered,   \* history: events whose handler has answered "done"
    lost,       \* history: AI events given up in the log file or by a crash
    doubtful,   \* history: events recorded although their writer was told otherwise
    stranded,   \* history: outbox rows left 'processing' by a worker that dropped them
    faults, crashes   \* history: faults and crashes so far

trail == <<log, lock>>
queueVars == <<outbox, attempts>>
ghosts == <<issued, answered, lost, doubtful, stranded, faults, crashes>>
vars == <<log, lock, pc, event, seen, outbox, attempts, batch, check,
          issued, answered, lost, doubtful, stranded, faults, crashes>>

GENESIS_HASH == <<>>
computeRowHash(prev, e) == Append(prev, e)
Row(prev, e) == [event |-> e, prev_row_hash |-> prev, curr_row_hash |-> computeRowHash(prev, e)]

\* curr_row_hash of the row with the highest id.
LastHash == IF log = <<>> THEN GENESIS_HASH ELSE log[Len(log)].curr_row_hash

Logged(e) == \E i \in 1 .. Len(log) : log[i].event = e
NoCheck == [expected |-> GENESIS_HASH, lastId |-> 0, rowsChecked |-> 0, verified |-> TRUE, begunAt |-> 0]

Init ==
    /\ log = <<>>
    /\ lock = {}
    /\ pc = [a \in Actors |-> "idle"]
    /\ event = [a \in Actors |-> 0]
    /\ seen = [a \in Actors |-> GENESIS_HASH]
    /\ outbox = [e \in Events |-> "none"]
    /\ attempts = [e \in Events |-> 0]
    /\ batch = [k \in Workers |-> {}]
    /\ check = [v \in Auditors |-> NoCheck]
    /\ issued = 0
    /\ answered = {} /\ lost = {} /\ doubtful = {} /\ stranded = {}
    /\ faults = 0 /\ crashes = 0

Goto(a, where) == pc' = [pc EXCEPT ![a] = where]
Fault == faults < MaxFaults /\ faults' = faults + 1

------------------------------------------------------------------------------
(* appendAuditEvent: one transaction per event.                               *)

\* A handler's own write has committed, or the AI answer is streamed: it begins
\* to record the event.
Begin(a) ==
    /\ a \in Handlers \cup AiHandlers
    /\ pc[a] = "idle"
    /\ issued < MaxEvents
    /\ issued' = issued + 1
    /\ event' = [event EXCEPT ![a] = issued + 1]
    /\ Goto(a, "begin")
    /\ UNCHANGED <<trail, seen, queueVars, batch, check, answered, lost, doubtful, stranded, faults, crashes>>

\* Mutant: the lock is not taken.
LockSkipped(a) ==
    /\ pc[a] = "begin"
    /\ Goto(a, "locked")
    /\ UNCHANGED <<trail, event, seen, queueVars, batch, check, ghosts>>

\* SELECT pg_advisory_xact_lock: granted when no transaction holds it.
Lock(a) ==
    /\ pc[a] = "begin"
    /\ lock = {}
    /\ lock' = {a}
    /\ Goto(a, "locked")
    /\ UNCHANGED <<log, event, seen, queueVars, batch, check, ghosts>>

\* Mutant: ordered by id ascending.
ReadFirst(a) ==
    /\ pc[a] = "locked"
    /\ seen' = [seen EXCEPT ![a] = IF log = <<>> THEN GENESIS_HASH ELSE log[1].curr_row_hash]
    /\ Goto(a, "read")
    /\ UNCHANGED <<trail, event, queueVars, batch, check, ghosts>>

\* The latest committed row, in a statement that began after the lock was granted.
ReadLast(a) ==
    /\ pc[a] = "locked"
    /\ seen' = [seen EXCEPT ![a] = LastHash]
    /\ Goto(a, "read")
    /\ UNCHANGED <<trail, event, queueVars, batch, check, ghosts>>

\* INSERT and COMMIT; the commit releases the lock.
Write(a) ==
    /\ log' = Append(log, Row(seen[a], event[a]))
    /\ lock' = lock \ {a}
    /\ seen' = [seen EXCEPT ![a] = GENESIS_HASH]

Commit(a) ==
    /\ pc[a] = "read"
    /\ Write(a)
    /\ Goto(a, "written")
    /\ UNCHANGED <<event, queueVars, batch, check, ghosts>>

\* The commit takes effect but its answer does not arrive.
CommitUnheard(a) ==
    /\ pc[a] = "read"
    /\ Fault
    /\ Write(a)
    /\ Goto(a, "error")
    /\ doubtful' = doubtful \cup {event[a]}
    /\ UNCHANGED <<event, queueVars, batch, check, issued, answered, lost, stranded, crashes>>

\* No connection, or a statement fails: the transaction rolls back.
Abort(a) ==
    /\ pc[a] \in {"begin", "locked", "read"}
    /\ Fault
    /\ lock' = lock \ {a}
    /\ seen' = [seen EXCEPT ![a] = GENESIS_HASH]
    /\ Goto(a, "error")
    /\ UNCHANGED <<log, event, queueVars, batch, check, issued, answered, lost, doubtful, stranded, crashes>>

Finish(a) ==
    /\ Goto(a, "idle")
    /\ event' = [event EXCEPT ![a] = 0]

------------------------------------------------------------------------------
(* The handlers' continuations.                                               *)

\* Success: the route answers 2xx; for an AI route the response ends.
Answer(a) ==
    /\ a \in Handlers \cup AiHandlers
    /\ pc[a] = "written"
    /\ answered' = answered \cup {event[a]}
    /\ Finish(a)
    /\ UNCHANGED <<trail, seen, queueVars, batch, check, issued, lost, doubtful, stranded, faults, crashes>>

\* A plain route answers 500.
AnswerError(a) ==
    /\ a \in Handlers
    /\ pc[a] = "error"
    /\ Finish(a)
    /\ UNCHANGED <<trail, seen, queueVars, batch, check, ghosts>>

\* Mutant: as before the outbox existed, the failure is only logged.
enqueueOmitted(a) ==
    /\ a \in AiHandlers
    /\ pc[a] = "error"
    /\ answered' = answered \cup {event[a]}
    /\ Finish(a)
    /\ UNCHANGED <<trail, seen, queueVars, batch, check, issued, lost, doubtful, stranded, faults, crashes>>

\* An AI route falls back on enqueueAuditRetry; the response then ends as usual.
enqueueAuditRetry(a) ==
    /\ a \in AiHandlers
    /\ pc[a] = "error"
    /\ outbox' = [outbox EXCEPT ![event[a]] = "pending"]
    /\ answered' = answered \cup {event[a]}
    /\ Finish(a)
    /\ UNCHANGED <<trail, seen, attempts, batch, check, issued, lost, doubtful, stranded, faults, crashes>>

\* That insert fails too, or its answer is lost: "event will be lost".
EnqueueFails(a) ==
    /\ a \in AiHandlers
    /\ pc[a] = "error"
    /\ Fault
    /\ outbox' \in {outbox, [outbox EXCEPT ![event[a]] = "pending"]}
    /\ lost' = lost \cup {event[a]}
    /\ answered' = answered \cup {event[a]}
    /\ Finish(a)
    /\ UNCHANGED <<trail, seen, attempts, batch, check, issued, doubtful, stranded, crashes>>

------------------------------------------------------------------------------
(* auditRetryWorker.  The running guard is pc[k] = "idle".                    *)

\* Mutant: only rows never tried before are claimed.
PendingUntried == {e \in Events : outbox[e] = "pending" /\ attempts[e] = 0}

Pending == {e \in Events : outbox[e] = "pending"}

\* The rows claimBatch may take: as many pending ones as fit.  Which of them
\* were created first, and the order RETURNING lists them in, is left open.
Claims == {S \in SUBSET Pending :
              Cardinality(S) = IF Cardinality(Pending) < RetryBatch
                               THEN Cardinality(Pending) ELSE RetryBatch}

\* A tick commits its claim and begins with one of the rows; with nothing
\* pending it does nothing.
claimBatch(k) ==
    /\ k \in Workers
    /\ pc[k] = "idle"
    /\ \E S \in Claims : \E e \in S :
          /\ batch' = [batch EXCEPT ![k] = S]
          /\ event' = [event EXCEPT ![k] = e]
          /\ outbox' = [f \in Events |-> IF f \in S THEN "processing" ELSE outbox[f]]
    /\ Goto(k, "begin")
    /\ UNCHANGED <<trail, seen, attempts, check, ghosts>>

\* The claim commits but its answer is lost: nobody processes those rows.
ClaimUnheard(k) ==
    /\ k \in Workers
    /\ pc[k] = "idle"
    /\ Fault
    /\ \E S \in Claims \ {{}} :
          /\ outbox' = [f \in Events |-> IF f \in S THEN "processing" ELSE outbox[f]]
          /\ stranded' = stranded \cup S
    /\ UNCHANGED <<trail, pc, event, seen, attempts, batch, check, issued, answered, lost, doubtful, crashes>>

EmptyTick(k) ==
    /\ k \in Workers
    /\ pc[k] = "idle" /\ Pending = {}
    /\ UNCHANGED vars

\* for (const job of jobs) await processJob(...): on to the next row, if any.
NextJob(k) ==
    LET rest == batch[k] \ {event[k]}
    IN  /\ batch' = [batch EXCEPT ![k] = rest]
        /\ IF rest = {} THEN Finish(k)
           ELSE /\ \E e \in rest : event' = [event EXCEPT ![k] = e]
                /\ Goto(k, "begin")

\* Mutant: the rows that failed before are not deleted.
DeleteFirstTry(k) ==
    /\ k \in Workers
    /\ pc[k] = "written"
    /\ outbox' = [outbox EXCEPT ![event[k]] = IF attempts[event[k]] = 0 THEN "none" ELSE "pending"]
    /\ NextJob(k)
    /\ UNCHANGED <<trail, seen, attempts, check, ghosts>>

\* The event is in audit_logs: its row is deleted.
DeleteRow(k) ==
    /\ k \in Workers
    /\ pc[k] = "written"
    /\ outbox' = [outbox EXCEPT ![event[k]] = "none"]
    /\ NextJob(k)
    /\ UNCHANGED <<trail, seen, attempts, check, ghosts>>

\* The delete fails, or seems to, inside the same try: the event is recorded and
\* counts as failed.
DeleteFails(k) ==
    /\ k \in Workers
    /\ pc[k] = "written"
    /\ Fault
    /\ outbox' \in {outbox, [outbox EXCEPT ![event[k]] = "none"]}
    /\ doubtful' = doubtful \cup {event[k]}
    /\ Goto(k, "error")
    /\ UNCHANGED <<trail, event, seen, attempts, batch, check, issued, answered, lost, stranded, crashes>>

\* attempts >= config.audit.retryMaxAttempts ? 'failed' : 'pending'
NextStatus(n) == IF n >= RetryMaxAttempts THEN "failed" ELSE "pending"

\* UPDATE audit_retry_outbox ... WHERE id = job.id: no effect on a deleted row.
Reschedule(e) ==
    IF outbox[e] = "none" THEN UNCHANGED queueVars
    ELSE /\ attempts' = [attempts EXCEPT ![e] = @ + 1]
         /\ outbox' = [outbox EXCEPT ![e] = NextStatus(attempts[e] + 1)]

RetryLater(k) ==
    /\ k \in Workers
    /\ pc[k] = "error"
    /\ Reschedule(event[k])
    /\ NextJob(k)
    /\ UNCHANGED <<trail, seen, check, ghosts>>

\* The update in the catch block fails as well, or seems to: processJob rejects,
\* the tick ends, and the rest of its batch is not looked at.
RetryLaterFails(k) ==
    /\ k \in Workers
    /\ pc[k] = "error"
    /\ Fault
    /\ Reschedule(event[k]) \/ UNCHANGED queueVars
    /\ batch' = [batch EXCEPT ![k] = {}]
    /\ stranded' = stranded \cup batch[k]
    /\ Finish(k)
    /\ UNCHANGED <<trail, seen, check, issued, answered, lost, doubtful, crashes>>

------------------------------------------------------------------------------
(* verifyAuditChain, one page per step.                                       *)

\* POST /audit/verify; the verification is itself an audited event.
StartVerify(v) ==
    /\ v \in Auditors
    /\ pc[v] = "idle"
    /\ issued < MaxEvents
    /\ check' = [check EXCEPT ![v] = [NoCheck EXCEPT !.begunAt = Len(log)]]
    /\ Goto(v, "verifying")
    /\ UNCHANGED <<trail, event, seen, queueVars, batch, ghosts>>

\* The rows of the next page: at most VerifyBatch with id > lastId.
PageEnd(v) ==
    LET last == check[v].lastId + VerifyBatch IN IF last > Len(log) THEN Len(log) ELSE last

\* expectedPrevHash when the loop reaches row i.
ExpectedPrev(v, i) ==
    IF i = check[v].lastId + 1 THEN check[v].expected ELSE log[i - 1].curr_row_hash

PageVerifies(v) ==
    \A i \in check[v].lastId + 1 .. PageEnd(v) :
        /\ log[i].prev_row_hash = ExpectedPrev(v, i)
        /\ log[i].curr_row_hash = computeRowHash(log[i].prev_row_hash, log[i].event)

\* Mutant: expectedPrevHash is not carried over to the next page.
AdvanceForgets(v, end) ==
    check' = [check EXCEPT ![v].lastId = end,
                           ![v].rowsChecked = @ + (end - check[v].lastId),
                           ![v].verified = PageVerifies(v)]

\* The page's verdict, and what the next page starts from: the last row's hash
\* and id (of no further use after a page that does not verify).
Advance(v, end) ==
    check' = [check EXCEPT
                 ![v].expected = IF end = check[v].lastId THEN @ ELSE log[end].curr_row_hash,
                 ![v].lastId = end,
                 ![v].rowsChecked = @ + (end - check[v].lastId),
                 ![v].verified = PageVerifies(v)]

\* A full page is followed by another one, after a turn of the event loop.
VerifyPage(v) ==
    /\ pc[v] = "verifying"
    /\ PageVerifies(v)
    /\ PageEnd(v) = check[v].lastId + VerifyBatch
    /\ Advance(v, PageEnd(v))
    /\ UNCHANGED <<trail, pc, event, seen, queueVars, batch, ghosts>>

\* A short or empty page is the last one, and so is a page with a row that does
\* not verify; then the attempt itself is recorded.
VerifyLastPage(v) ==
    /\ pc[v] = "verifying" /\ issued < MaxEvents
    /\ PageVerifies(v) => PageEnd(v) < check[v].lastId + VerifyBatch
    /\ Advance(v, PageEnd(v))
    /\ issued' = issued + 1
    /\ event' = [event EXCEPT ![v] = issued + 1]
    /\ Goto(v, "begin")
    /\ UNCHANGED <<trail, seen, queueVars, batch, answered, lost, doubtful, stranded, faults, crashes>>

VerifyAnswer(v) ==
    /\ v \in Auditors
    /\ pc[v] \in {"written", "error"}
    /\ check' = [check EXCEPT ![v] = NoCheck]
    /\ Finish(v)
    /\ UNCHANGED <<trail, seen, queueVars, batch, ghosts>>

------------------------------------------------------------------------------
\* The process dies: open transactions roll back and their locks go, every
\* local variable is gone, claimed rows stay 'processing'.
Crash ==
    /\ crashes < MaxCrashes
    /\ crashes' = crashes + 1
    /\ lock' = {}
    /\ lost' = lost \cup {event[a] : a \in {b \in AiHandlers : pc[b] # "idle"}}
    /\ pc' = [a \in Actors |-> "idle"]
    /\ event' = [a \in Actors |-> 0]
    /\ seen' = [a \in Actors |-> GENESIS_HASH]
    /\ batch' = [k \in Workers |-> {}]
    /\ stranded' = stranded \cup UNION {batch[k] : k \in Workers}
    /\ check' = [v \in Auditors |-> NoCheck]
    /\ UNCHANGED <<log, queueVars, issued, answered, doubtful, faults>>

Transaction(a) ==
    Begin(a) \/ Lock(a) \/ ReadLast(a) \/ Commit(a) \/ CommitUnheard(a) \/ Abort(a)
Handler(a) == Answer(a) \/ AnswerError(a) \/ enqueueAuditRetry(a) \/ EnqueueFails(a)
Worker(k) ==
    \/ claimBatch(k) \/ ClaimUnheard(k) \/ EmptyTick(k) \/ DeleteRow(k) \/ DeleteFails(k)
    \/ RetryLater(k) \/ RetryLaterFails(k)
Auditor(v) ==
    StartVerify(v) \/ VerifyPage(v) \/ VerifyLastPage(v) \/ VerifyAnswer(v)

Next ==
    \/ Crash
    \/ \E a \in Actors : Transaction(a) \/ Handler(a)
    \/ \E k \in Workers : Worker(k)
    \/ \E v \in Auditors : Auditor(v)

Spec == Init /\ [][Next]_vars

\* PostgreSQL queues waiters for an advisory lock in order of arrival, so none
\* is passed over for ever; a statement that was sent completes; the worker's
\* timer keeps ticking.  Requests, faults and crashes are not promised.
FairSpec ==
    /\ Spec
    /\ \A a \in Actors : SF_vars(Lock(a)) /\ WF_vars(ReadLast(a)) /\ WF_vars(Commit(a))
    /\ \A a \in Actors : WF_vars(Answer(a) \/ AnswerError(a) \/ enqueueAuditRetry(a))
    /\ \A k \in Workers : WF_vars(claimBatch(k)) /\ WF_vars(DeleteRow(k) \/ RetryLater(k))

------------------------------------------------------------------------------
(* Properties *)

Hashes == Seq(Events)
Rows == [event : Events, prev_row_hash : Hashes, curr_row_hash : Hashes]

\* The types of the tables and of every actor's local state.
TypeOK ==
    /\ log \in Seq(Rows)
    /\ lock \subseteq Actors
    /\ pc \in [Actors -> {"idle", "begin", "locked", "read", "written", "error", "verifying"}]
    /\ event \in [Actors -> 0 .. MaxEvents]
    /\ seen \in [Actors -> Hashes]
    /\ outbox \in [Events -> {"none", "pending", "processing", "failed"}]
    /\ attempts \in [Events -> Nat]
    /\ batch \in [Workers -> SUBSET Events]
    /\ check \in [Auditors -> [expected : Hashes, lastId : Nat, rowsChecked : Nat,
                               verified : BOOLEAN, begunAt : Nat]]
    /\ issued \in 0 .. MaxEvents
    /\ answered \subseteq Events /\ lost \subseteq Events /\ doubtful \subseteq Events
    /\ stranded \subseteq Events
    /\ faults \in 0 .. MaxFaults /\ crashes \in 0 .. MaxCrashes

\* The stored chain verifies from the genesis hash to the last row at all times:
\* no two writers ever continued the same row (the fork the advisory lock is for).
ChainIntact ==
    \A i \in 1 .. Len(log) :
        /\ log[i].prev_row_hash = IF i = 1 THEN GENESIS_HASH ELSE log[i - 1].curr_row_hash
        /\ log[i].curr_row_hash = computeRowHash(log[i].prev_row_hash, log[i].event)

\* The last row's hash, which covers everything before it, is a history that
\* only grows by one event at a time (AppendOnlyLog).
History == INSTANCE AppendOnlyLog WITH history <- LastHash
AppendOnly == History!Spec

\* A verification that pages through the log while others append never accuses
\* an honest log, and covers at least the rows there were when it started.
VerifierTruthful ==
    \A v \in Auditors :
        /\ check[v].verified
        /\ pc[v] \in {"begin", "locked", "read", "written"} =>
              check[v].rowsChecked >= check[v].begunAt

\* A handler that has answered left evidence: the event is recorded, or its
\* outbox row exists, or both writes failed and it was reported lost.
AnswersLeaveEvidence ==
    \A e \in answered : Logged(e) \/ outbox[e] # "none" \/ e \in lost

\* An event is recorded twice only if a commit or a delete was not heard of.
OnceUnlessDoubtful ==
    \A i, j \in 1 .. Len(log) :
        i # j /\ log[i].event = log[j].event => log[i].event \in doubtful

\* A pending row is eventually replayed or dead-lettered, unless it is left behind.
PendingSettles ==
    \A e \in Events :
        outbox[e] = "pending" ~> (outbox[e] \in {"none", "failed"} \/ e \in stranded)

==============================================================================
