------------------------------- MODULE LlmGate -------------------------------
(***************************************************************************)
(* The in-process admission gate in front of the LLM provider              *)
(* (llm/concurrencyGate.js), driven by its real callers: the three         *)
(* streaming AI routes through aiService.runStreamingCompletion and the    *)
(* entity-summary route through generateEntitySummary.                     *)
(*                                                                         *)
(* A member of Requests is a client; it issues one AI call at a time and   *)
(* may come back.  Node runs one continuation at a time, so every action   *)
(* below is the code between two awaits.                                   *)
(***************************************************************************)
EXTENDS Naturals, Sequences, FiniteSets

CONSTANTS Requests,   \* clients of the AI routes
          Streaming,  \* those of them that use the streaming routes (the others ask for entity summaries)
          Limits,     \* the values an administrator may save for maxConcurrentRequests
          QueueMax    \* config.llm.queueMaxDepth

ASSUME LimitsAssumption == Limits \subseteq Nat \ {0}    \* validateSettingsPatch: min 1
ASSUME QueueMaxAssumption == QueueMax \in Nat
ASSUME RequestsAssumption == IsFiniteSet(Requests)
ASSUME StreamingAssumption == Streaming \subseteq Requests

VARIABLES
    limit,      \* maxConcurrentRequests as stored in app_settings
    peak,       \* history: the highest value limit ever had
    inFlight,   \* concurrencyGate.inFlight
    queue,      \* concurrencyGate.queue: the requests whose entries wait, oldest first
    pc,         \* how far each request's handler has come
    cap,        \* the limit the handler read: acquireSlot's argument, 0 before and after that call
    signal,     \* "none" before the close listener exists, then "live" or "aborted"
    gone        \* the client has closed the connection

vars == <<limit, peak, inFlight, queue, pc, cap, signal, gone>>

Steps == {"idle", "loading", "settings", "capped", "waiting", "generating", "auditing"}

Holders == {r \in Requests : pc[r] \in {"generating", "auditing"}}

\* Position i of the sequence s is taken out, the others keep their order.
Without(s, i) == [j \in 1 .. Len(s) - 1 |-> IF j < i THEN s[j] ELSE s[j + 1]]

Init ==
    /\ limit \in Limits
    /\ peak = limit
    /\ inFlight = 0
    /\ queue = <<>>
    /\ pc = [r \in Requests |-> "idle"]
    /\ cap = [r \in Requests |-> 0]
    /\ signal = [r \in Requests |-> "none"]
    /\ gone = [r \in Requests |-> FALSE]

Gate == <<inFlight, queue>>
Settings == <<limit, peak>>

\* The AbortController goes with the response.
Forget(r) ==
    /\ signal' = [signal EXCEPT ![r] = "none"]
    /\ gone' = [gone EXCEPT ![r] = FALSE]

\* The handler answers without having held a slot.
Answer(r) ==
    /\ pc' = [pc EXCEPT ![r] = "idle"]
    /\ cap' = [cap EXCEPT ![r] = 0]
    /\ Forget(r)
    /\ UNCHANGED <<Gate, Settings>>

------------------------------------------------------------------------------
(* The route handler up to the moment the gate is asked. *)

\* The request arrives; authorisation and the database reads are under way.
Submit(r) ==
    /\ pc[r] = "idle"
    /\ pc' = [pc EXCEPT ![r] = "loading"]
    /\ UNCHANGED <<Gate, Settings, cap, signal, gone>>

\* Not a member, nothing to summarise, a malformed body: answered before the gate.
Reject(r) ==
    /\ pc[r] = "loading"
    /\ Answer(r)

\* The reads are done: the route creates the AbortController and listens for
\* the response's close event, which fires once.  A client that closed before
\* this point has closed unheard.
Listen(r) ==
    /\ pc[r] = "loading"
    /\ pc' = [pc EXCEPT ![r] = "settings"]
    /\ signal' = [signal EXCEPT ![r] = "live"]
    /\ UNCHANGED <<Gate, Settings, cap, gone>>

Summarize(r) == r \in Streaming /\ Listen(r)
ExtractTasks(r) == r \in Streaming /\ Listen(r)
WorkspaceDigest(r) == r \in Streaming /\ Listen(r)
EntitySummary(r) == r \notin Streaming /\ Listen(r)

\* getEffectiveSettings takes effect in the database; the handler resumes later
\* with what was true then.
ReadSettings(r) ==
    /\ pc[r] = "settings"
    /\ pc' = [pc EXCEPT ![r] = "capped"]
    /\ cap' = [cap EXCEPT ![r] = limit]
    /\ UNCHANGED <<Gate, Settings, signal, gone>>

\* provider = 'disabled': refused before the gate.
ProviderDisabled(r) ==
    /\ pc[r] = "settings"
    /\ Answer(r)

------------------------------------------------------------------------------
(* acquireSlot *)

AcquireAborted(r) ==
    /\ pc[r] = "capped" /\ signal[r] = "aborted"
    /\ Answer(r)

\* inFlight < maxConcurrent, with the maxConcurrent this caller read.
HasFreeSlot(r) == inFlight < cap[r]

AcquireFree(r) ==
    /\ pc[r] = "capped" /\ signal[r] # "aborted"
    /\ HasFreeSlot(r)
    /\ inFlight' = inFlight + 1
    /\ pc' = [pc EXCEPT ![r] = "generating"]
    /\ cap' = [cap EXCEPT ![r] = 0]
    /\ UNCHANGED <<queue, Settings, signal, gone>>

QueueIsFull == Len(queue) >= QueueMax

AcquireRefused(r) ==
    /\ pc[r] = "capped" /\ signal[r] # "aborted"
    /\ ~HasFreeSlot(r) /\ QueueIsFull
    /\ Answer(r)

AcquireQueued(r) ==
    /\ pc[r] = "capped" /\ signal[r] # "aborted"
    /\ ~HasFreeSlot(r) /\ ~QueueIsFull
    /\ queue' = Append(queue, r)
    /\ pc' = [pc EXCEPT ![r] = "waiting"]
    /\ UNCHANGED <<inFlight, Settings, cap, signal, gone>>

------------------------------------------------------------------------------
(* The response's close event: res.on('close', () => controller.abort()).     *)
(* Once the provider is at work a close only makes the adapter fail, which     *)
(* GenerateFail allows anyway; after that the signal is not looked at.         *)

Disconnect(r) ==
    /\ pc[r] \in {"loading", "settings", "capped"}
    /\ ~gone[r]
    /\ gone' = [gone EXCEPT ![r] = TRUE]
    /\ signal' = [signal EXCEPT ![r] = IF @ = "live" THEN "aborted" ELSE @]
    /\ UNCHANGED <<Gate, Settings, pc, cap>>

\* A close the listener hears while the entry waits runs onAbort in the same
\* turn: the entry leaves the queue and acquireSlot rejects.
DisconnectQueued(r) ==
    /\ pc[r] = "waiting"
    /\ ~gone[r]
    /\ \E i \in 1 .. Len(queue) : queue[i] = r /\ queue' = Without(queue, i)
    /\ pc' = [pc EXCEPT ![r] = "idle"]
    /\ cap' = [cap EXCEPT ![r] = 0]
    /\ Forget(r)
    /\ UNCHANGED <<inFlight, Settings>>

------------------------------------------------------------------------------
(* Generation, the audit write before the response ends, and release. *)

\* release(): the slot goes to the longest-waiting entry, whose handler
\* continues; only with nobody waiting does the count go down.
HandOver == IF queue = <<>> THEN {} ELSE {Head(queue)}

\* Mutant: the count goes down although the slot is handed over.
SlotsAlwaysDrop == IF inFlight > 0 THEN inFlight - 1 ELSE 0

SlotsAfterRelease ==
    IF queue # <<>> THEN inFlight ELSE IF inFlight > 0 THEN inFlight - 1 ELSE 0

Release(r) ==
    /\ inFlight' = SlotsAfterRelease
    /\ queue' = IF queue = <<>> THEN queue ELSE Tail(queue)
    /\ pc' = [q \in Requests |-> IF q = r THEN "idle"
                                 ELSE IF q \in HandOver THEN "generating" ELSE pc[q]]
    /\ cap' = [q \in Requests |-> IF q \in HandOver THEN 0 ELSE cap[q]]
    /\ Forget(r)
    /\ UNCHANGED Settings

\* adapter.generate resolved; the streaming routes now await onBeforeEnd.
GenerateStream(r) ==
    /\ pc[r] = "generating" /\ r \in Streaming
    /\ pc' = [pc EXCEPT ![r] = "auditing"]
    /\ UNCHANGED <<Gate, Settings, cap, signal, gone>>

\* generateEntitySummary has nothing left to await inside its try: the summary
\* row and its audit row are written by the route after the slot is given back.
GenerateJson(r) ==
    /\ pc[r] = "generating" /\ r \notin Streaming
    /\ Release(r)

\* Mutants: a failure that skips release(), and one that only decrements.
GenerateFailLeaks(r) ==
    /\ pc[r] = "generating"
    /\ Answer(r)

GenerateFailDecrements(r) ==
    /\ pc[r] = "generating"
    /\ inFlight' = inFlight - 1
    /\ pc' = [pc EXCEPT ![r] = "idle"]
    /\ Forget(r)
    /\ UNCHANGED <<queue, cap, Settings>>

\* The provider failed, timed out, or was aborted: finally { release() }.
GenerateFail(r) ==
    /\ pc[r] = "generating"
    /\ Release(r)

\* onBeforeEnd settled, one way or the other; res.end(), then finally.
EndResponse(r) ==
    /\ pc[r] = "auditing"
    /\ Release(r)

\* PATCH /ai/settings commits a new maxConcurrentRequests.
UpdateSettings ==
    /\ \E l \in Limits :
          /\ limit' = l
          /\ peak' = IF l > peak THEN l ELSE peak
    /\ UNCHANGED <<Gate, pc, cap, signal, gone>>

------------------------------------------------------------------------------
Step(r) ==
    \/ Submit(r) \/ Reject(r)
    \/ Summarize(r) \/ ExtractTasks(r) \/ WorkspaceDigest(r) \/ EntitySummary(r)
    \/ ReadSettings(r) \/ ProviderDisabled(r)
    \/ AcquireAborted(r) \/ AcquireFree(r) \/ AcquireRefused(r) \/ AcquireQueued(r)
    \/ Disconnect(r) \/ DisconnectQueued(r)
    \/ GenerateStream(r) \/ GenerateJson(r) \/ GenerateFail(r) \/ EndResponse(r)

Next == UpdateSettings \/ \E r \in Requests : Step(r)

Spec == Init /\ [][Next]_vars

\* Every adapter call has a timeout (settings.timeoutMs), so a generation ends,
\* and the audit write settles.  Nothing is assumed of clients or of admins.
FairSpec ==
    /\ Spec
    /\ \A r \in Requests : WF_vars(GenerateStream(r) \/ GenerateJson(r) \/ GenerateFail(r))
    /\ \A r \in Requests : WF_vars(EndResponse(r))

------------------------------------------------------------------------------
(* Properties *)

\* The types of the gate's state and of the handlers' local state.
TypeOK ==
    /\ limit \in Limits /\ peak \in Limits
    /\ inFlight \in Nat
    /\ queue \in Seq(Requests)
    /\ pc \in [Requests -> Steps]
    /\ cap \in [Requests -> Nat]
    /\ signal \in [Requests -> {"none", "live", "aborted"}]
    /\ gone \in [Requests -> BOOLEAN]

\* No slot leaks and none is given back twice: the counter equals the number of
\* handlers between acquireSlot and finally, whatever failed, aborted or waited.
SlotsAccounted == inFlight = Cardinality(Holders)

\* The number of generations never exceeds the highest limit ever configured,
\* although handlers use limits they read earlier and slots change hands.
WithinPeak == inFlight <= peak

\* The queue holds exactly the waiting handlers, each once, within its bound.
QueueExact ==
    /\ \A r \in Requests : pc[r] = "waiting" <=> \E i \in 1 .. Len(queue) : queue[i] = r
    /\ \A i, j \in 1 .. Len(queue) : queue[i] = queue[j] => i = j
    /\ Len(queue) <= QueueMax

\* No handler waits for a client whose close was heard: an aborted entry is
\* gone from the queue, so no slot is handed to it later.
NoAbortedWaiter == \A r \in Requests : pc[r] = "waiting" => signal[r] = "live"

\* Nobody waits while the gate has room by the limit the waiter read itself; in
\* particular a non-empty queue always has a holder whose release will serve it.
QueuedAreOverLimit == \A r \in Requests : pc[r] = "waiting" => cap[r] \in 1 .. inFlight

\* First in, first out: of two waiting requests the later one is neither served
\* first nor moved ahead.
Before(a, b) == \E i, j \in 1 .. Len(queue) : i < j /\ queue[i] = a /\ queue[j] = b

KeepsOrder ==
    \A a, b \in Requests :
        Before(a, b) => /\ pc'[b] # "generating"
                        /\ pc'[a] = "waiting" /\ pc'[b] = "waiting" => Before(a, b)'

FifoOrder == [][KeepsOrder]_vars

\* A newcomer that gets a slot while others wait read a larger limit than each
\* of them: without a raise of the limit nobody overtakes the queue.
OvertakesByRaise ==
    \A r, s \in Requests :
        pc[r] = "capped" /\ pc'[r] = "generating" /\ pc[s] = "waiting" => cap[s] < cap[r]

OvertakingNeedsARaise == [][OvertakesByRaise]_vars

\* Every queued request is eventually given a slot, or leaves with its client.
WaitersServed == \A r \in Requests : pc[r] = "waiting" ~> pc[r] # "waiting"
==============================================================================
