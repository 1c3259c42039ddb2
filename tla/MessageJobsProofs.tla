-------------------------- MODULE MessageJobsProofs --------------------------
(***************************************************************************)
(* Edits and toggles of a message, and the jobs that follow its changes,   *)
(* for every number of handlers, messages, texts, writes, attempts, faults *)
(* and crashes: the row lock keeps what an update has read current until   *)
(* it commits; a mention is pushed once; and what lags behind the text has *)
(* a job on its way, but for the ones that are known to be left behind.    *)
(***************************************************************************)
EXTENDS MessageJobs, SequenceTheorems, TLAPS

(* Something was written before there is a content.                          *)
WritesOK == \A m \in Messages : content[m] # NoContent => writes >= 1

(* Whoever holds a row lock holds it alone, in a transaction that has no      *)
(* other, and what it read is still what the row says.                       *)
LockOK ==
    \A h \in Handlers, m \in Messages : h \in rowLock[m] =>
        /\ tx[h] # "none"
        /\ content[m] # NoContent
        /\ read[h] = content[m]
        /\ rowLock[m] = {h}
        /\ \A n \in Messages : h \in rowLock[n] => n = m

(* The inductive invariant.                                                  *)
EInv == MessagesTypeOK /\ WritesOK /\ LockOK

\* The initial state satisfies the invariant.
LEMMA EditsInit == InitMessages => EInv
BY MaxWritesAssumption DEF InitMessages, EInv, MessagesTypeOK, WritesOK, LockOK

\* A content built from a text and a counted write is one.
LEMMA NewContent ==
    ASSUME NEW t \in Texts, NEW w \in 1 .. MaxWrites
    PROVE  <<t, w>> \in Contents /\ <<t, w>> # NoContent
BY DEF Contents, NoContent

\* Sending keeps the invariant: nobody holds the lock of a message not yet sent.
LEMMA CreateKeeps ==
    ASSUME EInv, NEW h \in Handlers, NEW m \in Messages, createMessage(h, m) PROVE EInv'
<1> USE DEF EInv, MessagesTypeOK, createMessage
<1>1. writes' \in 0 .. MaxWrites /\ writes' >= 1
  BY MaxWritesAssumption
<1>2. PICK t \in Texts : content' = [content EXCEPT ![m] = <<t, writes'>>]
  OBVIOUS
<1>3. <<t, writes'>> \in Contents /\ <<t, writes'>> # NoContent
  BY <1>1, NewContent
<1>4. content'[m] = <<t, writes'>>
  BY <1>2
<1>5. MessagesTypeOK'
  <2>1. content' \in [Messages -> Contents \cup {NoContent}] BY <1>2, <1>3
  <2> QED BY <2>1, <1>1
<1>6. WritesOK'
  BY <1>1, <1>2 DEF WritesOK
<1>7. LockOK'
  <2>1. rowLock[m] = {} BY DEF LockOK
  <2>2. \A n \in Messages \ {m} : content'[n] = content[n] BY <1>2
  <2> QED BY <2>1, <2>2 DEF LockOK
<1> QED BY <1>5, <1>6, <1>7

\* Taking the lock keeps the invariant: what is read is what the row says.
LEMMA BeginKeeps ==
    ASSUME EInv, NEW h \in Handlers, NEW m \in Messages, BeginUpdate(h, m) PROVE EInv'
<1> USE DEF EInv, MessagesTypeOK, BeginUpdate, ReadForUpdate
<1>1. PICK kind \in {"edit", "toggle"} : tx' = [tx EXCEPT ![h] = kind]
  OBVIOUS
<1>2. MessagesTypeOK'
  BY <1>1, MaxWritesAssumption
<1>3. WritesOK'
  BY MaxWritesAssumption DEF WritesOK
<1>4. \A n \in Messages : h \notin rowLock[n]
  BY DEF LockOK
<1>5. ASSUME NEW g \in Handlers, NEW n \in Messages, g \in rowLock'[n]
      PROVE  /\ tx'[g] # "none"
             /\ content'[n] # NoContent
             /\ read'[g] = content'[n]
             /\ rowLock'[n] = {g}
             /\ \A k \in Messages : g \in rowLock'[k] => k = n
  <2>1. CASE n = m
    <3>1. g = h BY <1>5, <2>1
    <3> QED BY <1>1, <1>4, <2>1, <3>1
  <2>2. CASE n # m
    <3>1. rowLock'[n] = rowLock[n] /\ g # h BY <1>4, <1>5, <2>2
    <3> QED BY <1>1, <1>5, <2>2, <3>1 DEF LockOK
  <2> QED BY <2>1, <2>2
<1> QED BY <1>2, <1>3, <1>5 DEF LockOK

\* Giving the lock back keeps LockOK if no other row changed.
LEMMA EndKeeps ==
    ASSUME EInv, NEW h \in Handlers, NEW m \in Messages, h \in rowLock[m], EndUpdate(h, m),
           \A n \in Messages : n # m => content'[n] = content[n]
    PROVE  /\ LockOK'
           /\ rowLock' \in [Messages -> SUBSET Handlers]
           /\ tx' \in [Handlers -> {"none", "edit", "toggle"}]
           /\ read' \in [Handlers -> Contents \cup {NoContent}]
<1> USE DEF EInv, MessagesTypeOK, EndUpdate
<1>1. rowLock'[m] = {} /\ \A n \in Messages \ {m} : rowLock'[n] = rowLock[n]
  BY DEF LockOK
<1>2. ASSUME NEW g \in Handlers, NEW n \in Messages, g \in rowLock'[n]
      PROVE  /\ tx'[g] # "none"
             /\ content'[n] # NoContent
             /\ read'[g] = content'[n]
             /\ rowLock'[n] = {g}
             /\ \A k \in Messages : g \in rowLock'[k] => k = n
  <2>1. n # m /\ g \in rowLock[n] BY <1>1, <1>2
  <2>2. g # h BY <2>1 DEF LockOK
  <2> QED BY <1>1, <2>1, <2>2 DEF LockOK
<1>3. LockOK'
  BY <1>2 DEF LockOK
<1> QED BY <1>3

\* An edit's commit keeps the invariant.
LEMMA EditKeeps ==
    ASSUME EInv, NEW h \in Handlers, NEW m \in Messages, CommitEdit(h, m) PROVE EInv'
<1> USE DEF EInv, MessagesTypeOK, CommitEdit
<1>1. PICK t \in Texts : content' = [content EXCEPT ![m] = <<t, writes>>]
  OBVIOUS
<1>2. content[m] \in Contents /\ read[h] = content[m] /\ writes \in 1 .. MaxWrites
  BY MaxWritesAssumption DEF LockOK, WritesOK
<1>3. <<t, writes>> \in Contents
  BY <1>2, NewContent
<1>4. edits' \in [Messages -> Seq(Contents)]
  BY <1>2
<1>5. content' \in [Messages -> Contents \cup {NoContent}]
  BY <1>1, <1>3
<1>6. WritesOK'
  BY <1>1, <1>2 DEF WritesOK
<1> QED BY <1>1, <1>4, <1>5, <1>6, EndKeeps

\* A toggle's commit keeps the invariant.
LEMMA ToggleKeeps ==
    ASSUME EInv, NEW h \in Handlers, NEW m \in Messages, CommitToggle(h, m) PROVE EInv'
<1> USE DEF EInv, MessagesTypeOK, CommitToggle
<1>1. content[m] \in Contents /\ read[h] = content[m] /\ writes \in 1 .. MaxWrites
  BY MaxWritesAssumption DEF LockOK, WritesOK
<1>2. read[h][1] \in Texts
  BY <1>1 DEF Contents
<1>3. <<read[h][1], writes>> \in Contents
  BY <1>1, <1>2, NewContent
<1>4. content' \in [Messages -> Contents \cup {NoContent}]
  BY <1>3
<1>5. WritesOK'
  BY <1>1 DEF WritesOK
<1> QED BY <1>4, <1>5, EndKeeps

\* Every step keeps the invariant.
LEMMA EditsStep == ASSUME EInv, [NextMessages]_messageVars PROVE EInv'
<1>1. CASE RollBackAll
  BY <1>1 DEF RollBackAll, EInv, MessagesTypeOK, WritesOK, LockOK
<1>2. ASSUME NEW h \in Handlers, NEW m \in Messages, RollBack(h, m) PROVE EInv'
  BY <1>2, EndKeeps DEF RollBack, EInv, MessagesTypeOK, WritesOK
<1>3. CASE UNCHANGED messageVars
  BY <1>3 DEF messageVars, EInv, MessagesTypeOK, WritesOK, LockOK
<1> QED BY <1>1, <1>2, <1>3, CreateKeeps, BeginKeeps, EditKeeps, ToggleKeeps DEF NextMessages

\* The message tables and the transactions that change them keep the invariant:
\* a held row lock is exclusive and what was read under it is current.
THEOREM EditsInvariance == MessageSpec => []EInv
<1>1. EInv /\ [NextMessages]_messageVars => EInv' BY EditsStep
<1> QED BY <1>1, EditsInit, PTL DEF MessageSpec

\* The two tables and the local state of the transactions have their types.
THEOREM TypeCorrect == MessageSpec => []MessagesTypeOK
<1>1. EInv => MessagesTypeOK BY DEF EInv
<1> QED BY <1>1, EditsInvariance, PTL

\* An update either files the content it replaces or changes only a checkbox.
LEMMA HistoryStep == ASSUME EInv, [NextMessages]_messageVars PROVE UpdateKeepsHistory
<1> SUFFICES ASSUME NEW n \in Messages, content[n] # NoContent, content'[n] # content[n]
             PROVE  \/ edits'[n] = Append(edits[n], content[n])
                    \/ edits'[n] = edits[n] /\ content'[n][1] = content[n][1]
  BY DEF UpdateKeepsHistory
<1> USE DEF EInv, MessagesTypeOK, LockOK
<1>1. ASSUME NEW h \in Handlers, NEW m \in Messages, createMessage(h, m) PROVE FALSE
  BY <1>1 DEF createMessage
<1>2. ASSUME NEW h \in Handlers, NEW m \in Messages, CommitEdit(h, m)
      PROVE  edits'[n] = Append(edits[n], content[n])
  BY <1>2 DEF CommitEdit
<1>3. ASSUME NEW h \in Handlers, NEW m \in Messages, CommitToggle(h, m)
      PROVE  edits'[n] = edits[n] /\ content'[n][1] = content[n][1]
  BY <1>3 DEF CommitToggle
<1>4. ASSUME NEW h \in Handlers, NEW m \in Messages, BeginUpdate(h, m) \/ RollBack(h, m) PROVE FALSE
  BY <1>4 DEF BeginUpdate, RollBack
<1>5. CASE RollBackAll \/ UNCHANGED messageVars
  BY <1>5 DEF RollBackAll, messageVars
<1> QED BY <1>1, <1>2, <1>3, <1>4, <1>5 DEF NextMessages

\* Concurrent edits and toggles lose nothing: whatever two handlers do to one
\* message, each replaced content is in message_edits or differs by a checkbox.
THEOREM EditsAreNotLost == MessageSpec => NoLostEdits
<1>1. EInv /\ [NextMessages]_messageVars => [UpdateKeepsHistory]_messageVars BY HistoryStep
<1> QED BY <1>1, EditsInvariance, PTL DEF MessageSpec, NoLostEdits

------------------------------------------------------------------------------
(* The jobs.                                                                   *)

\* The first n items of a sequence, and all of them.
UpTo(s, n) == {s[i] : i \in 1 .. n}
Items(s) == {s[i] : i \in 1 .. Len(s)}

\* A worker has a batch; it has read the content for its job.
Busy == {"load", "work", "link", "done", "catch"}
Reading == {"work", "link", "done"}

\* Jobs are made for sent messages, links for those of a workspace.
Proper(j) == content[j[1]] # NoContent /\ (j[2] = "ENTITY_LINK" => j[1] \in InWorkspace)

\* The jobs a message gets.
JobsFor(m) == {j \in Jobs : j[1] = m /\ (j[2] = "ENTITY_LINK" => m \in InWorkspace)}

\* What reconciliation looks for.
Unmade(j) ==
    /\ content[j[1]] # NoContent /\ status[j] = "none"
    /\ j[2] = "ENTITY_LINK" => j[1] \in InWorkspace
    /\ j[2] = "EMBEDDING" => vector[j[1]] = NoContent

\* An enqueue is still to come, or the job is one of those left behind.
Followed(j) ==
    (\E h \in Handlers : j \in ToDo(h)) \/ j \in dropped \cup overtaken \cup stranded

\* What a job of this kind writes.
OutputOf(j) ==
    IF j[2] = "NOTIFICATION" THEN notified[j[1]]
    ELSE IF j[2] = "ENTITY_LINK" THEN links[j[1]] ELSE vector[j[1]]

\* The job is on its way, or one of those left behind.
Cared(j) == Followed(j) \/ Owed(j)

\* A handler in a transaction has nothing to enqueue yet.
HandlersOK ==
    \A h \in Handlers :
        /\ tx[h] # "none" => pc[h] = "idle"
        /\ pc[h] = "idle" => todo[h] = <<>>
        /\ pc[h] = "enqueue" => todo[h] # <<>>
        /\ \A j \in ToDo(h) : Proper(j)

\* A batch is of jobs that are processing, but for one whose last statement failed.
BatchOK(q) ==
    IF at[q] \notin Busy THEN batch[q] = {} /\ job[q] = NoJob
    ELSE /\ job[q] \in batch[q] /\ batch[q] \subseteq JobsOf(q)
         /\ \A j \in batch[q] :
               Proper(j) /\ (status[j] = "processing" \/ (j = job[q] /\ at[q] = "catch"))

\* What has been done of a job agrees with the content that was read for it.
RowOK(q) ==
    LET m == job[q][1] IN
    /\ at[q] \in Reading => row[q] # NoContent
    /\ at[q] = "link" => job[q][2] = "ENTITY_LINK" /\ links[m] \subseteq Named(q)
    /\ at[q] = "done" => \/ job[q][2] = "NOTIFICATION" /\ Mentioned(q) \subseteq notified[m]
                         \/ job[q][2] = "ENTITY_LINK" /\ links[m] = Named(q)

\* A content that is overtaken while a job works on it has an enqueue behind it.
ChaseOK(q) == at[q] \in Reading => UpToDate(q) \/ Followed(job[q])

WorkersOK == \A q \in Queues : BatchOK(q) /\ RowOK(q) /\ ChaseOK(q)

\* A row is of a proper job; one that is processing is in a batch or stranded.
StatusOK ==
    \A j \in Jobs :
        /\ status[j] # "none" => Proper(j)
        /\ status[j] = "completed" => j[2] # "EMBEDDING"
        /\ status[j] = "processing" => j \in stranded \/ \E q \in Queues : j \in batch[q]

\* Whoever was pushed a frame has a row that prevents the next.
PushesOK ==
    \A m \in Messages, u \in Users :
        pushed[m][u] <= 1 /\ (pushed[m][u] = 1 => u \in notified[m])

(* The inductive invariant.                                                    *)
JInv == EInv /\ TypeOK /\ HandlersOK /\ WorkersOK /\ StatusOK /\ PushesOK /\ StaleIsOwed

------------------------------------------------------------------------------
\* Every step of the jobs is a step of MessageEdits or leaves the messages alone.
LEMMA JobsAreEdits == Next => [NextMessages]_messageVars
<1>1. ASSUME NEW h \in Handlers, Handler(h) PROVE [NextMessages]_messageVars
  BY <1>1 DEF Handler, PostMessage, Update, EditMessage, ToggleTask, AuditWritten, AuditFails,
              Enqueue, EnqueueFails, NextMessages
<1>2. ASSUME NEW q \in Queues, Worker(q) PROVE UNCHANGED messageVars
  BY <1>2 DEF Worker, Process, TickFails, claimBatch, LoadFails, JobFails, RetryLaterFails,
              loadMessageContext, processNotificationJob, UnlinkEntities, LinkEntities,
              StoreEmbedding, Complete, RetryLater
<1>3. Reconcile => UNCHANGED messageVars
  BY DEF Reconcile, BackfillNotifications, BackfillEntityLinks, enqueueMissingEmbeddingJobs,
         Backfill
<1>4. Crash => NextMessages
  BY DEF Crash, NextMessages
<1> QED BY <1>1, <1>2, <1>3, <1>4 DEF Next

\* MessageJobs implements MessageEdits: the jobs only read the messages.
THEOREM JobsImplementEdits == Spec => MessageSpec
<1>1. Init => InitMessages
  BY DEF Init
<1>2. [Next]_vars => [NextMessages]_messageVars
  <2>1. UNCHANGED vars => UNCHANGED messageVars
    BY DEF vars, messageVars
  <2> QED BY <2>1, JobsAreEdits
<1> QED BY <1>1, <1>2, PTL DEF Spec, MessageSpec

------------------------------------------------------------------------------
(* Facts about jobs and what is still to do.                                   *)

\* The kinds of jobs, and whose they are.
LEMMA KindsAre ==
    /\ \A k : k \in Kinds <=> \/ k = "EMBEDDING" /\ "embedding" \in Queues
                              \/ k \in {"NOTIFICATION", "ENTITY_LINK"} /\ "sideEffects" \in Queues
    /\ \A q \in Queues, k \in Kinds :
          k \in KindsOf(q) <=> ((k = "EMBEDDING") <=> (q = "embedding"))
    /\ \A q \in Queues : KindsOf(q) \subseteq Kinds
<1>1. \A q \in Queues : q \in {"sideEffects", "embedding"}
  BY MessagesAssumption
<1> QED BY <1>1 DEF Kinds, KindsOf

\* A job is a message and a kind, and belongs to one queue.
LEMMA JobsAre ==
    /\ \A j \in Jobs : j = <<j[1], j[2]>> /\ j[1] \in Messages /\ j[2] \in Kinds /\ j # NoJob
    /\ \A m \in Messages, k \in Kinds : <<m, k>> \in Jobs
    /\ \A q \in Queues : JobsOf(q) \subseteq Jobs
    /\ \A q \in Queues, j \in Jobs : j \in JobsOf(q) <=> j[2] \in KindsOf(q)
    /\ \A q, r \in Queues : q # r => JobsOf(q) \cap JobsOf(r) = {}
<1>1. \A q, r \in Queues : q # r => KindsOf(q) \cap KindsOf(r) = {}
  BY MessagesAssumption DEF KindsOf
<1>2. \A j \in Jobs : j = <<j[1], j[2]>> /\ j[1] \in Messages /\ j[2] \in Kinds /\ j # NoJob
  BY DEF Jobs, NoJob
<1>3. \A m \in Messages, k \in Kinds : <<m, k>> \in Jobs
  BY DEF Jobs
<1>4. \A q \in Queues : JobsOf(q) \subseteq Jobs
  BY KindsAre DEF Jobs, JobsOf
<1>5. \A q \in Queues, j \in Jobs : j \in JobsOf(q) <=> j[2] \in KindsOf(q)
  BY DEF Jobs, JobsOf
<1> QED BY <1>1, <1>2, <1>3, <1>4, <1>5

\* The elements of a sequence, of its tail, and of what follows its first n.
LEMMA ToDoOf ==
    ASSUME NEW S, NEW s \in Seq(S)
    PROVE  /\ s # <<>> => /\ Head(s) \in S /\ Tail(s) \in Seq(S)
                          /\ Head(s) \in Items(s)
                          /\ Items(s)
                                \subseteq {Head(s)} \cup Items(Tail(s))
                          /\ Items(Tail(s)) \subseteq Items(s)
           /\ s = <<>> => Items(s) = {}
           /\ Items(s) \subseteq S
           /\ \A n \in 1 .. Len(s) :
                 LET t == SubSeq(s, n + 1, Len(s)) IN
                 /\ t \in Seq(S)
                 /\ Items(t) \subseteq Items(s)
                 /\ Items(s)
                       \subseteq UpTo(s, n) \cup Items(t)
<1>1. ASSUME s # <<>>
      PROVE  /\ Head(s) \in S /\ Tail(s) \in Seq(S)
             /\ Head(s) = s[1] /\ 1 \in 1 .. Len(s)
             /\ Len(Tail(s)) = Len(s) - 1
             /\ \A i \in 1 .. Len(Tail(s)) : i + 1 \in 1 .. Len(s) /\ Tail(s)[i] = s[i + 1]
             /\ \A i \in 1 .. Len(s) : i = 1 \/ (i - 1 \in 1 .. Len(Tail(s)) /\ Tail(s)[i - 1] = s[i])
  BY <1>1
<1>2. ASSUME NEW n \in 1 .. Len(s)
      PROVE  LET t == SubSeq(s, n + 1, Len(s)) IN
             /\ t \in Seq(S)
             /\ {t[i] : i \in 1 .. Len(t)} \subseteq {s[i] : i \in 1 .. Len(s)}
             /\ {s[i] : i \in 1 .. Len(s)}
                   \subseteq {s[i] : i \in 1 .. n} \cup {t[i] : i \in 1 .. Len(t)}
  <2> DEFINE t == SubSeq(s, n + 1, Len(s))
  <2>1. n + 1 \in 1 .. Len(s) + 1 /\ Len(s) \in n .. Len(s) /\ Len(s) \in Nat
    OBVIOUS
  <2>2. /\ t \in Seq(S)
        /\ Len(t) = Len(s) - n
        /\ \A i \in 1 .. Len(s) - n : t[i] = s[n + i]
    <3>1. /\ SubSeq(s, n + 1, Len(s)) \in Seq(S)
          /\ Len(SubSeq(s, n + 1, Len(s))) =
                IF n + 1 <= Len(s) THEN Len(s) - (n + 1) + 1 ELSE 0
          /\ \A i \in 1 .. Len(s) - (n + 1) + 1 : SubSeq(s, n + 1, Len(s))[i] = s[(n + 1) + i - 1]
      BY <2>1, SubSeqProperties
    <3> QED BY <2>1, <3>1
  <2> HIDE DEF t
  <2>3. \A i \in 1 .. Len(t) : n + i \in 1 .. Len(s) /\ t[i] = s[n + i]
    BY <2>1, <2>2
  <2>4. \A i \in 1 .. Len(s) : i \in 1 .. n \/ (i - n \in 1 .. Len(t) /\ t[i - n] = s[i])
    BY <2>1, <2>2
  <2>5. {t[i] : i \in 1 .. Len(t)} \subseteq {s[i] : i \in 1 .. Len(s)}
    <3> SUFFICES ASSUME NEW i \in 1 .. Len(t) PROVE \E k \in 1 .. Len(s) : t[i] = s[k]
      OBVIOUS
    <3> QED BY <2>3
  <2>6. {s[i] : i \in 1 .. Len(s)} \subseteq {s[i] : i \in 1 .. n} \cup {t[i] : i \in 1 .. Len(t)}
    <3> SUFFICES ASSUME NEW i \in 1 .. Len(s), i \notin 1 .. n
                 PROVE  \E k \in 1 .. Len(t) : s[i] = t[k]
      OBVIOUS
    <3> QED BY <2>4
  <2> QED BY <2>2, <2>5, <2>6 DEF t
<1>3. ASSUME s # <<>>
      PROVE  /\ Head(s) \in {s[i] : i \in 1 .. Len(s)}
             /\ {s[i] : i \in 1 .. Len(s)}
                   \subseteq {Head(s)} \cup {Tail(s)[i] : i \in 1 .. Len(Tail(s))}
             /\ {Tail(s)[i] : i \in 1 .. Len(Tail(s))} \subseteq {s[i] : i \in 1 .. Len(s)}
  <2> DEFINE t == Tail(s)
  <2>1. /\ Head(s) = s[1] /\ 1 \in 1 .. Len(s)
        /\ \A i \in 1 .. Len(t) : i + 1 \in 1 .. Len(s) /\ t[i] = s[i + 1]
        /\ \A i \in 1 .. Len(s) : i = 1 \/ (i - 1 \in 1 .. Len(t) /\ t[i - 1] = s[i])
    BY <1>1, <1>3
  <2> HIDE DEF t
  <2>2. {s[i] : i \in 1 .. Len(s)} \subseteq {Head(s)} \cup {t[i] : i \in 1 .. Len(t)}
    <3> SUFFICES ASSUME NEW i \in 1 .. Len(s), i # 1 PROVE \E k \in 1 .. Len(t) : s[i] = t[k]
      BY <2>1
    <3> QED BY <2>1
  <2>3. {t[i] : i \in 1 .. Len(t)} \subseteq {s[i] : i \in 1 .. Len(s)}
    <3> SUFFICES ASSUME NEW i \in 1 .. Len(t) PROVE \E k \in 1 .. Len(s) : t[i] = s[k]
      OBVIOUS
    <3> QED BY <2>1
  <2> QED BY <2>1, <2>2, <2>3 DEF t
<1>4. s = <<>> => {s[i] : i \in 1 .. Len(s)} = {}
  OBVIOUS
<1>5. {s[i] : i \in 1 .. Len(s)} \subseteq S
  OBVIOUS
<1>6. s # <<>> => Head(s) \in S /\ Tail(s) \in Seq(S)
  BY <1>1
<1> QED BY <1>2, <1>3, <1>4, <1>5, <1>6 DEF Items, UpTo

\* What is to do after a message is sent or edited: all its jobs, of proper kinds.
LEMMA AllJobs ==
    ASSUME NEW m \in Messages,
           NEW s \in {SideEffects(m) \o Embedding(m), Embedding(m) \o SideEffects(m)}
    PROVE  /\ s \in Seq(Jobs)
           /\ \A j \in Jobs : j \in Items(s) <=>
                 j[1] = m /\ (j[2] = "ENTITY_LINK" => m \in InWorkspace)
<1> DEFINE n == <<m, "NOTIFICATION">>
           l == <<m, "ENTITY_LINK">>
           e == <<m, "EMBEDDING">>
<1>1. \A j \in Jobs : j[1] = m =>
          \/ j = n /\ j[2] = "NOTIFICATION" /\ "sideEffects" \in Queues
          \/ j = l /\ j[2] = "ENTITY_LINK" /\ "sideEffects" \in Queues
          \/ j = e /\ j[2] = "EMBEDDING" /\ "embedding" \in Queues
  BY JobsAre, KindsAre
<1>2. /\ "sideEffects" \in Queues => n \in Jobs /\ l \in Jobs
      /\ "embedding" \in Queues => e \in Jobs
  BY JobsAre, KindsAre
<1>3. /\ n[1] = m /\ l[1] = m /\ e[1] = m
      /\ n[2] = "NOTIFICATION" /\ l[2] = "ENTITY_LINK" /\ e[2] = "EMBEDDING"
  OBVIOUS
<1>4. /\ SideEffects(m) = IF "sideEffects" \notin Queues THEN <<>>
                          ELSE IF m \in InWorkspace THEN <<n, l>> ELSE <<n>>
      /\ Embedding(m) = IF "embedding" \in Queues THEN <<e>> ELSE <<>>
  BY DEF SideEffects, Embedding
<1> HIDE DEF n, l, e
<1>5. \A a, b, c : /\ s = <<>> => Items(s) = {}
                   /\ s = <<a>> => Items(s) = {a}
                   /\ s = <<a, b>> => Items(s) = {a, b}
                   /\ s = <<a, b, c>> => Items(s) = {a, b, c}
  <2>1. ASSUME NEW a, NEW b, s = <<a, b>> PROVE Items(s) = {a, b}
    <3>1. Len(s) = 2 /\ s[1] = a /\ s[2] = b
      BY <2>1
    <3>2. 1 .. 2 = {1, 2}
      OBVIOUS
    <3> QED BY <3>1, <3>2 DEF Items
  <2>2. ASSUME NEW a, NEW b, NEW c, s = <<a, b, c>>
        PROVE  Items(s) = {a, b, c}
    <3>1. Len(s) = 3 /\ s[1] = a /\ s[2] = b /\ s[3] = c
      BY <2>2
    <3>2. 1 .. 3 = {1, 2, 3}
      OBVIOUS
    <3> QED BY <3>1, <3>2 DEF Items
  <2>3. ASSUME NEW a, s = <<a>> PROVE Items(s) = {a}
    <3>1. Len(s) = 1 /\ s[1] = a /\ 1 .. 1 = {1}
      BY <2>3
    <3> QED BY <3>1 DEF Items
  <2>4. s = <<>> => Items(s) = {}
    BY DEF Items
  <2> QED BY <2>1, <2>2, <2>3, <2>4
<1>0. \A a, b, c \in Jobs : <<a>> \in Seq(Jobs) /\ <<a, b>> \in Seq(Jobs) /\ <<a, b, c>> \in Seq(Jobs)
  OBVIOUS
<1>6. CASE "sideEffects" \notin Queues
  <2>1. s = IF "embedding" \in Queues THEN <<e>> ELSE <<>>
    BY <1>4, <1>6
  <2> QED BY <1>1, <1>2, <1>3, <1>5, <1>6, <2>1
<1>7. CASE "sideEffects" \in Queues /\ m \in InWorkspace
  <2>1. CASE "embedding" \in Queues
    <3>1. s \in {<<n, l, e>>, <<e, n, l>>}
      BY <1>4, <1>7, <2>1
    <3>2. s \in Seq(Jobs)
      BY <1>0, <1>2, <1>7, <2>1, <3>1
    <3>3. Items(s) = {n, l, e}
      BY <1>5, <3>1
    <3> QED BY <1>1, <1>3, <1>7, <3>2, <3>3
  <2>2. CASE "embedding" \notin Queues
    <3>1. s = <<n, l>>
      BY <1>4, <1>7, <2>2
    <3>2. Items(s) = {n, l}
      BY <1>5, <3>1
    <3> QED BY <1>1, <1>2, <1>3, <1>7, <2>2, <3>1, <3>2
  <2> QED BY <2>1, <2>2
<1>8. CASE "sideEffects" \in Queues /\ m \notin InWorkspace
  <2>1. CASE "embedding" \in Queues
    <3>1. s \in {<<n, e>>, <<e, n>>}
      BY <1>4, <1>8, <2>1
    <3>2. s \in Seq(Jobs)
      BY <1>0, <1>2, <1>8, <2>1, <3>1
    <3>3. Items(s) = {n, e}
      BY <1>5, <3>1
    <3> QED BY <1>1, <1>3, <1>8, <3>2, <3>3
  <2>2. CASE "embedding" \notin Queues
    <3>1. s = <<n>>
      BY <1>4, <1>8, <2>2
    <3>2. Items(s) = {n}
      BY <1>5, <3>1
    <3> QED BY <1>1, <1>2, <1>3, <1>8, <2>2, <3>1, <3>2
  <2> QED BY <2>1, <2>2
<1> QED BY <1>6, <1>7, <1>8

\* What is to do, as items of a sequence.
LEMMA ToDoIs ==
    \A h : ToDo(h) = Items(todo[h]) /\ ToDo(h)' = Items(todo'[h])
BY DEF ToDo, Items

\* What reconciliation looks for, and finds: jobs of sent messages that have no row.
LEMMA MissingAre ==
    ASSUME NEW j \in Jobs
    PROVE  /\ j \in Missing(j[2]) <=> Unmade(j)
           /\ (j \in Missing(j[2]) <=> Unmade(j))'
<1>1. j = <<j[1], j[2]>> /\ j[1] \in Messages
  BY JobsAre
<1>2. \A S : j \in {<<m, j[2]>> : m \in S} <=> j[1] \in S
  <2> TAKE S
  <2>1. ASSUME j \in {<<m, j[2]>> : m \in S} PROVE j[1] \in S
    <3>1. PICK m \in S : j = <<m, j[2]>>
      BY <2>1
    <3>2. j[1] = m
      BY <3>1
    <3> QED BY <3>2
  <2>2. ASSUME j[1] \in S PROVE j \in {<<m, j[2]>> : m \in S}
    BY <1>1, <2>2
  <2> QED BY <2>1, <2>2
<1>3. j \in Missing(j[2]) <=> j[1] \in {n \in Messages :
        /\ content[n] # NoContent /\ status[<<n, j[2]>>] = "none"
        /\ j[2] = "ENTITY_LINK" => n \in InWorkspace
        /\ j[2] = "EMBEDDING" => vector[n] = NoContent}
  BY <1>2 DEF Missing
<1>4. (j \in Missing(j[2]))' <=> j[1] \in {n \in Messages :
        /\ content'[n] # NoContent /\ status'[<<n, j[2]>>] = "none"
        /\ j[2] = "ENTITY_LINK" => n \in InWorkspace
        /\ j[2] = "EMBEDDING" => vector'[n] = NoContent}
  BY <1>2 DEF Missing
<1> QED BY <1>1, <1>3, <1>4 DEF Unmade

------------------------------------------------------------------------------
(* The handlers.                                                               *)

\* Handlers do not write what the workers produce.
LEMMA SamePushes ==
    ASSUME JInv, UNCHANGED outputs
    PROVE  PushesOK'
BY DEF JInv, PushesOK, outputs

\* A content is written; the jobs that depend on it are still to be enqueued.
LEMMA ContentWritten ==
    ASSUME JInv, EInv', TypeOK', HandlersOK', NEW h \in Handlers, NEW m \in Messages,
           UNCHANGED <<queueVars, workerVars, outputs, gaps>>,
           todo[h] = <<>>, \A g \in Handlers \ {h} : todo'[g] = todo[g],
           content'[m] # NoContent, \A n \in Messages \ {m} : content'[n] = content[n],
           \A j \in Jobs : j[1] = m /\ (j[2] = "ENTITY_LINK" => m \in InWorkspace)
                              => \/ j \in ToDo(h)'
                                 \/ /\ j[2] # "EMBEDDING" /\ content[m] # NoContent
                                    /\ content'[m][1] = content[m][1]
    PROVE  JInv'
<1> USE DEF queueVars, workerVars, outputs, gaps
<1>1. \A j \in Jobs : j = <<j[1], j[2]>> /\ j[1] \in Messages /\ j[2] \in Kinds
  BY JobsAre
<1>2. ToDo(h) = {}
  BY DEF ToDo
<1>3. \A g \in Handlers : ToDo(g) \subseteq ToDo(g)'
  BY <1>2 DEF ToDo
<1>4. \A j \in Jobs : Proper(j) => Proper(j)'
  BY <1>1 DEF Proper
<1>5. \A q \in Queues : at[q] \in Busy => job[q] \in Jobs /\ Proper(job[q])
  BY JobsAre DEF JInv, WorkersOK, BatchOK
<1>6. \A j : Followed(j) => Followed(j)'
  BY <1>3 DEF Followed
<1>7. \A q \in Queues : at[q] \in Busy => \/ UpToDate(q)' <=> UpToDate(q)
                                          \/ \E g \in Handlers : job[q] \in ToDo(g)'
  <2> SUFFICES ASSUME NEW q \in Queues, at[q] \in Busy, job[q] \notin ToDo(h)'
               PROVE  UpToDate(q)' <=> UpToDate(q)
    OBVIOUS
  <2>1. CASE job[q][1] # m
    BY <1>1, <1>5, <2>1 DEF UpToDate
  <2>2. CASE job[q][1] = m
    <3>1. job[q][2] # "EMBEDDING" /\ content'[m][1] = content[m][1]
      BY <1>1, <1>5, <2>2 DEF Proper
    <3> QED BY <2>2, <3>1 DEF UpToDate
  <2> QED BY <2>1, <2>2
<1>8. WorkersOK'
  <2> SUFFICES ASSUME NEW q \in Queues PROVE BatchOK(q)' /\ RowOK(q)' /\ ChaseOK(q)'
    BY DEF WorkersOK
  <2>1. BatchOK(q) /\ RowOK(q) /\ ChaseOK(q) /\ batch[q] \subseteq Jobs
    BY DEF JInv, WorkersOK, TypeOK
  <2>2. BatchOK(q)'
    BY <1>4, <2>1 DEF BatchOK
  <2>3. RowOK(q)'
    BY <2>1 DEF RowOK, Mentioned, Named
  <2>4. ChaseOK(q)'
    BY <1>6, <1>7, <2>1 DEF ChaseOK, Followed, Busy, Reading
  <2> QED BY <2>2, <2>3, <2>4
<1>9. StatusOK'
  BY <1>4 DEF JInv, StatusOK
<1>10. StaleIsOwed'
  <2> SUFFICES ASSUME NEW j \in Jobs, Stale(j)', j \notin dropped \cup overtaken \cup stranded,
                      \A g \in Handlers : j \notin ToDo(g)'
               PROVE  Owed(j)'
    BY DEF StaleIsOwed, Owed
  <2>1. j[1] # m \/ (j[2] # "EMBEDDING" /\ content[m] # NoContent /\ content'[m][1] = content[m][1])
    BY DEF Stale
  <2>2. Stale(j)
    BY <1>1, <2>1 DEF Stale
  <2>3. Owed(j)
    BY <2>2 DEF JInv, StaleIsOwed
  <2>4. j \in Missing(j[2]) => j \in Missing(j[2])'
    BY <1>1, <2>1, MissingAre DEF Unmade
  <2>5. InGoodHands(j) => InGoodHands(j)'
    <3> SUFFICES ASSUME NEW q \in Queues, j \in batch[q],
                        j = job[q] => at[q] \in {"load", "catch"} \/ UpToDate(q)
                 PROVE  j = job[q] => at[q] \in {"load", "catch"} \/ UpToDate(q)'
      BY DEF InGoodHands
    <3>1. at[q] \in Busy
      BY DEF JInv, WorkersOK, BatchOK
    <3> QED BY <1>7, <3>1
  <2> QED BY <1>3, <2>3, <2>4, <2>5 DEF Owed
<1> QED BY <1>8, <1>9, <1>10, SamePushes DEF JInv

\* The content stays: a job leaves what is to do when it is enqueued, or when it is dropped.
LEMMA HandlerMoves ==
    ASSUME JInv, EInv', TypeOK', HandlersOK', NEW h \in Handlers,
           UNCHANGED <<content, workerVars, outputs, stranded>>,
           dropped \subseteq dropped', overtaken \subseteq overtaken',
           \A g \in Handlers \ {h} : todo'[g] = todo[g],
           UNCHANGED queueVars \/ \E j \in ToDo(h) : Upsert(j),
           \A j \in ToDo(h) : \/ j \in ToDo(h)' \cup dropped'
                              \/ Upsert(j) /\ (AlreadyRunning(j) => j \in overtaken')
    PROVE  JInv'
<1> USE DEF workerVars, outputs
<1>1. \A j \in Jobs : j = <<j[1], j[2]>> /\ j[1] \in Messages /\ j[2] \in Kinds
  BY JobsAre
<1>2. /\ \A j : Proper(j)' <=> Proper(j)
      /\ \A q \in Queues : UpToDate(q)' <=> UpToDate(q)
  BY DEF Proper, UpToDate
<1>3. \A g \in Handlers : ToDo(g) \subseteq Jobs
  BY ToDoOf, ToDoIs DEF JInv, TypeOK
<1>4. \A j \in Jobs : \/ status'[j] = status[j]
                      \/ /\ status'[j] = "pending" /\ status[j] # "processing" /\ j \in ToDo(h)
  BY <1>3 DEF JInv, TypeOK, queueVars, Upsert, InsertOrReset
<1>5. ASSUME NEW j \in ToDo(h)
      PROVE  \/ j \in ToDo(h)' \cup dropped' \cup overtaken'
             \/ status'[j] \in {"pending", "failed"}
             \/ j[2] = "EMBEDDING" /\ status[j] = "completed"
             \/ status[j] = "processing" /\ ~AlreadyRunning(j)
  <2>1. j \in Jobs /\ status[j] \in {"none", "pending", "processing", "completed", "failed"}
    BY <1>3 DEF JInv, TypeOK
  <2>2. ASSUME Upsert(j) PROVE status'[j] = IF InsertOrReset(j) THEN "pending" ELSE status[j]
    BY <2>1, <2>2 DEF JInv, TypeOK, Upsert, queueVars
  <2> QED BY <2>1, <2>2 DEF InsertOrReset
<1>6. ASSUME NEW j \in ToDo(h), \A g \in Handlers : j \notin ToDo(g)',
             j \notin dropped' \cup overtaken' \cup stranded,
             status'[j] \notin {"pending", "failed"}
      PROVE  status'[j] = "processing" /\ InGoodHands(j)
  <2>1. j \in Jobs /\ status[j] = "processing" /\ ~AlreadyRunning(j)
    BY <1>3, <1>5, <1>6 DEF JInv, StatusOK
  <2>2. PICK q \in Queues : j \in batch[q]
    BY <1>6, <2>1 DEF JInv, StatusOK
  <2>3. j = job[q] => at[q] \in {"load", "catch"} \/ UpToDate(q)
    BY <2>1, <2>2 DEF AlreadyRunning, JInv, WorkersOK, BatchOK, Busy
  <2> QED BY <1>4, <2>1, <2>2, <2>3 DEF InGoodHands
<1>7. \A j : InGoodHands(j) => InGoodHands(j)'
  BY <1>2 DEF InGoodHands
<1>8. \A j \in Jobs : ~(\E g \in Handlers : j \in ToDo(g)') /\ (\E g \in Handlers : j \in ToDo(g))
          => j \in ToDo(h)
  BY DEF ToDo
<1>9. WorkersOK'
  <2> SUFFICES ASSUME NEW q \in Queues PROVE BatchOK(q)' /\ RowOK(q)' /\ ChaseOK(q)'
    BY DEF WorkersOK
  <2>1. BatchOK(q) /\ RowOK(q) /\ ChaseOK(q) /\ batch[q] \subseteq Jobs
    BY DEF JInv, WorkersOK, TypeOK
  <2>2. BatchOK(q)'
    BY <1>2, <1>4, <2>1 DEF BatchOK
  <2>3. RowOK(q)'
    BY <2>1 DEF RowOK, Mentioned, Named
  <2>4. ChaseOK(q)'
    <3> SUFFICES ASSUME at[q] \in Reading, ~UpToDate(q) PROVE Followed(job[q])'
      BY <1>2 DEF ChaseOK
    <3>1. Followed(job[q]) /\ job[q] \in Jobs /\ status[job[q]] = "processing"
      BY <2>1 DEF ChaseOK, BatchOK, Busy, Reading
    <3>2. ~InGoodHands(job[q])
      <4>1. ASSUME NEW r \in Queues, job[q] \in batch[r] PROVE r = q
        BY <2>1, <4>1, JobsAre DEF JInv, WorkersOK, BatchOK, Busy, Reading
      <4> QED BY <4>1 DEF InGoodHands, Reading
    <3>3. status'[job[q]] = "processing"
      BY <1>4, <3>1
    <3> QED BY <1>6, <1>8, <3>1, <3>2, <3>3 DEF Followed
  <2> QED BY <2>2, <2>3, <2>4
<1>10. StatusOK'
  BY <1>2, <1>3, <1>4 DEF JInv, StatusOK, HandlersOK
<1>11. StaleIsOwed'
  <2> SUFFICES ASSUME NEW j \in Jobs, Stale(j)', j \notin dropped' \cup overtaken' \cup stranded',
                      \A g \in Handlers : j \notin ToDo(g)', status'[j] \notin {"pending", "failed"}
               PROVE  Owed(j)'
    BY DEF StaleIsOwed, Owed
  <2>1. Stale(j)
    BY DEF Stale
  <2>2. Owed(j)
    BY <2>1 DEF JInv, StaleIsOwed
  <2>3. CASE j \in ToDo(h)
    BY <1>6, <1>7, <2>3 DEF Owed
  <2>4. CASE j \notin ToDo(h)
    <3>1. status'[j] = status[j] /\ \A g \in Handlers : j \notin ToDo(g)
      BY <1>4, <1>8, <2>4
    <3>2. j \in Missing(j[2]) => j \in Missing(j[2])'
      BY <3>1, MissingAre DEF Unmade
    <3> QED BY <1>7, <2>2, <3>1, <3>2 DEF Owed
  <2> QED BY <2>3, <2>4
<1> QED BY <1>9, <1>10, <1>11, SamePushes DEF JInv

------------------------------------------------------------------------------
(* Types.                                                                      *)

\* The steps of a handler keep the types.
LEMMA HandlerTypes ==
    ASSUME JInv, EInv', NEW h \in Handlers, Handler(h) PROVE TypeOK'
<1> USE DEF TypeOK, queueVars, workerVars, outputs, gaps, counts
<1>0. TypeOK /\ HandlersOK /\ MessagesTypeOK'
  BY DEF JInv, EInv
<1>1. ASSUME NEW s \in Seq(Jobs), Proceed(h, s)
      PROVE  /\ todo' \in [Handlers -> Seq(Jobs)]
             /\ pc' \in [Handlers -> {"idle", "audit", "enqueue"}]
  BY <1>0, <1>1 DEF Proceed, Goto
<1>2. \A m \in Messages : /\ SideEffects(m) \o Embedding(m) \in Seq(Jobs)
                          /\ Embedding(m) \o SideEffects(m) \in Seq(Jobs)
                          /\ Embedding(m) \in Seq(Jobs)
  <2>1. \A m \in Messages : "embedding" \in Queues => <<m, "EMBEDDING">> \in Jobs
    BY JobsAre, KindsAre
  <2>2. \A m \in Messages : Embedding(m) \in Seq(Jobs)
    <3>1. <<>> \in Seq(Jobs) /\ \A j \in Jobs : <<j>> \in Seq(Jobs)
      OBVIOUS
    <3> QED BY <2>1, <3>1 DEF Embedding
  <2> QED BY <2>2, AllJobs
<1>3. ToDo(h) \subseteq Jobs
  BY <1>0, ToDoOf, ToDoIs
<1>4. ASSUME NEW j \in Jobs, Upsert(j)
      PROVE  /\ status' \in [Jobs -> {"none", "pending", "processing", "completed", "failed"}]
             /\ attempts' \in [Jobs -> Nat]
  <2>1. CASE InsertOrReset(j)
    <3>1. /\ status' = [status EXCEPT ![j] = "pending"]
          /\ attempts' = [attempts EXCEPT ![j] = 0]
      BY <1>4, <2>1 DEF Upsert
    <3> QED BY <1>0, <3>1
  <2>2. CASE ~InsertOrReset(j)
    BY <1>0, <1>4, <2>2 DEF Upsert
  <2> QED BY <2>1, <2>2
<1>5. Fault => faults' \in 0 .. MaxFaults /\ crashes' = crashes
  BY <1>0, BoundsAssumption DEF Fault
<1>6. CASE PostMessage(h)
  BY <1>0, <1>1, <1>2, <1>6 DEF PostMessage
<1>7. CASE Update(h)
  BY <1>0, <1>7 DEF Update, handlerVars
<1>8. CASE EditMessage(h)
  BY <1>0, <1>2, <1>8 DEF EditMessage, Goto
<1>9. CASE ToggleTask(h)
  BY <1>0, <1>2, <1>9 DEF ToggleTask, Goto
<1>10. CASE AuditWritten(h)
  <2>1. todo[h] \in Seq(Jobs) BY <1>0
  <2> QED BY <1>0, <1>1, <1>10, <2>1 DEF AuditWritten
<1>11. CASE AuditFails(h)
  BY <1>0, <1>3, <1>5, <1>11 DEF AuditFails, Goto
<1>12. CASE Enqueue(h)
  <2>1. Head(todo[h]) \in Jobs /\ Tail(todo[h]) \in Seq(Jobs)
    BY <1>0, <1>12, ToDoOf DEF Enqueue, HandlersOK
  <2>2. overtaken' \subseteq Jobs
    BY <1>0, <1>12, <2>1 DEF Enqueue
  <2> QED BY <1>0, <1>1, <1>4, <1>12, <2>1, <2>2 DEF Enqueue
<1>13. CASE EnqueueFails(h)
  <2>1. Head(todo[h]) \in Jobs
    BY <1>0, <1>13, ToDoOf DEF EnqueueFails, HandlersOK
  <2>2. \A n \in 1 .. Len(todo[h]) : SubSeq(todo[h], n + 1, Len(todo[h])) \in Seq(Jobs)
    BY <1>0, ToDoOf
  <2>3. SameCall(h) \subseteq Jobs
    BY <1>3 DEF SameCall
  <2> QED BY <1>0, <1>1, <1>4, <1>5, <1>13, <2>1, <2>2, <2>3 DEF EnqueueFails
<1> QED BY <1>6, <1>7, <1>8, <1>9, <1>10, <1>11, <1>12, <1>13 DEF Handler

\* So do those of the workers.
LEMMA WorkerTypes ==
    ASSUME JInv, EInv', NEW q \in Queues, Worker(q) PROVE TypeOK'
<1> USE DEF TypeOK, handlerVars, queueVars, workerVars, outputs, gaps, counts
<1>0. TypeOK /\ BatchOK(q) /\ RowOK(q) /\ MessagesTypeOK'
  BY DEF JInv, EInv, WorkersOK
<1>1. ASSUME NEW S \in SUBSET Jobs, StartJob(q, S)
      PROVE  /\ batch' \in [Queues -> SUBSET Jobs]
             /\ row' \in [Queues -> Contents \cup {NoContent}]
             /\ job' \in [Queues -> Jobs \cup {NoJob}]
             /\ at' \in [Queues -> {"idle", "backfill", "claim", "load", "work", "link", "done", "catch"}]
  BY <1>0, <1>1 DEF StartJob
<1>2. batch[q] \subseteq Jobs
  BY <1>0
<1>3. at[q] \in Busy => job[q] \in Jobs /\ job[q][1] \in Messages
  BY <1>0, <1>2, JobsAre DEF BatchOK
<1>4. Fault => faults' \in 0 .. MaxFaults /\ crashes' = crashes
  BY <1>0, BoundsAssumption DEF Fault
<1>5. at[q] \in Reading => row[q] \in Contents /\ row[q][1] \in Texts
  BY <1>0 DEF RowOK, Contents
<1>6. at[q] \in Reading => Mentioned(q) \subseteq Users /\ Named(q) \subseteq Entities
  BY <1>5, MessagesAssumption DEF Mentioned, Named
<1>7. Abandon(q) => stranded' \subseteq Jobs
  BY <1>0, <1>2 DEF Abandon
<1>8. ASSUME Reschedule(job[q]), job[q] \in Jobs
      PROVE  /\ status' \in [Jobs -> {"none", "pending", "processing", "completed", "failed"}]
             /\ attempts' \in [Jobs -> Nat]
  <2>1. CASE status[job[q]] = "none"
    BY <1>0, <1>8, <2>1 DEF Reschedule
  <2>2. CASE status[job[q]] # "none"
    <3>1. NextStatus(attempts[job[q]] + 1) \in {"failed", "pending"}
      BY DEF NextStatus
    <3>2. /\ attempts' = [attempts EXCEPT ![job[q]] = attempts[job[q]] + 1]
          /\ status' = [status EXCEPT ![job[q]] = NextStatus(attempts[job[q]] + 1)]
      BY <1>0, <1>8, <2>2 DEF Reschedule
    <3>3. attempts[job[q]] + 1 \in Nat
      BY <1>0, <1>8
    <3> QED BY <1>0, <3>1, <3>2, <3>3
  <2> QED BY <2>1, <2>2
<1>9. CASE TickFails(q)
  BY <1>0, <1>4, <1>9 DEF TickFails
<1>10. CASE claimBatch(q)
  <2>1. PICK S \in Claims(q) :
          /\ status' = [j \in Jobs |-> IF j \in S THEN "processing" ELSE status[j]]
          /\ StartJob(q, S)
    BY <1>10 DEF claimBatch
  <2>2. S \in SUBSET Jobs
    BY JobsAre DEF Claims, Pending
  <2>3. status' \in [Jobs -> {"none", "pending", "processing", "completed", "failed"}]
    BY <1>0, <2>1
  <2> QED BY <1>0, <1>1, <1>10, <2>1, <2>2, <2>3 DEF claimBatch
<1>11. CASE loadMessageContext(q)
  <2>1. content[job[q][1]] \in Contents \cup {NoContent}
    BY <1>0, <1>3, <1>11 DEF loadMessageContext, Busy, MessagesTypeOK
  <2> QED BY <1>0, <1>11, <2>1 DEF loadMessageContext
<1>12. CASE processNotificationJob(q)
  <2>1. Mentioned(q) \subseteq Users /\ job[q][1] \in Messages
    BY <1>3, <1>6, <1>12 DEF processNotificationJob, Working, Busy, Reading
  <2>2. notified' \in [Messages -> SUBSET Users]
    BY <1>0, <1>12, <2>1 DEF processNotificationJob
  <2>3. pushed' \in [Messages -> [Users -> Nat]]
    <3>1. [u \in Users |-> pushed[job[q][1]][u] + IF u \in New(q) THEN 1 ELSE 0] \in [Users -> Nat]
      BY <1>0, <2>1
    <3> QED BY <1>0, <1>12, <2>1, <3>1 DEF processNotificationJob
  <2> QED BY <1>0, <1>12, <2>2, <2>3 DEF processNotificationJob
<1>13. CASE UnlinkEntities(q)
  <2>1. job[q][1] \in Messages
    BY <1>3, <1>13 DEF UnlinkEntities, Working, Busy
  <2> QED BY <1>0, <1>13, <2>1 DEF UnlinkEntities
<1>14. CASE LinkEntities(q)
  <2>1. Named(q) \subseteq Entities /\ job[q][1] \in Messages
    BY <1>3, <1>6, <1>14 DEF LinkEntities, Busy, Reading
  <2> QED BY <1>0, <1>14, <2>1 DEF LinkEntities
<1>15. CASE StoreEmbedding(q)
  <2>1. batch[q] \ {job[q]} \in SUBSET Jobs /\ row[q] \in Contents
    BY <1>2, <1>5, <1>15 DEF StoreEmbedding, Working, Reading
  <2>2. vector' \in [Messages -> Contents \cup {NoContent}]
    BY <1>0, <1>15, <2>1 DEF StoreEmbedding
  <2>3. status' \in [Jobs -> {"none", "pending", "processing", "completed", "failed"}]
    BY <1>0, <1>15 DEF StoreEmbedding
  <2> QED BY <1>0, <1>1, <1>15, <2>1, <2>2, <2>3 DEF StoreEmbedding, NextJob
<1>16. CASE Complete(q)
  <2>1. status' \in [Jobs -> {"none", "pending", "processing", "completed", "failed"}]
    BY <1>0, <1>16 DEF Complete
  <2> QED BY <1>0, <1>1, <1>2, <1>16, <2>1 DEF Complete, NextJob
<1>17. CASE RetryLater(q)
  BY <1>0, <1>1, <1>2, <1>3, <1>8, <1>17 DEF RetryLater, NextJob, Busy
<1>18. CASE LoadFails(q)
  BY <1>0, <1>1, <1>4, <1>7, <1>18 DEF LoadFails, Abandon
<1>19. CASE RetryLaterFails(q)
  BY <1>0, <1>1, <1>3, <1>4, <1>7, <1>8, <1>19 DEF RetryLaterFails, Abandon, Busy
<1>20. CASE JobFails(q)
  <2>1. Working(q, "NOTIFICATION") \/ Working(q, "EMBEDDING") =>
            /\ Mentioned(q) \subseteq Users /\ row[q] \in Contents
            /\ job[q][1] \in Messages
    BY <1>3, <1>5, <1>6 DEF Working, Busy, Reading
  <2>2. notified' \in [Messages -> SUBSET Users]
    BY <1>0, <1>20, <2>1 DEF JobFails
  <2>3. vector' \in [Messages -> Contents \cup {NoContent}]
    BY <1>0, <1>20, <2>1 DEF JobFails
  <2>4. status' \in [Jobs -> {"none", "pending", "processing", "completed", "failed"}]
    BY <1>0, <1>20 DEF JobFails
  <2> QED BY <1>0, <1>4, <1>20, <2>2, <2>3, <2>4 DEF JobFails
<1> QED BY <1>9, <1>10, <1>11, <1>12, <1>13, <1>14, <1>15, <1>16, <1>17, <1>18, <1>19, <1>20
        DEF Worker, Process

\* And every other step.
LEMMA TypeStep == ASSUME JInv, EInv', Next PROVE TypeOK'
<1>0. TypeOK /\ MessagesTypeOK'
  BY DEF JInv, EInv
<1>1. CASE Crash
  <2>1. \A h \in Handlers : ToDo(h) \subseteq Jobs
    BY <1>0, ToDoOf, ToDoIs DEF TypeOK
  <2>2. dropped' \subseteq Jobs /\ stranded' \subseteq Jobs /\ crashes' \in 0 .. MaxCrashes
    BY <1>0, <1>1, <2>1, BoundsAssumption DEF Crash, TypeOK
  <2> QED BY <1>0, <1>1, <2>2 DEF Crash, TypeOK, queueVars, outputs, Contents, NoContent
<1>2. CASE Reconcile
  <2>1. ASSUME NEW kind, Backfill(kind)
        PROVE  status' \in [Jobs -> {"none", "pending", "processing", "completed", "failed"}]
    BY <1>0, <2>1 DEF Backfill, TypeOK
  <2>2. ASSUME NEW kind, Backfill(kind), NEW q \in Queues, NEW to \in {"backfill", "claim"},
               at' = [at EXCEPT ![q] = to]
        PROVE  TypeOK'
    BY <1>0, <2>1, <2>2 DEF Backfill, TypeOK, handlerVars, outputs, gaps, counts
  <2> QED BY <1>2, <2>2 DEF Reconcile, BackfillNotifications, BackfillEntityLinks,
                            enqueueMissingEmbeddingJobs
<1> QED BY <1>1, <1>2, HandlerTypes, WorkerTypes DEF Next

\* A handler's step keeps HandlersOK if its own part holds again.
LEMMA OwnPart ==
    ASSUME HandlersOK, NEW h \in Handlers,
           \A g \in Handlers \ {h} : pc'[g] = pc[g] /\ todo'[g] = todo[g] /\ tx'[g] = tx[g],
           \A n \in Messages : content[n] # NoContent => content'[n] # NoContent,
           \A g \in Handlers : ToDo(g) \subseteq Jobs,
           tx'[h] # "none" => pc'[h] = "idle",
           pc'[h] = "idle" => todo'[h] = <<>>,
           pc'[h] = "enqueue" => todo'[h] # <<>>,
           \A j \in ToDo(h)' : Proper(j)'
    PROVE  HandlersOK'
<1>1. \A j \in Jobs : Proper(j) => Proper(j)'
  BY JobsAre DEF Proper
<1> SUFFICES ASSUME NEW g \in Handlers \ {h}
             PROVE  /\ tx'[g] # "none" => pc'[g] = "idle"
                    /\ pc'[g] = "idle" => todo'[g] = <<>>
                    /\ pc'[g] = "enqueue" => todo'[g] # <<>>
                    /\ \A j \in ToDo(g)' : Proper(j)'
  BY DEF HandlersOK
<1>2. ToDo(g)' = ToDo(g)
  BY DEF ToDo, Items
<1> QED BY <1>1, <1>2 DEF HandlersOK

\* What a handler has still to do, piece by piece.
LEMMA ToDoParts ==
    ASSUME JInv, NEW h \in Handlers
    PROVE  /\ todo[h] # <<>> => LET s == Tail(todo[h]) IN
               /\ Head(todo[h]) \in ToDo(h) /\ s \in Seq(Jobs)
               /\ Items(s) \subseteq ToDo(h)
               /\ ToDo(h) \subseteq {Head(todo[h])} \cup Items(s)
           /\ \A n \in 1 .. Len(todo[h]) : LET s == SubSeq(todo[h], n + 1, Len(todo[h])) IN
               /\ s \in Seq(Jobs)
               /\ Items(s) \subseteq ToDo(h)
               /\ ToDo(h) \subseteq UpTo(todo[h], n) \cup Items(s)
<1> DEFINE w == todo[h]
<1>1. w \in Seq(Jobs)
  BY DEF JInv, TypeOK
<1>2. ToDo(h) = Items(w)
  BY ToDoIs
<1> HIDE DEF w
<1>3. w # <<>> => LET s == Tail(w) IN
          /\ Head(w) \in Items(w) /\ s \in Seq(Jobs)
          /\ Items(s) \subseteq Items(w)
          /\ Items(w) \subseteq {Head(w)} \cup Items(s)
  BY <1>1, ToDoOf
<1>4. \A n \in 1 .. Len(w) : LET s == SubSeq(w, n + 1, Len(w)) IN
          /\ s \in Seq(Jobs)
          /\ Items(s) \subseteq Items(w)
          /\ Items(w) \subseteq UpTo(w, n) \cup Items(s)
  BY <1>1, ToDoOf
<1> QED BY <1>2, <1>3, <1>4, SMTT(30) DEF w

\* Only jobs are enqueued.
LEMMA ToDosAreJobs == ASSUME JInv PROVE \A h \in Handlers : ToDo(h) \subseteq Jobs
BY ToDoOf, ToDoIs DEF JInv, TypeOK

\* Sending.
LEMMA PostMessageKeeps ==
    ASSUME JInv, EInv', TypeOK', NEW h \in Handlers, PostMessage(h) PROVE JInv'
<1> PICK m \in Messages : createMessage(h, m) /\ Proceed(h, SideEffects(m) \o Embedding(m))
  BY DEF PostMessage
<1> DEFINE s == SideEffects(m) \o Embedding(m)
<1>1. /\ pc[h] = "idle" /\ todo[h] = <<>> /\ tx[h] = "none" /\ UNCHANGED tx
      /\ UNCHANGED <<queueVars, workerVars, outputs, gaps>>
  BY DEF PostMessage, createMessage, JInv, HandlersOK
<1>2. PICK c \in Texts \X {writes'} : content' = [content EXCEPT ![m] = c]
  BY DEF createMessage
<1>3. /\ content'[m] # NoContent /\ \A n \in Messages \ {m} : content'[n] = content[n]
  <2>1. c = <<c[1], c[2]>>
    OBVIOUS
  <2>2. \A a, b : <<a, b>> # NoContent
    BY DEF NoContent
  <2> QED BY <1>2, <2>1, <2>2 DEF JInv, TypeOK, MessagesTypeOK
<1>4. /\ todo' = [todo EXCEPT ![h] = s]
      /\ pc' = [pc EXCEPT ![h] = IF s = <<>> THEN "idle" ELSE "enqueue"]
  BY DEF Proceed, Goto
<1>5. /\ s \in Seq(Jobs)
      /\ \A j \in Jobs : j \in Items(s) <=>
            j[1] = m /\ (j[2] = "ENTITY_LINK" => m \in InWorkspace)
  BY AllJobs
<1> HIDE DEF s
<1>6. /\ todo'[h] = s /\ pc'[h] = IF s = <<>> THEN "idle" ELSE "enqueue"
      /\ \A g \in Handlers \ {h} : todo'[g] = todo[g] /\ pc'[g] = pc[g]
  BY <1>4 DEF JInv, TypeOK
<1>7. ToDo(h)' = Items(s) /\ ToDo(h)' \subseteq Jobs
  BY <1>5, <1>6, ToDoOf, ToDoIs
<1>8. HandlersOK'
  <2>1. \A j \in ToDo(h)' : Proper(j)'
    BY <1>3, <1>5, <1>7 DEF Proper
  <2> QED BY <1>1, <1>3, <1>6, <2>1, OwnPart, ToDosAreJobs DEF JInv
<1> QED BY <1>1, <1>3, <1>5, <1>6, <1>7, <1>8, ContentWritten

\* What a commit leaves to do: something for every job whose content it changed.
LEMMA CommitKeeps ==
    ASSUME JInv, EInv', TypeOK', NEW h \in Handlers, NEW m \in Messages, NEW s \in Seq(Jobs),
           NEW c, content' = [content EXCEPT ![m] = c], c # NoContent,
           h \in rowLock[m], EndUpdate(h, m),
           todo' = [todo EXCEPT ![h] = s], Goto(h, "audit"),
           UNCHANGED <<queueVars, workerVars, outputs, gaps>>,
           Items(s) \subseteq JobsFor(m),
           \/ JobsFor(m) \subseteq Items(s)
           \/ /\ c[1] = content[m][1]
              /\ \A j \in JobsFor(m) : j[2] = "EMBEDDING" => j \in Items(s)
    PROVE  JInv'
<1> USE DEF JobsFor
<1>1. tx[h] # "none" /\ content[m] # NoContent
  BY DEF JInv, EInv, LockOK
<1>2. pc[h] = "idle" /\ todo[h] = <<>>
  BY <1>1 DEF JInv, HandlersOK
<1>3. content'[m] = c /\ \A n \in Messages \ {m} : content'[n] = content[n]
  BY DEF JInv, TypeOK, MessagesTypeOK
<1>4. /\ todo'[h] = s /\ pc'[h] = "audit"
      /\ \A g \in Handlers \ {h} : todo'[g] = todo[g] /\ pc'[g] = pc[g]
  BY DEF JInv, TypeOK, Goto
<1>5. tx'[h] = "none" /\ \A g \in Handlers \ {h} : tx'[g] = tx[g]
  BY DEF JInv, TypeOK, MessagesTypeOK, EndUpdate
<1>6. ToDo(h)' = Items(s) /\ ToDo(h)' \subseteq Jobs
  BY <1>4, ToDoOf, ToDoIs
<1>7. HandlersOK'
  <2>1. \A j \in ToDo(h)' : Proper(j)'
    BY <1>3, <1>6 DEF Proper
  <2> QED BY <1>3, <1>4, <1>5, <2>1, OwnPart, ToDosAreJobs DEF JInv
<1> QED BY <1>1, <1>2, <1>3, <1>4, <1>6, <1>7, ContentWritten

\* Editing.
LEMMA EditMessageKeeps ==
    ASSUME JInv, EInv', TypeOK', NEW h \in Handlers, EditMessage(h) PROVE JInv'
<1> PICK m \in Messages : CommitEdit(h, m) /\ todo' = [todo EXCEPT ![h] = Embedding(m) \o SideEffects(m)]
  BY DEF EditMessage
<1> DEFINE s == Embedding(m) \o SideEffects(m)
<1>1. PICK c \in Texts \X {writes} : content' = [content EXCEPT ![m] = c]
  BY DEF CommitEdit
<1>2. c # NoContent
  <2>1. c = <<c[1], c[2]>>
    OBVIOUS
  <2>2. \A a, b : <<a, b>> # NoContent
    BY DEF NoContent
  <2> QED BY <2>1, <2>2
<1>3. /\ s \in Seq(Jobs)
      /\ \A j \in Jobs : j \in Items(s) <=>
            j[1] = m /\ (j[2] = "ENTITY_LINK" => m \in InWorkspace)
  BY AllJobs
<1>4. todo' = [todo EXCEPT ![h] = s]
  OBVIOUS
<1> HIDE DEF s
<1>5. /\ h \in rowLock[m] /\ EndUpdate(h, m) /\ Goto(h, "audit")
      /\ UNCHANGED <<queueVars, workerVars, outputs, gaps>>
  BY DEF CommitEdit, EditMessage
<1>6. Items(s) = JobsFor(m)
  BY <1>3, ToDoOf DEF JobsFor
<1> QED BY <1>1, <1>2, <1>3, <1>4, <1>5, <1>6, CommitKeeps

\* Toggling a task: the text stays, so only a vector is due.
LEMMA ToggleTaskKeeps ==
    ASSUME JInv, EInv', TypeOK', NEW h \in Handlers, ToggleTask(h) PROVE JInv'
<1>0. PICK m \in Messages : CommitToggle(h, m) /\ todo' = [todo EXCEPT ![h] = Embedding(m)]
  BY DEF ToggleTask
<1> DEFINE s == Embedding(m)
           c == <<read[h][1], writes>>
<1>1. content' = [content EXCEPT ![m] = c] /\ c # NoContent /\ c[1] = content[m][1]
  BY <1>0 DEF CommitToggle, NoContent, JInv, EInv, LockOK
<1>2. todo' = [todo EXCEPT ![h] = s]
  BY <1>0
<1>3. /\ s \in Seq(Jobs)
      /\ \A j \in Jobs : j \in Items(s) <=> j[1] = m /\ j[2] = "EMBEDDING"
  <2> DEFINE e == <<m, "EMBEDDING">>
  <2>1. \A j \in Jobs : j[1] = m /\ j[2] = "EMBEDDING" <=> j = e /\ "embedding" \in Queues
    BY JobsAre, KindsAre
  <2>2. CASE "embedding" \in Queues
    <3>1. e \in Jobs BY <2>2, JobsAre, KindsAre
    <3>2. s = <<e>> BY <2>2 DEF Embedding
    <3> HIDE DEF e, s
    <3>3. s \in Seq(Jobs) /\ Len(s) = 1 /\ s[1] = e /\ 1 .. 1 = {1} BY <3>1, <3>2
    <3>4. Items(s) = {e} BY <3>3 DEF Items
    <3> QED BY <2>1, <2>2, <3>3, <3>4
  <2>3. CASE "embedding" \notin Queues
    <3>1. s = <<>> BY <2>3 DEF Embedding
    <3> HIDE DEF e, s
    <3>2. s \in Seq(Jobs) BY <3>1
    <3> QED BY <2>1, <2>3, <3>1, <3>2, ToDoOf
  <2> QED BY <2>2, <2>3
<1> HIDE DEF s
<1>4. /\ h \in rowLock[m] /\ EndUpdate(h, m) /\ Goto(h, "audit")
      /\ UNCHANGED <<queueVars, workerVars, outputs, gaps>>
  BY <1>0 DEF CommitToggle, ToggleTask
<1>5. /\ s \in Seq(Jobs) /\ Items(s) \subseteq JobsFor(m)
      /\ \A j \in JobsFor(m) : j[2] = "EMBEDDING" => j \in Items(s)
  BY <1>3, ToDoOf DEF JobsFor
<1> HIDE DEF c
<1> QED BY <1>0, <1>1, <1>2, <1>4, <1>5, CommitKeeps

\* A transaction that begins or rolls back touches no job.
LEMMA UpdateKeeps ==
    ASSUME JInv, EInv', TypeOK', NEW h \in Handlers, Update(h) PROVE JInv'
<1> USE DEF Update, handlerVars, workerVars, outputs, gaps, queueVars
<1>1. UNCHANGED content /\ \A g \in Handlers \ {h} : tx'[g] = tx[g]
  BY DEF BeginUpdate, RollBack, EndUpdate, JInv, TypeOK, MessagesTypeOK
<1>2. \A j \in ToDo(h) : Proper(j)
  BY DEF JInv, HandlersOK
<1>3. ToDo(h)' = ToDo(h) /\ \A j : Proper(j)' <=> Proper(j)
  BY <1>1 DEF ToDo, Proper
<1>4. HandlersOK'
  <2>1. pc'[h] = "idle" /\ todo'[h] = <<>>
    BY DEF JInv, HandlersOK
  <2> QED BY <1>1, <1>2, <1>3, <2>1, OwnPart, ToDosAreJobs DEF JInv
<1>5. UNCHANGED queueVars \/ \E j \in ToDo(h) : Upsert(j)
  OBVIOUS
<1> QED BY <1>1, <1>3, <1>4, <1>5, HandlerMoves

\* Recording the audit event, too.
LEMMA AuditWrittenKeeps ==
    ASSUME JInv, EInv', TypeOK', NEW h \in Handlers, AuditWritten(h) PROVE JInv'
<1> USE DEF AuditWritten, messageVars, workerVars, outputs, gaps, queueVars, Proceed, Goto
<1>1. UNCHANGED <<content, tx>> /\ pc[h] = "audit" /\ tx[h] = "none"
  BY DEF JInv, HandlersOK, TypeOK, MessagesTypeOK
<1>2. UNCHANGED todo
  BY DEF JInv, TypeOK
<1>3. \A g \in Handlers : ToDo(g)' = ToDo(g)
  BY <1>2 DEF ToDo
<1>4. HandlersOK'
  <2>1. \A j \in ToDo(h)' : Proper(j)'
    BY <1>1, <1>3 DEF JInv, HandlersOK, Proper
  <2>2. /\ pc'[h] = IF todo'[h] = <<>> THEN "idle" ELSE "enqueue"
        /\ \A g \in Handlers \ {h} : pc'[g] = pc[g]
    BY <1>2 DEF JInv, TypeOK
  <2> QED BY <1>1, <1>2, <2>1, <2>2, OwnPart, ToDosAreJobs DEF JInv
<1> QED BY <1>1, <1>2, <1>3, <1>4, HandlerMoves

\* The audit event fails: what was to do is dropped.
LEMMA AuditFailsKeeps ==
    ASSUME JInv, EInv', TypeOK', NEW h \in Handlers, AuditFails(h) PROVE JInv'
<1> USE DEF AuditFails, messageVars, workerVars, outputs, queueVars, Goto
<1>1. UNCHANGED <<content, tx>> /\ pc[h] = "audit" /\ tx[h] = "none"
  BY DEF JInv, HandlersOK, TypeOK, MessagesTypeOK
<1>2. /\ todo'[h] = <<>> /\ pc'[h] = "idle"
      /\ \A g \in Handlers \ {h} : todo'[g] = todo[g] /\ pc'[g] = pc[g]
  BY DEF JInv, TypeOK
<1>3. ToDo(h)' = {}
  BY <1>2 DEF ToDo
<1>4. HandlersOK'
  BY <1>1, <1>2, <1>3, OwnPart, ToDosAreJobs DEF JInv
<1> QED BY <1>1, <1>2, <1>4, HandlerMoves

\* What is left to do when one of several jobs is enqueued.
LEMMA RestKeeps ==
    ASSUME JInv, EInv', TypeOK', NEW h \in Handlers, NEW s \in Seq(Jobs), pc[h] = "enqueue",
           Proceed(h, s), Items(s) \subseteq ToDo(h),
           UNCHANGED <<messageVars, workerVars, outputs, stranded>>,
           dropped \subseteq dropped', overtaken \subseteq overtaken',
           UNCHANGED queueVars \/ Upsert(Head(todo[h])),
           \A j \in ToDo(h) : \/ j \in Items(s) \cup dropped'
                              \/ /\ j = Head(todo[h]) /\ Upsert(j)
                                 /\ AlreadyRunning(j) => j \in overtaken'
    PROVE  JInv'
<1> USE DEF messageVars, Proceed, Goto
<1>1. UNCHANGED <<content, tx>> /\ tx[h] = "none" /\ todo[h] # <<>>
  BY DEF JInv, HandlersOK, TypeOK, MessagesTypeOK
<1>2. /\ todo'[h] = s /\ pc'[h] = IF s = <<>> THEN "idle" ELSE "enqueue"
      /\ \A g \in Handlers \ {h} : todo'[g] = todo[g] /\ pc'[g] = pc[g]
  BY DEF JInv, TypeOK
<1>3. ToDo(h)' = Items(s) /\ Head(todo[h]) \in ToDo(h)
  <2>1. todo[h] \in Seq(Jobs) BY DEF JInv, TypeOK
  <2> QED BY <1>1, <1>2, <2>1, ToDoOf, ToDoIs
<1>4. HandlersOK'
  <2>1. \A j \in ToDo(h)' : Proper(j)'
    BY <1>1, <1>3 DEF JInv, HandlersOK, Proper
  <2> QED BY <1>1, <1>2, <2>1, OwnPart, ToDosAreJobs DEF JInv
<1>5. UNCHANGED queueVars \/ \E j \in ToDo(h) : Upsert(j)
  BY <1>3
<1> QED BY <1>1, <1>2, <1>3, <1>4, <1>5, HandlerMoves

\* One job is enqueued.
LEMMA EnqueueKeeps ==
    ASSUME JInv, EInv', TypeOK', NEW h \in Handlers, Enqueue(h) PROVE JInv'
<1> DEFINE s == Tail(todo[h])
<1>1. pc[h] = "enqueue" /\ Proceed(h, s) /\ Upsert(Head(todo[h]))
  BY DEF Enqueue
<1>2. todo[h] \in Seq(Jobs) /\ todo[h] # <<>>
  BY <1>1 DEF JInv, TypeOK, HandlersOK
<1>3. /\ s \in Seq(Jobs) /\ Items(s) \subseteq ToDo(h)
      /\ ToDo(h) \subseteq {Head(todo[h])} \cup Items(s)
  BY <1>2, ToDoParts
<1>4. /\ overtaken \subseteq overtaken'
      /\ AlreadyRunning(Head(todo[h])) => Head(todo[h]) \in overtaken'
      /\ UNCHANGED <<messageVars, workerVars, outputs, dropped, stranded>>
  BY DEF Enqueue
<1> HIDE DEF s
<1> QED BY <1>1, <1>3, <1>4, RestKeeps

\* An enqueue fails: the rest of its call is dropped.
LEMMA EnqueueFailsKeeps ==
    ASSUME JInv, EInv', TypeOK', NEW h \in Handlers, EnqueueFails(h) PROVE JInv'
<1>1. PICK n \in 1 .. Len(todo[h]) :
         /\ SameCall(h) = UpTo(todo[h], n)
         /\ Proceed(h, SubSeq(todo[h], n + 1, Len(todo[h])))
  BY DEF EnqueueFails, UpTo
<1> DEFINE s == SubSeq(todo[h], n + 1, Len(todo[h]))
<1>3. /\ s \in Seq(Jobs) /\ Items(s) \subseteq ToDo(h)
      /\ ToDo(h) \subseteq SameCall(h) \cup Items(s)
  BY <1>1, ToDoParts
<1>4. /\ dropped' = dropped \cup SameCall(h) /\ pc[h] = "enqueue" /\ Proceed(h, s)
      /\ UNCHANGED queueVars \/ Upsert(Head(todo[h]))
      /\ UNCHANGED <<messageVars, workerVars, outputs, overtaken, stranded>>
  BY <1>1 DEF EnqueueFails
<1> HIDE DEF s
<1> QED BY <1>3, <1>4, RestKeeps

\* Every step of a handler.
LEMMA HandlerKeeps ==
    ASSUME JInv, EInv', NEW h \in Handlers, Handler(h) PROVE JInv'
BY HandlerTypes, PostMessageKeeps, UpdateKeeps, EditMessageKeeps, ToggleTaskKeeps,
   AuditWrittenKeeps, AuditFailsKeeps, EnqueueKeeps, EnqueueFailsKeeps DEF Handler

------------------------------------------------------------------------------
(* The workers.                                                                *)

\* A queue's jobs are not those of another.
LEMMA OneQueueEach ==
    ASSUME JInv, NEW q \in Queues
    PROVE  /\ batch[q] \subseteq JobsOf(q) /\ batch[q] \subseteq Jobs
           /\ job[q] \in Jobs <=> at[q] \in Busy
           /\ job[q] \in Jobs => job[q] \in batch[q]
           /\ \A r \in Queues \ {q} : JobsOf(q) \cap batch[r] = {}
           /\ \A r \in Queues \ {q} : job[r] \in Jobs => job[r] \notin JobsOf(q)
<1>1. \A r \in Queues : BatchOK(r)
  BY DEF JInv, WorkersOK
<1>2. \A r \in Queues : /\ batch[r] \subseteq JobsOf(r)
                        /\ at[r] \in Busy => job[r] \in batch[r]
                        /\ at[r] \notin Busy => job[r] = NoJob
  BY <1>1 DEF BatchOK
<1> QED BY <1>2, JobsAre

\* What a job writes, by its kind, before and after a step.
LEMMA OutputIs ==
    ASSUME NEW j \in Jobs
    PROVE  /\ \/ j[2] = "NOTIFICATION" /\ OutputOf(j) = notified[j[1]] /\ OutputOf(j)' = notified'[j[1]]
              \/ j[2] = "ENTITY_LINK" /\ OutputOf(j) = links[j[1]] /\ OutputOf(j)' = links'[j[1]]
              \/ j[2] = "EMBEDDING" /\ OutputOf(j) = vector[j[1]] /\ OutputOf(j)' = vector'[j[1]]
BY JobsAre, KindsAre DEF OutputOf

\* A worker's step: it rewrites the rows of T, jobs of its own, and the output of its job.
LEMMA WorkerMoves ==
    ASSUME JInv, EInv', TypeOK', NEW q \in Queues, NEW T \in SUBSET JobsOf(q), batch[q] \subseteq T,
           UNCHANGED <<messageVars, handlerVars>>,
           \A r \in Queues \ {q} : /\ at'[r] = at[r] /\ batch'[r] = batch[r]
                                   /\ job'[r] = job[r] /\ row'[r] = row[r],
           \A j \in Jobs : j # job[q] => OutputOf(j)' = OutputOf(j),
           \A j \in Jobs \ T : status'[j] = status[j],
           stranded \subseteq stranded',
           \A j \in Jobs \ {job[q]} : j \in dropped \cup overtaken \cup stranded
                                          => j \in dropped' \cup overtaken' \cup stranded',
           BatchOK(q)', RowOK(q)', ChaseOK(q)', PushesOK',
           \A j \in T : /\ status'[j] # "none" => Proper(j)
                        /\ status'[j] = "completed" => j[2] # "EMBEDDING"
                        /\ status'[j] = "processing" => j \in stranded' \/ j \in batch'[q]
                        /\ Stale(j)' => Cared(j)'
    PROVE  JInv'
<1> USE DEF messageVars, handlerVars
<1>0. /\ \A j : Proper(j)' <=> Proper(j)
      /\ \A h : ToDo(h)' = ToDo(h)
      /\ \A r \in Queues \ {q} : UpToDate(r)' <=> UpToDate(r)
  BY DEF Proper, ToDo, UpToDate
<1>1. /\ batch[q] \subseteq Jobs /\ T \subseteq Jobs
      /\ job[q] \in Jobs => job[q] \in T
      /\ \A r \in Queues \ {q} : batch[r] \subseteq Jobs \ T
      /\ \A r \in Queues \ {q} : at[r] \in Busy => job[r] \in Jobs \ T /\ job[r] # job[q]
  BY OneQueueEach, JobsAre
<1>2. HandlersOK'
  BY <1>0 DEF JInv, HandlersOK
<1>3. WorkersOK'
  <2> SUFFICES ASSUME NEW r \in Queues \ {q} PROVE BatchOK(r)' /\ RowOK(r)' /\ ChaseOK(r)'
    BY DEF WorkersOK
  <2>1. BatchOK(r) /\ RowOK(r) /\ ChaseOK(r)
    BY DEF JInv, WorkersOK
  <2>2. BatchOK(r)'
    BY <1>0, <1>1, <2>1 DEF BatchOK
  <2>3. RowOK(r)'
    BY <1>1, <2>1, OutputIs DEF RowOK, Mentioned, Named, Busy, Reading
  <2>4. ChaseOK(r)'
    BY <1>0, <1>1, <2>1 DEF ChaseOK, Followed, Busy, Reading
  <2> QED BY <2>2, <2>3, <2>4
<1>4. StatusOK'
  <2> SUFFICES ASSUME NEW j \in Jobs
               PROVE  /\ status'[j] # "none" => Proper(j)
                      /\ status'[j] = "completed" => j[2] # "EMBEDDING"
                      /\ status'[j] = "processing" => j \in stranded' \/ \E r \in Queues : j \in batch'[r]
    BY <1>0 DEF StatusOK
  <2>1. CASE j \in T
    BY <2>1
  <2>2. CASE j \notin T
    <3>1. status'[j] = status[j] /\ j # job[q]
      BY <1>1, <2>2
    <3> QED BY <1>1, <2>2, <3>1 DEF JInv, StatusOK
  <2> QED BY <2>1, <2>2
<1>5. StaleIsOwed'
  <2> SUFFICES ASSUME NEW j \in Jobs, Stale(j)' PROVE Cared(j)'
    BY DEF StaleIsOwed, Cared, Followed, Owed
  <2>1. CASE j \in T
    BY <2>1
  <2>2. CASE j \notin T
    <3>1. status'[j] = status[j] /\ j # job[q] /\ OutputOf(j)' = OutputOf(j)
      BY <1>1, <2>2
    <3>2. Stale(j)
      BY <3>1, OutputIs DEF Stale
    <3>3. Owed(j) \/ j \in dropped \cup overtaken \cup stranded
      BY <3>2 DEF JInv, StaleIsOwed
    <3>4. j \in Missing(j[2]) => j \in Missing(j[2])'
      BY <3>1, MissingAre, OutputIs DEF Unmade
    <3>5. InGoodHands(j) => InGoodHands(j)'
      <4> SUFFICES ASSUME NEW r \in Queues, j \in batch[r],
                          j = job[r] => at[r] \in {"load", "catch"} \/ UpToDate(r)
                   PROVE  InGoodHands(j)'
        BY DEF InGoodHands
      <4>1. r # q
        BY <2>2
      <4> QED BY <1>0, <4>1 DEF InGoodHands
    <3> QED BY <1>0, <3>1, <3>3, <3>4, <3>5 DEF Cared, Followed, Owed
  <2> QED BY <2>1, <2>2
<1> QED BY <1>2, <1>3, <1>4, <1>5 DEF JInv

\* The worker keeps its batch and its job: only the job's row and output change.
LEMMA JobGoesOn ==
    ASSUME JInv, EInv', TypeOK', NEW q \in Queues, at[q] \in Busy, NEW to \in Busy,
           at' = [at EXCEPT ![q] = to],
           UNCHANGED <<messageVars, handlerVars, batch, job, stranded>>,
           \A r \in Queues \ {q} : row'[r] = row[r],
           \A j \in Jobs : j # job[q] => OutputOf(j)' = OutputOf(j) /\ status'[j] = status[j],
           \A j \in Jobs \ {job[q]} : j \in dropped \cup overtaken => j \in dropped' \cup overtaken',
           RowOK(q)', ChaseOK(q)', PushesOK',
           status'[job[q]] = "processing" \/ to = "catch",
           status'[job[q]] = "completed" => job[q][2] # "EMBEDDING",
           Stale(job[q])' => Cared(job[q])'
    PROVE  JInv'
<1>1. BatchOK(q) /\ batch[q] \in SUBSET JobsOf(q) /\ batch[q] \subseteq Jobs /\ job[q] \in batch[q]
  BY OneQueueEach DEF JInv, WorkersOK
<1>2. \A j : Proper(j)' <=> Proper(j)
  BY DEF Proper, messageVars
<1>3. at'[q] = to /\ \A r \in Queues \ {q} : at'[r] = at[r]
  BY DEF JInv, TypeOK
<1>4. \A j \in batch[q] : Proper(j) /\ (j # job[q] => status[j] = "processing" /\ status'[j] = "processing")
  BY <1>1 DEF BatchOK
<1>5. BatchOK(q)'
  BY <1>1, <1>2, <1>3, <1>4 DEF BatchOK
<1>6. \A j \in batch[q] :
          /\ status'[j] = "completed" => j[2] # "EMBEDDING"
          /\ status'[j] = "processing" => j \in stranded' \/ j \in batch'[q]
          /\ Stale(j)' => Cared(j)'
  <2> SUFFICES ASSUME NEW j \in batch[q], j # job[q] PROVE Cared(j)'
    BY <1>4
  <2>1. status'[j] = "processing" /\ j \in batch'[q] /\ j # job'[q]
    BY <1>4
  <2> QED BY <2>1 DEF Cared, Owed, InGoodHands
<1> QED BY <1>1, <1>3, <1>4, <1>5, <1>6, WorkerMoves

\* The worker is through with its job: the jobs it keeps are of its batch, those it
\* drops are counted as stranded.
LEMMA JobLeaves ==
    ASSUME JInv, EInv', TypeOK', NEW q \in Queues, at[q] \in Busy, NEW last, last = job[q],
           NEW S \in SUBSET (batch[q] \ {job[q]}), StartJob(q, S),
           UNCHANGED <<messageVars, handlerVars, notified, links, pushed, dropped, overtaken>>,
           stranded \subseteq stranded',
           \A j \in batch[q] \ S : status'[j] = "processing" => j \in stranded',
           \A j \in Jobs : j # job[q] => OutputOf(j)' = OutputOf(j) /\ status'[j] = status[j],
           status'[last] = "completed" => last[2] # "EMBEDDING",
           Stale(last)' => Cared(last)'
    PROVE  JInv'
<1>1. BatchOK(q) /\ batch[q] \in SUBSET JobsOf(q) /\ batch[q] \subseteq Jobs /\ job[q] \in batch[q]
  BY OneQueueEach DEF JInv, WorkersOK
<1>2. \A j : Proper(j)' <=> Proper(j)
  BY DEF Proper, messageVars
<1>3. /\ batch'[q] = S /\ row'[q] = NoContent
      /\ S = {} => job'[q] = NoJob /\ at'[q] = "idle"
      /\ S # {} => job'[q] \in S /\ at'[q] = "load"
      /\ \A r \in Queues \ {q} : /\ at'[r] = at[r] /\ batch'[r] = batch[r]
                                 /\ job'[r] = job[r] /\ row'[r] = row[r]
  BY DEF JInv, TypeOK, StartJob
<1>4. \A j \in batch[q] : Proper(j) /\ (j # job[q] => status[j] = "processing" /\ status'[j] = "processing")
  BY <1>1 DEF BatchOK
<1>5. BatchOK(q)'
  BY <1>1, <1>2, <1>3, <1>4 DEF BatchOK, Busy
<1>6. RowOK(q)' /\ ChaseOK(q)'
  BY <1>3 DEF RowOK, ChaseOK, Reading
<1>7. PushesOK'
  BY DEF JInv, PushesOK
<1>8. \A j \in batch[q] :
          /\ status'[j] = "completed" => j[2] # "EMBEDDING"
          /\ status'[j] = "processing" => j \in stranded' \/ j \in batch'[q]
          /\ Stale(j)' => Cared(j)'
  <2> SUFFICES ASSUME NEW j \in batch[q], j # job[q]
               PROVE  (j \in stranded' \/ j \in batch'[q]) /\ Cared(j)'
    BY <1>1, <1>3, <1>4
  <2>1. CASE j \in S
    <3>1. status'[j] = "processing" /\ j \in batch'[q] /\ at'[q] = "load"
      BY <1>3, <1>4, <2>1
    <3> QED BY <3>1 DEF Cared, Owed, InGoodHands
  <2>2. CASE j \notin S
    BY <1>4, <2>2 DEF Cared, Followed
  <2> QED BY <2>1, <2>2
<1> QED BY <1>1, <1>3, <1>4, <1>5, <1>6, <1>7, <1>8, WorkerMoves

\* An idle worker's step: it rewrites rows of its own, and may claim them.
LEMMA Idles ==
    ASSUME JInv, EInv', TypeOK', NEW q \in Queues, at[q] \notin Busy, at'[q] \notin Reading,
           NEW T \in SUBSET JobsOf(q), UNCHANGED <<messageVars, handlerVars, outputs, gaps>>,
           \A r \in Queues \ {q} : /\ at'[r] = at[r] /\ batch'[r] = batch[r]
                                   /\ job'[r] = job[r] /\ row'[r] = row[r],
           \A j \in Jobs \ T : status'[j] = status[j], BatchOK(q)',
           \A j \in T : /\ Proper(j)
                        /\ status'[j] = "pending" \/ (status'[j] = "processing" /\ j \in batch'[q])
    PROVE  JInv'
<1>1. batch[q] = {} /\ T \subseteq Jobs
  BY JobsAre DEF JInv, WorkersOK, BatchOK
<1>2. \A j \in Jobs : OutputOf(j)' = OutputOf(j)
  BY OutputIs DEF outputs
<1>3. RowOK(q)' /\ ChaseOK(q)'
  BY DEF RowOK, ChaseOK, Reading
<1>4. PushesOK'
  BY SamePushes
<1>5. at'[q] # "load" => batch'[q] = {} \/ at'[q] = "catch"
  BY DEF BatchOK, Busy, Reading
<1>6. \A j \in T : Cared(j)'
  BY <1>5 DEF Cared, Owed, InGoodHands
<1>7. UNCHANGED <<dropped, overtaken, stranded>>
  BY DEF gaps
<1>8. \A j \in T : /\ status'[j] # "none" => Proper(j)
                   /\ status'[j] = "completed" => j[2] # "EMBEDDING"
                   /\ status'[j] = "processing" => j \in stranded' \/ j \in batch'[q]
                   /\ Stale(j)' => Cared(j)'
  BY <1>6
<1> QED BY <1>1, <1>2, <1>3, <1>4, <1>7, <1>8, WorkerMoves

\* Reconciliation makes rows for sent messages that have none.
LEMMA ReconcileKeeps == ASSUME JInv, EInv', TypeOK', Reconcile PROVE JInv'
<1>1. ASSUME NEW q \in Queues, NEW kind \in KindsOf(q), Backfill(kind),
             at[q] \in {"idle", "backfill"}, NEW to \in {"backfill", "claim"},
             at' = [at EXCEPT ![q] = to]
      PROVE  JInv'
  <2> DEFINE T == {j \in Jobs : j \in Missing(kind)}
  <2>1. at[q] \notin Busy /\ at'[q] \notin Reading /\ at'[q] \notin Busy
    BY <1>1 DEF Busy, Reading, JInv, TypeOK
  <2>2. \A j \in T : j[2] = kind
    <3> SUFFICES ASSUME NEW j \in Missing(kind) PROVE j[2] = kind
      OBVIOUS
    <3>1. PICK m : j = <<m, kind>>
      BY DEF Missing
    <3> QED BY <3>1
  <2>3. T \in SUBSET JobsOf(q) /\ T \subseteq Jobs
    BY <2>2, JobsAre
  <2>4. \A j \in Jobs : status'[j] = IF j \in T THEN "pending" ELSE status[j]
    BY <1>1 DEF Backfill
  <2>5. \A j \in T : Proper(j)
    BY <2>2, MissingAre DEF Unmade, Proper
  <2>6. /\ UNCHANGED <<messageVars, handlerVars, outputs, gaps, batch, job, row>>
        /\ \A r \in Queues \ {q} : at'[r] = at[r]
    BY <1>1 DEF Backfill, JInv, TypeOK
  <2>7. BatchOK(q)'
    BY <2>1, <2>6 DEF BatchOK, JInv, WorkersOK
  <2> HIDE DEF T
  <2> QED BY <2>1, <2>3, <2>4, <2>5, <2>6, <2>7, Idles
<1>2. CASE BackfillNotifications
  BY <1>1, <1>2, MessagesAssumption DEF BackfillNotifications, KindsOf
<1>3. CASE BackfillEntityLinks
  BY <1>1, <1>3, MessagesAssumption DEF BackfillEntityLinks, KindsOf
<1>4. CASE enqueueMissingEmbeddingJobs
  BY <1>1, <1>4, MessagesAssumption DEF enqueueMissingEmbeddingJobs, KindsOf
<1> QED BY <1>2, <1>3, <1>4 DEF Reconcile

\* A tick that fails before its claim touches nothing.
LEMMA TickFailsKeeps ==
    ASSUME JInv, EInv', TypeOK', NEW q \in Queues, TickFails(q) PROVE JInv'
<1>1. at[q] \notin Busy /\ at'[q] \notin Reading /\ at'[q] \notin Busy
  BY DEF TickFails, Busy, Reading, JInv, TypeOK
<1>2. /\ UNCHANGED <<messageVars, handlerVars, outputs, gaps, batch, job, row, status>>
      /\ \A r \in Queues \ {q} : at'[r] = at[r]
  BY DEF TickFails, JInv, TypeOK, queueVars
<1>3. BatchOK(q)'
  BY <1>1, <1>2 DEF BatchOK, JInv, WorkersOK
<1>4. {} \in SUBSET JobsOf(q)
  OBVIOUS
<1> QED BY <1>1, <1>2, <1>3, <1>4, Idles

\* What is claimed becomes the batch.
LEMMA ClaimKeeps ==
    ASSUME JInv, EInv', TypeOK', NEW q \in Queues, claimBatch(q) PROVE JInv'
<1>1. PICK S \in Claims(q) :
         /\ status' = [j \in Jobs |-> IF j \in S THEN "processing" ELSE status[j]]
         /\ StartJob(q, S)
  BY DEF claimBatch
<1>2. S \in SUBSET JobsOf(q) /\ S \subseteq Jobs /\ \A j \in S : Proper(j)
  BY JobsAre DEF Claims, Pending, JInv, StatusOK
<1>3. /\ batch'[q] = S
      /\ S = {} => job'[q] = NoJob /\ at'[q] = "idle"
      /\ S # {} => job'[q] \in S /\ at'[q] = "load"
      /\ \A r \in Queues \ {q} : /\ at'[r] = at[r] /\ batch'[r] = batch[r]
                                 /\ job'[r] = job[r] /\ row'[r] = row[r]
  BY <1>1 DEF JInv, TypeOK, StartJob
<1>4. \A j \in Jobs : status'[j] = IF j \in S THEN "processing" ELSE status[j]
  BY <1>1
<1>5. at[q] \notin Busy /\ at'[q] \notin Reading
  BY <1>3 DEF claimBatch, Busy, Reading
<1>6. UNCHANGED <<messageVars, handlerVars, outputs, gaps>>
  BY DEF claimBatch
<1>7. \A j \in S : Proper(j)'
  BY <1>2, <1>6 DEF Proper, messageVars
<1>8. BatchOK(q)'
  BY <1>2, <1>3, <1>4, <1>7 DEF BatchOK, Busy
<1> QED BY <1>2, <1>3, <1>4, <1>5, <1>6, <1>8, Idles

\* The content a job works on is the latest when it is read.
LEMMA LoadKeeps ==
    ASSUME JInv, EInv', TypeOK', NEW q \in Queues, loadMessageContext(q) PROVE JInv'
<1> USE DEF loadMessageContext
<1>1. at[q] \in Busy /\ BatchOK(q) /\ job[q] \in batch[q] /\ job[q] \in Jobs
  BY OneQueueEach DEF Busy, JInv, WorkersOK
<1>2. status[job[q]] = "processing" /\ Proper(job[q])
  BY <1>1 DEF BatchOK
<1>3. /\ row'[q] = content[job[q][1]] /\ at'[q] = "work"
      /\ \A r \in Queues \ {q} : row'[r] = row[r]
      /\ UNCHANGED <<content, messageVars, handlerVars, batch, job, stranded, status, outputs>>
  BY DEF JInv, TypeOK, messageVars, queueVars
<1>4. RowOK(q)'
  BY <1>2, <1>3 DEF RowOK, Proper
<1>5. UpToDate(q)'
  BY <1>3 DEF UpToDate
<1>6. Cared(job[q])' /\ ChaseOK(q)'
  BY <1>1, <1>2, <1>3, <1>5 DEF Cared, Owed, InGoodHands, ChaseOK
<1>7. PushesOK'
  BY <1>3, SamePushes
<1>8. \A j \in Jobs : OutputOf(j)' = OutputOf(j)
  BY <1>3, OutputIs DEF outputs
<1>9. "work" \in Busy /\ at' = [at EXCEPT ![q] = "work"]
  BY DEF Busy
<1>10. \A j \in Jobs \ {job[q]} : j \in dropped \cup overtaken => j \in dropped' \cup overtaken'
  OBVIOUS
<1> QED BY <1>1, <1>2, <1>3, <1>4, <1>6, <1>7, <1>8, <1>9, <1>10, JobGoesOn

\* A mention is pushed once: by the statement that files it for the user.
LEMMA NotifyKeeps ==
    ASSUME JInv, EInv', TypeOK', NEW q \in Queues, processNotificationJob(q) PROVE JInv'
<1> USE DEF processNotificationJob, Working
<1>1. at[q] \in Reading /\ at[q] \in Busy /\ BatchOK(q) /\ job[q] \in batch[q] /\ job[q] \in Jobs
  BY OneQueueEach DEF Busy, Reading, JInv, WorkersOK
<1>2. status[job[q]] = "processing" /\ RowOK(q) /\ ChaseOK(q) /\ job[q][1] \in Messages
  BY <1>1, JobsAre DEF BatchOK, JInv, WorkersOK
<1>3. /\ at'[q] = "done"
      /\ notified'[job[q][1]] = notified[job[q][1]] \cup Mentioned(q)
      /\ \A m \in Messages : m # job[q][1] => notified'[m] = notified[m] /\ pushed'[m] = pushed[m]
      /\ pushed'[job[q][1]] = [u \in Users |-> pushed[job[q][1]][u] + IF u \in New(q) THEN 1 ELSE 0]
      /\ UNCHANGED <<content, messageVars, handlerVars, batch, job, row, stranded, dropped,
                     overtaken, status, links, vector>>
  BY <1>2 DEF JInv, TypeOK, messageVars, queueVars, gaps
<1>4. RowOK(q)'
  BY <1>2, <1>3 DEF RowOK, Mentioned, Reading
<1>5. ChaseOK(q)'
  BY <1>1, <1>2, <1>3 DEF ChaseOK, Followed, UpToDate, ToDo, handlerVars
<1>6. Cared(job[q])'
  BY <1>1, <1>2, <1>3, <1>5 DEF Cared, Owed, InGoodHands, ChaseOK, Reading
<1>7. PushesOK'
  <2> SUFFICES ASSUME NEW m \in Messages, NEW u \in Users
               PROVE  pushed'[m][u] <= 1 /\ (pushed'[m][u] = 1 => u \in notified'[m])
    BY DEF PushesOK
  <2>1. pushed[m][u] <= 1 /\ (pushed[m][u] = 1 => u \in notified[m]) /\ pushed[m][u] \in Nat
    BY DEF JInv, PushesOK, TypeOK
  <2>2. CASE m # job[q][1]
    BY <1>3, <2>1, <2>2
  <2>3. CASE m = job[q][1]
    BY <1>3, <2>1, <2>3 DEF New
  <2> QED BY <2>2, <2>3
<1>8. \A j \in Jobs : j # job[q] => OutputOf(j)' = OutputOf(j)
  <2>0. links' = links /\ vector' = vector
    BY <1>3
  <2> SUFFICES ASSUME NEW j \in Jobs, j[2] = "NOTIFICATION", j # job[q] PROVE notified'[j[1]] = notified[j[1]]
    BY <2>0, OutputIs, ZenonT(40)
  <2>1. j = <<j[1], "NOTIFICATION">> /\ job[q] = <<job[q][1], "NOTIFICATION">> /\ j[1] \in Messages
    BY <1>1, JobsAre
  <2> QED BY <1>3, <2>1
<1>9. "done" \in Busy /\ at' = [at EXCEPT ![q] = "done"] /\ status'[job[q]] = "processing"
  BY <1>2, <1>3 DEF Busy
<1> QED BY <1>1, <1>3, <1>4, <1>5, <1>6, <1>7, <1>8, <1>9, JobGoesOn

\* One of the statements that bring a message's links in line with the content read.
LEMMA LinksKeep ==
    ASSUME JInv, EInv', TypeOK', NEW q \in Queues, at[q] \in {"work", "link"},
           job[q][2] = "ENTITY_LINK", NEW L,
           links' = [links EXCEPT ![job[q][1]] = L],
           NEW to \in {"link", "done"}, at' = [at EXCEPT ![q] = to],
           to = "link" => L \subseteq Named(q), to = "done" => L = Named(q),
           UNCHANGED <<messageVars, handlerVars, queueVars, batch, job, row, notified, vector,
                       pushed, gaps>>
    PROVE  JInv'
<1>1. at[q] \in Reading /\ at[q] \in Busy /\ BatchOK(q) /\ job[q] \in batch[q] /\ job[q] \in Jobs
  BY OneQueueEach DEF Busy, Reading, JInv, WorkersOK
<1>2. /\ status[job[q]] = "processing" /\ RowOK(q) /\ ChaseOK(q) /\ job[q][1] \in Messages
      /\ row[q] # NoContent
  BY <1>1, JobsAre DEF BatchOK, RowOK, JInv, WorkersOK
<1>3. /\ at'[q] = to /\ links'[job[q][1]] = L
      /\ \A m \in Messages : m # job[q][1] => links'[m] = links[m]
      /\ UNCHANGED <<content, messageVars, handlerVars, batch, job, row, stranded, dropped,
                     overtaken, status, notified, vector, pushed>>
  BY <1>2 DEF JInv, TypeOK, messageVars, queueVars, gaps
<1>4. RowOK(q)'
  BY <1>2, <1>3 DEF RowOK, Named, Reading
<1>5. ChaseOK(q)'
  BY <1>1, <1>2, <1>3 DEF ChaseOK, Followed, UpToDate, ToDo, handlerVars
<1>6. Cared(job[q])'
  BY <1>1, <1>2, <1>3, <1>5 DEF Cared, Owed, InGoodHands, ChaseOK, Reading
<1>7. PushesOK'
  BY <1>3 DEF JInv, PushesOK
<1>8. \A j \in Jobs : j # job[q] => OutputOf(j)' = OutputOf(j)
  <2> SUFFICES ASSUME NEW j \in Jobs, j[2] = "ENTITY_LINK", j # job[q] PROVE links'[j[1]] = links[j[1]]
    BY <1>3, OutputIs
  <2>1. j = <<j[1], "ENTITY_LINK">> /\ job[q] = <<job[q][1], "ENTITY_LINK">> /\ j[1] \in Messages
    BY <1>1, JobsAre
  <2> QED BY <1>3, <2>1
<1>9. to \in Busy /\ status'[job[q]] = "processing"
  BY <1>2, <1>3 DEF Busy
<1> QED BY <1>1, <1>3, <1>4, <1>5, <1>6, <1>7, <1>8, <1>9, JobGoesOn

\* What the text no longer names is unlinked.
LEMMA UnlinkKeeps == ASSUME JInv, EInv', TypeOK', NEW q \in Queues, UnlinkEntities(q) PROVE JInv'
<1> DEFINE L == links[job[q][1]] \cap Named(q)
           to == IF Named(q) = {} THEN "done" ELSE "link"
<1>1. /\ at[q] \in {"work", "link"} /\ job[q][2] = "ENTITY_LINK"
      /\ links' = [links EXCEPT ![job[q][1]] = L]
      /\ to \in {"link", "done"} /\ at' = [at EXCEPT ![q] = to]
      /\ to = "link" => L \subseteq Named(q)
      /\ to = "done" => L = Named(q)
      /\ UNCHANGED <<messageVars, handlerVars, queueVars, batch, job, row, notified, vector,
                     pushed, gaps>>
  BY DEF UnlinkEntities, Working
<1> HIDE DEF L, to
<1> QED BY <1>1, LinksKeep

\* What it names is linked.
LEMMA LinkKeeps == ASSUME JInv, EInv', TypeOK', NEW q \in Queues, LinkEntities(q) PROVE JInv'
<1> DEFINE L == links[job[q][1]] \cup Named(q)
<1>1. RowOK(q)
  BY DEF JInv, WorkersOK
<1>2. /\ at[q] \in {"work", "link"} /\ job[q][2] = "ENTITY_LINK"
      /\ links' = [links EXCEPT ![job[q][1]] = L]
      /\ at' = [at EXCEPT ![q] = "done"]
      /\ L = Named(q)
      /\ UNCHANGED <<messageVars, handlerVars, queueVars, batch, job, row, notified, vector,
                     pushed, gaps>>
  BY <1>1 DEF LinkEntities, RowOK
<1> HIDE DEF L
<1>3. "done" \in {"link", "done"} /\ "done" # "link"
  OBVIOUS
<1> QED BY <1>2, <1>3, LinksKeep

\* What a finished job leaves: if its output does not fit the latest content, the
\* content was overtaken, and an enqueue follows.
LEMMA Finished ==
    ASSUME JInv, NEW q \in Queues, at[q] \in Reading, NEW last, last = job[q],
           UNCHANGED <<content, handlerVars, gaps>>,
           \/ /\ last[2] = "EMBEDDING" /\ vector'[last[1]] = row[q]
           \/ /\ at[q] = "done" /\ UNCHANGED <<notified, links>>
    PROVE  /\ Stale(last)' => Cared(last)'
           /\ at[q] = "done" => last[2] # "EMBEDDING"
<1>1. RowOK(q) /\ ChaseOK(q) /\ last \in Jobs
  BY OneQueueEach DEF JInv, WorkersOK, Busy, Reading
<1>2. UpToDate(q) \/ Cared(last)'
  <2>1. UpToDate(q) \/ Followed(last)
    BY <1>1 DEF ChaseOK
  <2>2. Followed(last) => Followed(last)'
    BY DEF Followed, ToDo, handlerVars, gaps
  <2> QED BY <2>1, <2>2 DEF Cared
<1>3. UpToDate(q) => ~Stale(last)'
  BY <1>1 DEF UpToDate, Stale, RowOK, Mentioned, Named
<1>4. at[q] = "done" => last[2] # "EMBEDDING"
  BY <1>1 DEF RowOK
<1> QED BY <1>2, <1>3, <1>4

\* Only the output of the job at hand changes.
LEMMA OnlyItsVector ==
    ASSUME JInv, TypeOK', NEW q \in Queues, job[q] \in Jobs, job[q][2] = "EMBEDDING", NEW v,
           vector' = [vector EXCEPT ![job[q][1]] = v], UNCHANGED <<notified, links>>
    PROVE  \A j \in Jobs : j # job[q] => OutputOf(j)' = OutputOf(j)
<1> SUFFICES ASSUME NEW j \in Jobs, j[2] = "EMBEDDING", j # job[q] PROVE vector'[j[1]] = vector[j[1]]
  BY OutputIs
<1>1. j = <<j[1], "EMBEDDING">> /\ job[q] = <<job[q][1], "EMBEDDING">> /\ j[1] \in Messages
  BY JobsAre
<1> QED BY <1>1 DEF JInv, TypeOK

\* The vector stored is that of the content read.
LEMMA StoreKeeps == ASSUME JInv, EInv', TypeOK', NEW q \in Queues, StoreEmbedding(q) PROVE JInv'
<1> USE DEF StoreEmbedding, Working
<1>1. PICK last : last = job[q]
  OBVIOUS
<1>2. at[q] \in Reading /\ at[q] \in Busy /\ last \in Jobs /\ last \in batch[q] /\ last[1] \in Messages
  BY <1>1, OneQueueEach, JobsAre DEF Busy, Reading
<1>3. /\ vector'[last[1]] = row[q] /\ status'[last] = "none"
      /\ \A j \in Jobs : j # job[q] => status'[j] = status[j]
      /\ \A j \in Jobs : j # job[q] => OutputOf(j)' = OutputOf(j)
  <2>1. \A j \in Jobs : j # job[q] => OutputOf(j)' = OutputOf(j)
    BY <1>1, <1>2, OnlyItsVector
  <2> QED BY <1>1, <1>2, <2>1 DEF JInv, TypeOK
<1>4. Stale(last)' => Cared(last)'
  BY <1>1, <1>2, <1>3, Finished DEF messageVars
<1>5. \A j \in batch[q] \ (batch[q] \ {job[q]}) : status'[j] = "processing" => j \in stranded'
  BY <1>1, <1>3
<1>6. StartJob(q, batch[q] \ {job[q]}) /\ batch[q] \ {job[q]} \in SUBSET (batch[q] \ {job[q]})
  BY DEF NextJob
<1>7. /\ UNCHANGED <<messageVars, handlerVars, notified, links, pushed, dropped, overtaken>>
      /\ stranded \subseteq stranded'
  BY DEF gaps
<1> QED BY <1>1, <1>2, <1>3, <1>4, <1>5, <1>6, <1>7, JobLeaves

\* A completed job has done what the content read asks for.
LEMMA CompleteKeeps == ASSUME JInv, EInv', TypeOK', NEW q \in Queues, Complete(q) PROVE JInv'
<1> USE DEF Complete
<1>1. PICK last : last = job[q]
  OBVIOUS
<1>2. at[q] \in Reading /\ at[q] \in Busy /\ last \in Jobs /\ last \in batch[q]
  BY <1>1, OneQueueEach, JobsAre DEF Busy, Reading
<1>3. /\ status'[last] = "completed"
      /\ \A j \in Jobs : j # job[q] => status'[j] = status[j]
      /\ \A j \in Jobs : j # job[q] => OutputOf(j)' = OutputOf(j)
  <2>1. \A j \in Jobs : j # job[q] => OutputOf(j)' = OutputOf(j)
    BY OutputIs DEF outputs
  <2> QED BY <1>1, <1>2, <2>1 DEF JInv, TypeOK
<1>4. (Stale(last)' => Cared(last)') /\ last[2] # "EMBEDDING"
  BY <1>1, <1>2, <1>3, Finished DEF messageVars, outputs
<1>5. \A j \in batch[q] \ (batch[q] \ {job[q]}) : status'[j] = "processing" => j \in stranded'
  BY <1>1, <1>3
<1>6. StartJob(q, batch[q] \ {job[q]}) /\ batch[q] \ {job[q]} \in SUBSET (batch[q] \ {job[q]})
  BY DEF NextJob
<1>7. /\ UNCHANGED <<messageVars, handlerVars, notified, links, pushed, dropped, overtaken>>
      /\ stranded \subseteq stranded'
  BY DEF gaps, outputs
<1> QED BY <1>1, <1>2, <1>3, <1>4, <1>5, <1>6, <1>7, JobLeaves

\* A job that fails stays in hand until its row is rescheduled.
LEMMA JobFailsKeeps == ASSUME JInv, EInv', TypeOK', NEW q \in Queues, JobFails(q) PROVE JInv'
<1>1. PICK last : last = job[q]
  OBVIOUS
<1>2. /\ at[q] \in Reading /\ at[q] \in Busy /\ last \in Jobs /\ last \in batch[q] /\ last[1] \in Messages
      /\ status[last] = "processing"
  <2>1. at[q] \in Reading /\ at[q] \in Busy
    BY DEF JobFails, Busy, Reading
  <2> QED BY <1>1, <2>1, OneQueueEach, JobsAre DEF Reading, JInv, WorkersOK, BatchOK
<1>3. /\ UNCHANGED <<messageVars, handlerVars, batch, job, stranded, row, links, pushed, gaps, content>>
      /\ at' = [at EXCEPT ![q] = "catch"] /\ at'[q] = "catch" /\ "catch" \in Busy
      /\ dropped' = dropped /\ overtaken' = overtaken
  BY DEF JobFails, gaps, Busy, messageVars, JInv, TypeOK
<1>4. RowOK(q)' /\ ChaseOK(q)'
  BY <1>3 DEF RowOK, ChaseOK, Reading
<1>5. status'[last] = "processing" => Cared(last)'
  BY <1>1, <1>2, <1>3 DEF Cared, Owed, InGoodHands
<1>6. PushesOK' /\ \A m \in Messages : notified[m] \subseteq notified'[m]
  <2>1. \A m \in Messages : notified[m] \subseteq notified'[m]
    <3>1. \/ notified' = notified
          \/ notified' = [notified EXCEPT ![last[1]] = @ \cup Mentioned(q)]
      BY <1>1 DEF JobFails
    <3> QED BY <1>2, <3>1, ZenonT(40) DEF JInv, TypeOK
  <2> QED BY <1>3, <2>1 DEF JInv, PushesOK
<1>7. /\ \A j \in Jobs : j # last => status'[j] = status[j] /\ OutputOf(j)' = OutputOf(j)
      /\ status'[last] = "completed" => last[2] # "EMBEDDING"
      /\ Stale(last)' => Cared(last)'
  <2>1. CASE UNCHANGED <<status, notified, vector>>
    <3>1. \A j \in Jobs : OutputOf(j)' = OutputOf(j)
      BY <1>3, <2>1, OutputIs
    <3> QED BY <1>2, <1>5, <2>1, <3>1
  <2>2. CASE /\ Working(q, "NOTIFICATION")
             /\ notified' = [notified EXCEPT ![job[q][1]] = @ \cup Mentioned(q)]
             /\ UNCHANGED <<status, vector>>
    <3>1. last = <<last[1], "NOTIFICATION">>
      BY <1>1, <1>2, <2>2, JobsAre DEF Working
    <3>2. \A m \in Messages : m # last[1] => notified'[m] = notified[m]
      BY <1>1, <2>2 DEF JInv, TypeOK
    <3>3. \A j \in Jobs : j # last => OutputOf(j)' = OutputOf(j)
      <4> SUFFICES ASSUME NEW j \in Jobs, j[2] = "NOTIFICATION", j # last
                   PROVE  notified'[j[1]] = notified[j[1]]
        BY <1>3, <2>2, OutputIs
      <4>1. j = <<j[1], "NOTIFICATION">> /\ j[1] \in Messages
        BY JobsAre
      <4> QED BY <3>1, <3>2, <4>1
    <3> QED BY <1>2, <1>5, <2>2, <3>3
  <2>3. CASE /\ Working(q, "EMBEDDING")
             /\ vector' = [vector EXCEPT ![job[q][1]] = row[q]]
             /\ status' = [status EXCEPT ![job[q]] = "none"]
             /\ UNCHANGED notified
    <3>1. last[2] = "EMBEDDING" /\ vector'[last[1]] = row[q] /\ status'[last] = "none"
      BY <1>1, <1>2, <2>3 DEF Working, JInv, TypeOK
    <3>2. \A j \in Jobs : j # last => OutputOf(j)' = OutputOf(j)
      BY <1>1, <1>2, <1>3, <2>3, <3>1, OnlyItsVector
    <3>3. Stale(last)' => Cared(last)'
      BY <1>1, <1>2, <1>3, <3>1, Finished
    <3>4. \A j \in Jobs : j # last => status'[j] = status[j]
      BY <1>1, <2>3 DEF JInv, TypeOK
    <3> QED BY <3>1, <3>2, <3>3, <3>4
  <2>4. CASE /\ at[q] = "done"
             /\ status' = [status EXCEPT ![job[q]] = "completed"]
             /\ UNCHANGED <<notified, vector>>
    <3>1. \A j \in Jobs : OutputOf(j)' = OutputOf(j)
      BY <1>3, <2>4, OutputIs
    <3>2. (Stale(last)' => Cared(last)') /\ last[2] # "EMBEDDING"
      BY <1>1, <1>2, <1>3, <2>4, Finished
    <3>3. \A j \in Jobs : j # last => status'[j] = status[j]
      BY <1>1, <2>4 DEF JInv, TypeOK
    <3> QED BY <3>1, <3>2, <3>3
  <2> QED BY <2>1, <2>2, <2>3, <2>4 DEF JobFails
<1>8. \A r \in Queues \ {q} : row'[r] = row[r]
  BY <1>3
<1>9. job'[q] = last
  BY <1>1, <1>3
<1> QED BY <1>1, <1>2, <1>3, <1>4, <1>6, <1>7, <1>8, <1>9, JobGoesOn

\* What rescheduling does to a row, when it takes effect and when it does not.
LEMMA Rescheduled ==
    ASSUME JInv, TypeOK', NEW q \in Queues, at[q] = "catch", NEW last, last = job[q],
           Reschedule(last) \/ UNCHANGED queueVars,
           UNCHANGED <<messageVars, handlerVars, outputs, dropped, overtaken>>,
           stranded \subseteq stranded', status'[last] = "processing" => last \in stranded'
    PROVE  /\ \A j \in Jobs : j # last => status'[j] = status[j]
           /\ status'[last] = "completed" => last[2] # "EMBEDDING"
           /\ Stale(last)' => Cared(last)'
<1>1. last \in Jobs
  BY OneQueueEach DEF Busy
<1>2. CASE Reschedule(last) /\ status[last] # "none"
  <2>1. status' = [status EXCEPT ![last] = NextStatus(attempts[last] + 1)]
    BY <1>2 DEF Reschedule
  <2>2. NextStatus(attempts[last] + 1) \in {"failed", "pending"}
    BY DEF NextStatus
  <2>3. status'[last] \in {"failed", "pending"} /\ \A j \in Jobs : j # last => status'[j] = status[j]
    BY <1>1, <2>1, <2>2 DEF JInv, TypeOK
  <2> QED BY <2>3 DEF Cared, Owed
<1>3. CASE status' = status
  <2>1. status'[last] = "completed" => last[2] # "EMBEDDING"
    BY <1>1, <1>3 DEF JInv, StatusOK
  <2>2. ASSUME Stale(last)' PROVE Cared(last)'
    <3>1. CASE status[last] = "processing"
      BY <1>3, <3>1 DEF Cared, Followed
    <3>2. CASE status[last] # "processing"
      <4>1. Stale(last)
        BY <2>2 DEF Stale, messageVars, outputs
      <4>2. Owed(last) \/ Followed(last)
        BY <1>1, <4>1 DEF JInv, StaleIsOwed, Followed
      <4>3. Followed(last) => Followed(last)'
        BY DEF Followed, ToDo, handlerVars
      <4>4. last \in Missing(last[2]) => (last \in Missing(last[2]))'
        BY <1>1, <1>3, MissingAre DEF Unmade, messageVars, outputs
      <4>5. \A h : ToDo(h)' = ToDo(h)
        BY DEF ToDo, handlerVars
      <4> QED BY <1>3, <3>2, <4>2, <4>3, <4>4, <4>5 DEF Cared, Owed
    <3> QED BY <3>1, <3>2
  <2> QED BY <1>3, <2>1, <2>2
<1>4. Reschedule(last) /\ status[last] = "none" => status' = status
  BY DEF Reschedule, queueVars
<1>5. UNCHANGED queueVars => status' = status
  BY DEF queueVars
<1> QED BY <1>2, <1>3, <1>4, <1>5

\* A job that failed is pending again, or failed for good.
LEMMA RetryKeeps == ASSUME JInv, EInv', TypeOK', NEW q \in Queues, RetryLater(q) PROVE JInv'
<1> USE DEF RetryLater
<1>1. PICK last : last = job[q]
  OBVIOUS
<1>2. at[q] \in Busy /\ last \in Jobs /\ last \in batch[q] /\ BatchOK(q)
  BY <1>1, OneQueueEach DEF Busy, JInv, WorkersOK
<1>4. status'[last] # "processing"
  <2>1. status[last] = "none" => status' = status
    BY <1>1 DEF Reschedule, queueVars
  <2>2. status[last] # "none" => status'[last] \in {"failed", "pending"}
    <3>1. NextStatus(attempts[last] + 1) \in {"failed", "pending"}
      BY DEF NextStatus
    <3> QED BY <1>1, <1>2, <3>1 DEF Reschedule, JInv, TypeOK
  <2> QED BY <2>1, <2>2
<1>5. UNCHANGED <<messageVars, handlerVars, outputs, dropped, overtaken, stranded, notified, links, pushed>>
  BY DEF gaps, outputs
<1>6. /\ \A j \in Jobs : j # last => status'[j] = status[j]
      /\ status'[last] = "completed" => last[2] # "EMBEDDING"
      /\ Stale(last)' => Cared(last)'
  BY <1>1, <1>4, <1>5, Rescheduled
<1>7. \A j \in Jobs : OutputOf(j)' = OutputOf(j)
  BY <1>5, OutputIs DEF outputs
<1>8. \A j \in batch[q] \ (batch[q] \ {job[q]}) : status'[j] = "processing" => j \in stranded'
  BY <1>1, <1>4
<1>9. StartJob(q, batch[q] \ {job[q]}) /\ batch[q] \ {job[q]} \in SUBSET (batch[q] \ {job[q]})
  BY DEF NextJob
<1>10. stranded \subseteq stranded'
  BY <1>5
<1> QED BY <1>1, <1>2, <1>5, <1>6, <1>7, <1>8, <1>9, <1>10, JobLeaves

\* The context is not read: the whole batch is left processing.
LEMMA LoadFailsKeeps == ASSUME JInv, EInv', TypeOK', NEW q \in Queues, LoadFails(q) PROVE JInv'
<1> USE DEF LoadFails, Abandon
<1>1. PICK last : last = job[q]
  OBVIOUS
<1>2. at[q] \in Busy /\ last \in Jobs /\ last \in batch[q] /\ status[last] = "processing"
  BY <1>1, OneQueueEach DEF Busy, JInv, WorkersOK, BatchOK
<1>3. /\ UNCHANGED <<messageVars, handlerVars, outputs, dropped, overtaken, status, notified, links, pushed>>
      /\ stranded' = stranded \cup {j \in batch[q] : status'[j] = "processing"}
  BY DEF outputs, queueVars
<1>4. \A j \in Jobs : OutputOf(j)' = OutputOf(j)
  BY <1>3, OutputIs DEF outputs
<1>5. Cared(last)' /\ status'[last] # "completed"
  BY <1>2, <1>3 DEF Cared, Followed
<1>6. StartJob(q, {}) /\ {} \in SUBSET (batch[q] \ {job[q]})
  OBVIOUS
<1>7. stranded \subseteq stranded' /\ \A j \in batch[q] \ {} : status'[j] = "processing" => j \in stranded'
  BY <1>3
<1> QED BY <1>1, <1>2, <1>3, <1>4, <1>5, <1>6, <1>7, JobLeaves

\* Rescheduling fails: what is still processing is left so.
LEMMA RetryFailsKeeps ==
    ASSUME JInv, EInv', TypeOK', NEW q \in Queues, RetryLaterFails(q) PROVE JInv'
<1> USE DEF RetryLaterFails, Abandon
<1>1. PICK last : last = job[q]
  OBVIOUS
<1>2. at[q] \in Busy /\ last \in Jobs /\ last \in batch[q]
  BY <1>1, OneQueueEach DEF Busy
<1>3. /\ UNCHANGED <<messageVars, handlerVars, outputs, dropped, overtaken, notified, links, pushed>>
      /\ stranded' = stranded \cup {j \in batch[q] : status'[j] = "processing"}
  BY DEF outputs
<1>4. \A j \in Jobs : OutputOf(j)' = OutputOf(j)
  BY <1>3, OutputIs DEF outputs
<1>5. stranded \subseteq stranded' /\ \A j \in batch[q] \ {} : status'[j] = "processing" => j \in stranded'
  BY <1>3
<1>6. /\ \A j \in Jobs : j # last => status'[j] = status[j]
      /\ status'[last] = "completed" => last[2] # "EMBEDDING"
      /\ Stale(last)' => Cared(last)'
  BY <1>1, <1>2, <1>3, <1>5, Rescheduled
<1>7. StartJob(q, {}) /\ {} \in SUBSET (batch[q] \ {job[q]})
  OBVIOUS
<1> QED BY <1>1, <1>2, <1>3, <1>4, <1>5, <1>6, <1>7, JobLeaves

\* Every step of a worker.
LEMMA WorkerKeeps ==
    ASSUME JInv, EInv', NEW q \in Queues, Worker(q) PROVE JInv'
BY WorkerTypes, TickFailsKeeps, ClaimKeeps, LoadKeeps, NotifyKeeps, UnlinkKeeps, LinkKeeps,
   StoreKeeps, CompleteKeeps, RetryKeeps, LoadFailsKeeps, JobFailsKeeps, RetryFailsKeeps
   DEF Worker, Process

------------------------------------------------------------------------------
(* The theorems.                                                               *)

\* A crash leaves every job that was under way, or still to be enqueued, behind.
LEMMA CrashKeeps == ASSUME JInv, EInv', TypeOK', Crash PROVE JInv'
<1> USE DEF Crash, RollBackAll, queueVars, outputs
<1>1. /\ \A h \in Handlers : pc'[h] = "idle" /\ tx'[h] = "none" /\ todo'[h] = <<>> /\ ToDo(h)' = {}
      /\ \A j : Proper(j)' <=> Proper(j)
  BY DEF ToDo, Proper
<1>2. HandlersOK'
  BY <1>1 DEF HandlersOK
<1>3. WorkersOK'
  BY DEF WorkersOK, BatchOK, RowOK, ChaseOK, Busy, Reading
<1>4. \A j \in Jobs, q \in Queues : j \in batch[q] /\ status[j] = "processing" => j \in stranded'
  OBVIOUS
<1>5. StatusOK'
  BY <1>1, <1>4 DEF JInv, StatusOK
<1>6. StaleIsOwed'
  <2> SUFFICES ASSUME NEW j \in Jobs, Stale(j)'
               PROVE  Owed(j)' \/ j \in dropped' \cup overtaken' \cup stranded'
    BY DEF StaleIsOwed
  <2>1. Stale(j)
    BY DEF Stale
  <2>2. Owed(j) \/ j \in dropped \cup overtaken \cup stranded
    BY <2>1 DEF JInv, StaleIsOwed
  <2>3. j \in Missing(j[2]) => (j \in Missing(j[2]))'
    BY MissingAre DEF Unmade
  <2>4. status[j] = "processing" /\ InGoodHands(j) => j \in stranded'
    BY <1>4 DEF InGoodHands
  <2>5. (\E h \in Handlers : j \in ToDo(h)) => j \in dropped'
    OBVIOUS
  <2> QED BY <2>2, <2>3, <2>4, <2>5 DEF Owed
<1> QED BY <1>2, <1>3, <1>5, <1>6, SamePushes DEF JInv

\* Nothing is sent, nothing is owed.
LEMMA JobsInit == Init => JInv
<1> SUFFICES ASSUME Init PROVE JInv
  OBVIOUS
<1> USE DEF Init
<1>1. EInv /\ MessagesTypeOK
  BY EditsInit DEF EInv
<1>2. TypeOK
  <2>1. <<>> \in Seq(Jobs)
    OBVIOUS
  <2> QED BY <1>1, <2>1, BoundsAssumption DEF TypeOK
<1>3. \A h \in Handlers : ToDo(h) = {} /\ tx[h] = "none"
  <2>1. \A h \in Handlers : todo[h] = <<>> /\ tx[h] = "none"
    BY DEF InitMessages
  <2>2. Items(<<>>) = {}
    BY DEF Items
  <2> QED BY <2>1, <2>2, ToDoIs
<1>4. HandlersOK
  BY <1>3 DEF HandlersOK
<1>5. WorkersOK /\ StatusOK /\ PushesOK
  BY DEF WorkersOK, BatchOK, RowOK, ChaseOK, StatusOK, PushesOK, Busy, Reading
<1>6. StaleIsOwed
  BY JobsAre DEF StaleIsOwed, Stale, InitMessages
<1> QED BY <1>1, <1>2, <1>4, <1>5, <1>6 DEF JInv

\* Every step keeps the invariant.
LEMMA JobsStep == ASSUME JInv, [Next]_vars PROVE JInv'
<1>1. CASE Next
  <2>1. EInv'
    BY <1>1, JobsAreEdits, EditsStep DEF JInv
  <2> QED BY <1>1, <2>1, TypeStep, ReconcileKeeps, CrashKeeps, HandlerKeeps, WorkerKeeps DEF Next
<1>2. CASE UNCHANGED vars
  <2> USE <1>2 DEF vars
  <2>1. EInv'
    BY EditsStep DEF JInv, messageVars
  <2>2. TypeOK'
    BY DEF JInv, TypeOK, MessagesTypeOK
  <2>3. \A h \in Handlers : ToDo(h)' = ToDo(h)
    BY DEF ToDo
  <2>4. \A j : Proper(j)' <=> Proper(j)
    BY DEF Proper
  <2>5. HandlersOK'
    BY <2>3, <2>4 DEF JInv, HandlersOK
  <2>6. WorkersOK'
    BY <2>3, <2>4 DEF JInv, WorkersOK, BatchOK, RowOK, ChaseOK, Followed, UpToDate, Mentioned, Named
  <2>7. StatusOK' /\ PushesOK'
    BY <2>4 DEF JInv, StatusOK, PushesOK
  <2>8. StaleIsOwed'
    <3>1. \A j \in Jobs : /\ Stale(j)' => Stale(j)
                          /\ j \in Missing(j[2]) => (j \in Missing(j[2]))'
      BY MissingAre DEF Stale, Unmade
    <3>2. \A j : InGoodHands(j) => InGoodHands(j)'
      BY DEF InGoodHands, UpToDate
    <3> QED BY <2>3, <3>1, <3>2 DEF JInv, StaleIsOwed, Owed
  <2> QED BY <2>1, <2>2, <2>5, <2>6, <2>7, <2>8 DEF JInv
<1> QED BY <1>1, <1>2

\* The inductive invariant holds in every reachable state.
THEOREM JobsInvariance == Spec => []JInv
BY JobsInit, JobsStep, PTL DEF Spec

\* The tables, the handlers' and the workers' state keep their types.
THEOREM JobsTypes == Spec => []TypeOK
<1>1. JInv => TypeOK
  BY DEF JInv
<1> QED BY <1>1, JobsInvariance, PTL

\* PushedOnce: whatever fails, is retried, replayed or backfilled, and however many
\* handlers edit at once, nobody is pushed a second `mention` frame for a message.
THEOREM MentionsArePushedOnce == Spec => []PushedOnce
<1>1. JInv => PushedOnce
  BY DEF JInv, PushesOK, PushedOnce
<1> QED BY <1>1, JobsInvariance, PTL

\* NoLostEdits, for the whole: with jobs, crashes and failures around them, an update
\* either files the content it replaces in message_edits or changes only a checkbox.
THEOREM JobsLoseNoEdits == Spec => NoLostEdits
BY JobsImplementEdits, EditsAreNotLost

\* StaleIsOwed: notifications, links and vectors that lag behind the text are those of
\* a job that is on its way, dead-lettered, or left behind by one of the named failures.
THEOREM LagIsOwed == Spec => []StaleIsOwed
<1>1. JInv => StaleIsOwed
  BY DEF JInv
<1> QED BY <1>1, JobsInvariance, PTL
==============================================================================
