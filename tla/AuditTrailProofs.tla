--------------------------- MODULE AuditTrailProofs ---------------------------
(***************************************************************************)
(* The audit chain never forks and its history only grows, verification    *)
(* tells the truth, and an event that was answered for left evidence and   *)
(* is recorded once: for any number of handlers, workers and auditors, any *)
(* batch and page sizes, and any pattern of failures and crashes.          *)
(***************************************************************************)
EXTENDS AuditTrail, TLAPS

Writing == {"begin", "locked", "read", "written", "error"}

(* TypeOK is not inductive: a row can only be written by an actor that has an *)
(* event, and a page starts within the log.                                   *)
TypeInv ==
    /\ TypeOK
    /\ \A a \in Actors : pc[a] \in Writing => event[a] \in Events
    /\ \A a \in Actors : pc[a] = "verifying" => a \in Auditors
    /\ \A v \in Auditors : check[v].lastId <= Len(log)

LEMMA LastHashTyped == ASSUME TypeOK PROVE LastHash \in Hashes
<1>1. CASE log = <<>>
  BY <1>1 DEF LastHash, Hashes, GENESIS_HASH
<1>2. CASE log # <<>>
  <2>1. log \in Seq(Rows) /\ Len(log) \in 1 .. Len(log)
    BY <1>2 DEF TypeOK
  <2>2. log[Len(log)] \in Rows
    BY <2>1
  <2> QED BY <1>2, <2>2 DEF LastHash, Rows
<1> QED BY <1>1, <1>2

\* The end of a verification page lies within the log.
LEMMA PageEndTyped ==
    ASSUME TypeOK, NEW v \in Auditors, check[v].lastId <= Len(log)
    PROVE  /\ PageEnd(v) \in Nat
           /\ check[v].lastId \in Nat
           /\ check[v].lastId <= PageEnd(v)
           /\ PageEnd(v) <= Len(log)
<1>1. check[v].lastId \in Nat /\ Len(log) \in Nat
  BY DEF TypeOK
<1> QED BY <1>1, NumbersAssumption DEF PageEnd

LEMMA AdvanceTyped ==
    ASSUME TypeInv, NEW v \in Auditors, Advance(v, PageEnd(v))
    PROVE  /\ check' \in [Auditors -> [expected : Hashes, lastId : Nat, rowsChecked : Nat,
                                       verified : BOOLEAN, begunAt : Nat]]
           /\ \A u \in Auditors : check'[u].lastId <= Len(log)
<1> DEFINE end == PageEnd(v)
<1>1. /\ end \in Nat /\ check[v].lastId \in Nat /\ check[v].lastId <= end
      /\ end <= Len(log) /\ Len(log) \in Nat
  BY PageEndTyped DEF TypeInv, TypeOK
<1>2. end # check[v].lastId => log[end].curr_row_hash \in Hashes
  <2>1. ASSUME end # check[v].lastId PROVE log[end] \in Rows
    <3>1. log \in Seq(Rows) /\ end \in 1 .. Len(log)
      BY <1>1, <2>1 DEF TypeInv, TypeOK
    <3> QED BY <3>1
  <2> QED BY <2>1 DEF Rows
<1>3. end - check[v].lastId \in Nat
  BY <1>1
<1> HIDE DEF end
<1>4. check' = [check EXCEPT
                 ![v].expected = IF end = check[v].lastId THEN @ ELSE log[end].curr_row_hash,
                 ![v].lastId = end,
                 ![v].rowsChecked = @ + (end - check[v].lastId),
                 ![v].verified = PageVerifies(v)]
  BY DEF Advance, end
<1>5. PageVerifies(v) \in BOOLEAN
  BY DEF PageVerifies
<1>6. check[v] \in [expected : Hashes, lastId : Nat, rowsChecked : Nat,
                    verified : BOOLEAN, begunAt : Nat]
  BY DEF TypeInv, TypeOK
<1>7. check[v].rowsChecked + (end - check[v].lastId) \in Nat
  BY <1>3, <1>6
<1>8. (IF end = check[v].lastId THEN check[v].expected ELSE log[end].curr_row_hash) \in Hashes
  BY <1>2, <1>6
<1> QED BY <1>1, <1>4, <1>5, <1>6, <1>7, <1>8 DEF TypeInv, TypeOK

LEMMA NextJobTyped ==
    ASSUME TypeInv, NEW k \in Workers, NextJob(k)
    PROVE  /\ batch' \in [Workers -> SUBSET Events]
           /\ event' \in [Actors -> 0 .. MaxEvents]
           /\ pc' \in [Actors -> {"idle", "begin", "locked", "read", "written", "error", "verifying"}]
           /\ \A a \in Actors : pc'[a] \in Writing => event'[a] \in Events
           /\ \A a \in Actors : pc'[a] = "verifying" => a \in Auditors
<1>1. k \in Actors
  BY DEF Actors
<1>2. batch[k] \subseteq Events /\ Events \subseteq 0 .. MaxEvents
  BY NumbersAssumption DEF TypeInv, TypeOK, Events
<1>3. batch' \in [Workers -> SUBSET Events]
  BY <1>2 DEF NextJob, TypeInv, TypeOK
<1>4. CASE batch[k] \ {event[k]} = {}
  <2>1. event' = [event EXCEPT ![k] = 0] /\ pc' = [pc EXCEPT ![k] = "idle"]
    BY <1>4 DEF NextJob, Finish, Goto
  <2>2. 0 \in 0 .. MaxEvents
    BY NumbersAssumption
  <2> QED BY <1>1, <1>3, <2>1, <2>2 DEF TypeInv, TypeOK, Writing
<1>5. CASE batch[k] \ {event[k]} # {}
  <2>1. PICK e \in batch[k] : event' = [event EXCEPT ![k] = e]
    BY <1>5 DEF NextJob
  <2>2. pc' = [pc EXCEPT ![k] = "begin"]
    BY <1>5 DEF NextJob, Goto
  <2>3. e \in Events /\ e \in 0 .. MaxEvents
    BY <1>2
  <2> QED BY <1>1, <1>3, <2>1, <2>2, <2>3 DEF TypeInv, TypeOK, Writing
<1> QED BY <1>4, <1>5

LEMMA TypeStep == ASSUME TypeInv, [Next]_vars PROVE TypeInv'
<1> USE DEF trail, queueVars, ghosts, Goto
<1>0. Actors = Handlers \cup AiHandlers \cup Workers \cup Auditors
  BY DEF Actors
<1>e. Events \subseteq 0 .. MaxEvents /\ 0 \in 0 .. MaxEvents /\ GENESIS_HASH \in Hashes
  BY NumbersAssumption DEF Events, Hashes, GENESIS_HASH
<1>1. CASE Crash
  <2>1. NoCheck \in [expected : Hashes, lastId : Nat, rowsChecked : Nat,
                     verified : BOOLEAN, begunAt : Nat] /\ NoCheck.lastId = 0
    BY <1>e DEF NoCheck
  <2>2. lost' \subseteq Events
    <3> DEFINE cut == {event[a] : a \in {b \in AiHandlers : pc[b] # "idle"}}
    <3>1. \A a \in AiHandlers : pc[a] # "idle" => event[a] \in Events
      BY <1>0, RolesAssumption DEF TypeInv, TypeOK, Writing
    <3>2. cut \subseteq Events
      BY <3>1
    <3>3. lost \subseteq Events /\ lost' = lost \cup cut
      BY <1>1 DEF Crash, TypeInv, TypeOK
    <3> QED BY <3>2, <3>3
  <2>3. stranded' \subseteq Events
    BY <1>1 DEF Crash, TypeInv, TypeOK
  <2>4. Len(log) >= 0
    BY DEF TypeInv, TypeOK
  <2> QED BY <1>1, <1>e, <2>1, <2>2, <2>3, <2>4, NumbersAssumption DEF Crash, TypeInv, TypeOK, Writing
<1>2. ASSUME NEW a \in Actors, Transaction(a) PROVE TypeInv'
  <2>1. CASE Begin(a)
    <3>1. issued + 1 \in Events /\ issued + 1 \in 0 .. MaxEvents
      BY <2>1, NumbersAssumption DEF Begin, TypeInv, TypeOK, Events
    <3> QED BY <2>1, <3>1 DEF Begin, TypeInv, TypeOK, Writing
  <2>2. CASE Lock(a)
    BY <2>2 DEF Lock, TypeInv, TypeOK, Writing
  <2>3. CASE ReadLast(a)
    BY <2>3, LastHashTyped DEF ReadLast, TypeInv, TypeOK, Writing
  <2>4. ASSUME pc[a] = "read", Write(a)
        PROVE  /\ log' \in Seq(Rows) /\ Len(log') = Len(log) + 1
               /\ seen' \in [Actors -> Hashes] /\ lock' \subseteq Actors
    <3>1. event[a] \in Events /\ seen[a] \in Hashes
      BY <2>4 DEF TypeInv, TypeOK, Writing
    <3>2. Append(seen[a], event[a]) \in Hashes
      BY <3>1 DEF Hashes
    <3>3. Row(seen[a], event[a]) \in Rows
      BY <3>1, <3>2 DEF Row, Rows, computeRowHash
    <3> QED BY <2>4, <3>3, <1>e DEF Write, TypeInv, TypeOK
  <2>5. CASE Commit(a)
    BY <2>4, <2>5 DEF Commit, TypeInv, TypeOK, Writing
  <2>6. CASE CommitUnheard(a)
    BY <2>4, <2>6, NumbersAssumption DEF CommitUnheard, Fault, TypeInv, TypeOK, Writing
  <2>7. CASE Abort(a)
    BY <2>7, <1>e, NumbersAssumption, SMTT(30) DEF Abort, Fault, TypeInv, TypeOK, Writing
  <2> QED BY <1>2, <2>1, <2>2, <2>3, <2>5, <2>6, <2>7 DEF Transaction
<1>3. ASSUME NEW a \in Actors, Handler(a) PROVE TypeInv'
  <2>1. CASE Answer(a)
    BY <2>1, <1>e DEF Answer, Finish, TypeInv, TypeOK, Writing
  <2>2. CASE AnswerError(a)
    BY <2>2, <1>e DEF AnswerError, Finish, TypeInv, TypeOK, Writing
  <2>3. CASE enqueueAuditRetry(a)
    BY <2>3, <1>e DEF enqueueAuditRetry, Finish, TypeInv, TypeOK, Writing
  <2>4. CASE EnqueueFails(a)
    <3>1. event[a] \in Events
      BY <2>4 DEF EnqueueFails, TypeInv, Writing
    <3>2. outbox' \in [Events -> {"none", "pending", "processing", "failed"}]
      BY <2>4, <3>1 DEF EnqueueFails, TypeInv, TypeOK
    <3>3. lost' \subseteq Events /\ answered' \subseteq Events
      BY <2>4, <3>1 DEF EnqueueFails, TypeInv, TypeOK
    <3>4. faults' \in 0 .. MaxFaults
      BY <2>4, NumbersAssumption DEF EnqueueFails, Fault, TypeInv, TypeOK
    <3> QED BY <2>4, <3>2, <3>3, <3>4, <1>e DEF EnqueueFails, Finish, TypeInv, TypeOK, Writing
  <2> QED BY <1>3, <2>1, <2>2, <2>3, <2>4 DEF Handler
<1>4. ASSUME NEW k \in Workers, Worker(k) PROVE TypeInv'
  <2>0. k \in Actors
    BY <1>0
  <2>1. CASE claimBatch(k)
    <3>1. PICK S \in Claims : \E e \in S :
             /\ batch' = [batch EXCEPT ![k] = S]
             /\ event' = [event EXCEPT ![k] = e]
             /\ outbox' = [f \in Events |-> IF f \in S THEN "processing" ELSE outbox[f]]
      BY <2>1 DEF claimBatch
    <3>2. S \subseteq Events
      BY DEF Claims, Pending
    <3>3. PICK e \in S : event' = [event EXCEPT ![k] = e]
      BY <3>1
    <3>4. e \in Events /\ e \in 0 .. MaxEvents
      BY <3>2, <1>e
    <3>5. outbox' \in [Events -> {"none", "pending", "processing", "failed"}]
      BY <3>1 DEF TypeInv, TypeOK
    <3>6. batch' \in [Workers -> SUBSET Events]
      BY <3>1, <3>2 DEF TypeInv, TypeOK
    <3>7. /\ event' \in [Actors -> 0 .. MaxEvents]
          /\ \A a \in Actors : pc'[a] \in Writing => event'[a] \in Events
      BY <2>0, <2>1, <3>3, <3>4 DEF claimBatch, TypeInv, TypeOK, Writing
    <3> QED BY <2>0, <2>1, <3>5, <3>6, <3>7 DEF claimBatch, TypeInv, TypeOK
  <2>2. CASE ClaimUnheard(k)
    <3>1. PICK S \in Claims :
             /\ outbox' = [f \in Events |-> IF f \in S THEN "processing" ELSE outbox[f]]
             /\ stranded' = stranded \cup S
      BY <2>2 DEF ClaimUnheard
    <3>2. S \subseteq Events
      BY DEF Claims, Pending
    <3> QED BY <2>2, <3>1, <3>2, NumbersAssumption DEF ClaimUnheard, Fault, TypeInv, TypeOK
  <2>3. CASE EmptyTick(k)
    BY <2>3 DEF EmptyTick, vars, TypeInv, TypeOK
  <2>4. CASE DeleteRow(k)
    BY <2>4, NextJobTyped DEF DeleteRow, TypeInv, TypeOK
  <2>5. CASE DeleteFails(k)
    <3>1. event[k] \in Events
      BY <2>0, <2>5 DEF DeleteFails, TypeInv, Writing
    <3>2. outbox' \in [Events -> {"none", "pending", "processing", "failed"}]
      BY <2>5, <3>1 DEF DeleteFails, TypeInv, TypeOK
    <3>3. doubtful' \subseteq Events
      BY <2>5, <3>1 DEF DeleteFails, TypeInv, TypeOK
    <3>4. faults' \in 0 .. MaxFaults
      BY <2>5, NumbersAssumption DEF DeleteFails, Fault, TypeInv, TypeOK
    <3> QED BY <2>0, <2>5, <3>1, <3>2, <3>3, <3>4 DEF DeleteFails, TypeInv, TypeOK, Writing
  <2>6. ASSUME Reschedule(event[k]), pc[k] = "error"
        PROVE  /\ outbox' \in [Events -> {"none", "pending", "processing", "failed"}]
               /\ attempts' \in [Events -> Nat]
    <3>1. NextStatus(attempts[event[k]] + 1) \in {"pending", "failed"}
      BY DEF NextStatus
    <3> HIDE DEF NextStatus
    <3>2. CASE outbox[event[k]] = "none"
      BY <2>6, <3>2 DEF Reschedule, TypeInv, TypeOK
    <3>3. CASE outbox[event[k]] # "none"
      <4>1. outbox' = [outbox EXCEPT ![event[k]] = NextStatus(attempts[event[k]] + 1)]
        BY <2>6, <3>3 DEF Reschedule
      <4>2. attempts' = [attempts EXCEPT ![event[k]] = @ + 1]
        BY <2>6, <3>3 DEF Reschedule
      <4>3. event[k] \in Events
        BY <2>0, <2>6 DEF TypeInv, Writing
      <4>4. attempts[event[k]] + 1 \in Nat
        BY <4>3 DEF TypeInv, TypeOK
      <4>5. attempts' \in [Events -> Nat]
        BY <4>2, <4>3, <4>4 DEF TypeInv, TypeOK
      <4>6. outbox' \in [Events -> {"none", "pending", "processing", "failed"}]
        BY <3>1, <4>1, <4>3 DEF TypeInv, TypeOK
      <4> QED BY <4>5, <4>6
    <3> QED BY <3>2, <3>3
  <2>7. CASE RetryLater(k)
    BY <2>6, <2>7, NextJobTyped DEF RetryLater, TypeInv, TypeOK
  <2>8. CASE RetryLaterFails(k)
    <3>1. /\ outbox' \in [Events -> {"none", "pending", "processing", "failed"}]
          /\ attempts' \in [Events -> Nat]
      BY <2>6, <2>8 DEF RetryLaterFails, TypeInv, TypeOK
    <3>2. stranded' \subseteq Events
      BY <2>8 DEF RetryLaterFails, TypeInv, TypeOK
    <3>3. /\ pc' = [pc EXCEPT ![k] = "idle"] /\ event' = [event EXCEPT ![k] = 0]
          /\ batch' = [batch EXCEPT ![k] = {}] /\ faults' \in 0 .. MaxFaults
          /\ UNCHANGED <<log, lock, seen, check, issued, answered, lost, doubtful, crashes>>
      BY <2>8, NumbersAssumption DEF RetryLaterFails, Finish, Fault, TypeInv, TypeOK
    <3>4. TypeOK'
      BY <2>0, <3>1, <3>2, <3>3, <1>e DEF TypeInv, TypeOK
    <3>5. /\ \A a \in Actors : pc'[a] \in Writing => event'[a] \in Events
          /\ \A a \in Actors : pc'[a] = "verifying" => a \in Auditors
          /\ \A v \in Auditors : check'[v].lastId <= Len(log')
      BY <2>0, <3>3 DEF TypeInv, TypeOK, Writing
    <3> QED BY <3>4, <3>5 DEF TypeInv
  <2> QED BY <1>4, <2>1, <2>2, <2>3, <2>4, <2>5, <2>7, <2>8 DEF Worker
<1>5. ASSUME NEW v \in Auditors, Auditor(v) PROVE TypeInv'
  <2>0. v \in Actors
    BY <1>0
  <2>1. CASE StartVerify(v)
    <3>1. Len(log) \in Nat
      BY DEF TypeInv, TypeOK
    <3>2. [NoCheck EXCEPT !.begunAt = Len(log)] \in
             [expected : Hashes, lastId : Nat, rowsChecked : Nat, verified : BOOLEAN, begunAt : Nat]
          /\ [NoCheck EXCEPT !.begunAt = Len(log)].lastId = 0
      BY <1>e, <3>1 DEF NoCheck
    <3> QED BY <2>0, <2>1, <3>1, <3>2, SMTT(30) DEF StartVerify, TypeInv, TypeOK, Writing
  <2>2. CASE VerifyPage(v)
    BY <2>2, AdvanceTyped DEF VerifyPage, TypeInv, TypeOK
  <2>3. CASE VerifyLastPage(v)
    <3>1. issued + 1 \in Events /\ issued + 1 \in 0 .. MaxEvents
      BY <2>3, NumbersAssumption DEF VerifyLastPage, TypeInv, TypeOK, Events
    <3>2. Advance(v, PageEnd(v))
      BY <2>3 DEF VerifyLastPage
    <3> QED BY <2>0, <2>3, <3>1, <3>2, AdvanceTyped DEF VerifyLastPage, TypeInv, TypeOK, Writing
  <2>6. CASE VerifyAnswer(v)
    <3>1. NoCheck \in [expected : Hashes, lastId : Nat, rowsChecked : Nat,
                       verified : BOOLEAN, begunAt : Nat] /\ NoCheck.lastId = 0 /\ Len(log) >= 0
      BY <1>e DEF NoCheck, TypeInv, TypeOK
    <3> QED BY <2>0, <2>6, <3>1, <1>e DEF VerifyAnswer, Finish, TypeInv, TypeOK, Writing
  <2> QED BY <1>5, <2>1, <2>2, <2>3, <2>6 DEF Auditor
<1>6. CASE UNCHANGED vars
  BY <1>6 DEF vars, TypeInv, TypeOK
<1> QED BY <1>1, <1>2, <1>3, <1>4, <1>5, <1>6 DEF Next
LEMMA TypeInit == ASSUME Init PROVE TypeInv
<1>1. /\ 0 \in 0 .. MaxEvents /\ 0 \in 0 .. MaxFaults /\ 0 \in 0 .. MaxCrashes
      /\ GENESIS_HASH \in Hashes /\ log \in Seq(Rows) /\ Len(log) = 0
  BY NumbersAssumption DEF Init, GENESIS_HASH, Hashes
<1>2. NoCheck \in [expected : Hashes, lastId : Nat, rowsChecked : Nat,
                   verified : BOOLEAN, begunAt : Nat] /\ NoCheck.lastId = 0
  BY <1>1 DEF NoCheck
<1> QED BY <1>1, <1>2 DEF Init, TypeInv, TypeOK, Writing

\* The tables and the actors' local state keep their types, for all constants.
THEOREM TypeCorrect == Spec => []TypeOK
<1>1. Init => TypeInv
  BY TypeInit
<1>2. TypeInv /\ [Next]_vars => TypeInv'
  BY TypeStep
<1>3. TypeInv => TypeOK
  BY DEF TypeInv
<1> QED BY <1>1, <1>2, <1>3, PTL DEF Spec

-------------------------------------------------------------------------------
(* The chain.  Between its read and its commit a transaction knows the latest *)
(* hash because it alone holds the lock and only holders write.               *)

Holding == {"locked", "read"}

ChainInv ==
    /\ TypeInv
    /\ \A a \in Actors : a \in lock <=> pc[a] \in Holding
    /\ \A a, b \in lock : a = b
    /\ \A a \in Actors : pc[a] = "read" => seen[a] = LastHash
    /\ ChainIntact

\* A step that leaves the log, the lock and the holder alone keeps the chain.
LEMMA ChainQuiet ==
    ASSUME ChainInv, TypeInv', UNCHANGED <<log, lock, seen>>,
           \A a \in Actors : pc'[a] \in Holding <=> pc[a] \in Holding,
           \A a \in Actors : pc'[a] = "read" => pc[a] = "read"
    PROVE  ChainInv'
BY DEF ChainInv, ChainIntact, LastHash

\* Appending a row that continues the last one keeps the chain and makes that
\* row's hash the latest.
LEMMA WriteExtends ==
    ASSUME ChainInv, NEW a \in Actors, pc[a] = "read", Write(a)
    PROVE  /\ ChainIntact'
           /\ LastHash' = Append(LastHash, event[a])
           /\ event[a] \in Events
           /\ lock' = {}
<1>1. seen[a] = LastHash /\ event[a] \in Events /\ lock = {a}
  BY DEF ChainInv, TypeInv, Writing, Holding, TypeOK
<1>2. /\ log \in Seq(Rows) /\ Len(log) \in Nat
      /\ log' = Append(log, Row(LastHash, event[a]))
  BY <1>1 DEF Write, ChainInv, TypeInv, TypeOK
<1>3. /\ Len(log') = Len(log) + 1
      /\ log'[Len(log) + 1] = Row(LastHash, event[a])
      /\ \A i \in 1 .. Len(log) : log'[i] = log[i]
  BY <1>2
<1>4. LastHash' = Append(LastHash, event[a])
  <2>1. log' # <<>>
    BY <1>2, <1>3
  <2> QED BY <1>2, <1>3, <2>1, SMTT(30) DEF LastHash, Row, computeRowHash
<1>5. ASSUME NEW i \in 1 .. Len(log')
      PROVE  /\ log'[i].prev_row_hash = IF i = 1 THEN GENESIS_HASH ELSE log'[i - 1].curr_row_hash
             /\ log'[i].curr_row_hash = computeRowHash(log'[i].prev_row_hash, log'[i].event)
  <2>1. CASE i \in 1 .. Len(log)
    <3>1. log'[i] = log[i] /\ (i # 1 => i - 1 \in 1 .. Len(log))
      BY <1>2, <1>3, <2>1
    <3>2. i # 1 => log'[i - 1] = log[i - 1]
      BY <1>3, <3>1
    <3> QED BY <2>1, <3>1, <3>2 DEF ChainInv, ChainIntact
  <2>2. CASE i = Len(log) + 1
    <3>1. log'[i] = Row(LastHash, event[a])
      BY <1>3, <2>2
    <3>2. LastHash = IF i = 1 THEN GENESIS_HASH ELSE log'[i - 1].curr_row_hash
      <4>1. CASE i = 1
        <5>1. log = <<>> BY <1>2, <2>2, <4>1
        <5> QED BY <4>1, <5>1 DEF LastHash
      <4>2. CASE i # 1
        <5>1. log # <<>> /\ Len(log) \in 1 .. Len(log) /\ i - 1 = Len(log)
          BY <1>2, <2>2, <4>2
        <5>2. log'[i - 1] = log[Len(log)]
          BY <1>3, <5>1
        <5> QED BY <4>2, <5>1, <5>2 DEF LastHash
      <4> QED BY <4>1, <4>2
    <3> QED BY <3>1, <3>2 DEF Row, computeRowHash
  <2> QED BY <1>2, <1>3, <2>1, <2>2
<1>6. ChainIntact'
  BY <1>5 DEF ChainIntact
<1>7. lock' = {}
  BY <1>1 DEF Write
<1> QED BY <1>1, <1>4, <1>6, <1>7

LEMMA ChainStep == ASSUME ChainInv, [Next]_vars PROVE ChainInv'
<1>0. TypeInv' /\ TypeInv /\ TypeOK
  BY TypeStep DEF ChainInv, TypeInv
<1>a. Actors = Handlers \cup AiHandlers \cup Workers \cup Auditors
  BY DEF Actors
<1> USE DEF trail, Goto
<1>1. CASE Crash
  BY <1>0, <1>1 DEF Crash, ChainInv, ChainIntact, Holding
<1>2. ASSUME NEW a \in Actors, Transaction(a) PROVE ChainInv'
  <2>1. CASE Begin(a)
    BY <1>0, <2>1, ChainQuiet DEF Begin, TypeOK, Holding
  <2>2. CASE Lock(a)
    BY <1>0, <2>2 DEF Lock, ChainInv, ChainIntact, LastHash, TypeOK, Holding
  <2>3. CASE ReadLast(a)
    BY <1>0, <2>3 DEF ReadLast, ChainInv, ChainIntact, LastHash, TypeOK, Holding
  <2>4. ASSUME pc[a] = "read", Write(a), NEW p \in {"written", "error"}, pc' = [pc EXCEPT ![a] = p]
        PROVE  ChainInv'
    <3>1. ChainIntact' /\ lock' = {}
      BY <2>4, WriteExtends
    <3>2. \A b \in Actors : pc'[b] \notin Holding
      BY <1>0, <2>4 DEF ChainInv, TypeOK, Holding
    <3> QED BY <1>0, <3>1, <3>2 DEF ChainInv, Holding
  <2>5. CASE Commit(a)
    BY <2>4, <2>5 DEF Commit
  <2>6. CASE CommitUnheard(a)
    BY <2>4, <2>6 DEF CommitUnheard
  <2>7. CASE Abort(a)
    BY <1>0, <2>7 DEF Abort, ChainInv, ChainIntact, LastHash, TypeOK, Holding
  <2> QED BY <1>2, <2>1, <2>2, <2>3, <2>5, <2>6, <2>7 DEF Transaction
<1>3. ASSUME NEW a \in Actors, Handler(a) PROVE ChainInv'
  BY <1>0, <1>3, ChainQuiet
     DEF Handler, Answer, AnswerError, enqueueAuditRetry, EnqueueFails, Finish, TypeOK, Holding
<1>4. ASSUME NEW k \in Workers, Worker(k) PROVE ChainInv'
  <2>1. k \in Actors
    BY <1>a
  <2>2. CASE EmptyTick(k)
    BY <1>0, <2>2, ChainQuiet DEF EmptyTick, vars
  <2>3. ASSUME NextJob(k), pc[k] \in {"written", "error"}
        PROVE  \A a \in Actors : (pc'[a] \in Holding <=> pc[a] \in Holding)
                                  /\ (pc'[a] = "read" => pc[a] = "read")
    BY <1>0, <2>1, <2>3 DEF NextJob, Finish, TypeOK, Holding
  <2>4. CASE claimBatch(k)
    BY <1>0, <2>1, <2>4, ChainQuiet DEF claimBatch, TypeOK, Holding
  <2>5. CASE ClaimUnheard(k)
    BY <1>0, <2>5, ChainQuiet DEF ClaimUnheard
  <2>6. CASE DeleteRow(k)
    BY <1>0, <2>3, <2>6, ChainQuiet DEF DeleteRow
  <2>7. CASE DeleteFails(k)
    BY <1>0, <2>1, <2>7, ChainQuiet DEF DeleteFails, TypeOK, Holding
  <2>8. CASE RetryLater(k)
    BY <1>0, <2>3, <2>8, ChainQuiet DEF RetryLater
  <2>9. CASE RetryLaterFails(k)
    BY <1>0, <2>1, <2>9, ChainQuiet DEF RetryLaterFails, Finish, TypeOK, Holding
  <2> QED BY <1>4, <2>2, <2>4, <2>5, <2>6, <2>7, <2>8, <2>9 DEF Worker
<1>5. ASSUME NEW v \in Auditors, Auditor(v) PROVE ChainInv'
  <2>1. v \in Actors
    BY <1>a
  <2>2. UNCHANGED <<log, lock, seen>>
    BY <1>5 DEF Auditor, StartVerify, VerifyPage, VerifyLastPage, VerifyAnswer
  <2>3. \A a \in Actors : (pc'[a] \in Holding <=> pc[a] \in Holding)
                           /\ (pc'[a] = "read" => pc[a] = "read")
    BY <1>0, <1>5, <2>1
       DEF Auditor, StartVerify, VerifyPage, VerifyLastPage, VerifyAnswer,
           Finish, TypeOK, Holding
  <2> QED BY <1>0, <2>2, <2>3, ChainQuiet
<1>6. CASE UNCHANGED vars
  BY <1>0, <1>6, ChainQuiet DEF vars
<1> QED BY <1>1, <1>2, <1>3, <1>4, <1>5, <1>6 DEF Next

THEOREM ChainInvariance == Spec => []ChainInv
<1>1. Init => ChainInv
  <2> SUFFICES ASSUME Init PROVE ChainInv
    OBVIOUS
  <2>1. Len(log) = 0
    BY DEF Init
  <2> QED BY <2>1, TypeInit DEF Init, ChainInv, ChainIntact, Holding
<1>2. ChainInv /\ [Next]_vars => ChainInv'
  BY ChainStep
<1> QED BY <1>1, <1>2, PTL DEF Spec

\* The stored chain verifies from the genesis hash on, whoever writes, fails or
\* crashes: the advisory lock really rules the fork out.
THEOREM ChainNeverForks == Spec => []ChainIntact
<1>1. ChainInv => ChainIntact
  BY DEF ChainInv
<1> QED BY ChainInvariance, <1>1, PTL

-------------------------------------------------------------------------------
(* Refinement.                                                                *)

\* The audit trail implements AppendOnlyLog: the hash of the last row covers a
\* history that grows by single events at its end and by nothing else.
THEOREM ImplementsAppendOnlyLog == Spec => AppendOnly
<1>1. Init => History!Init
  BY DEF Init, History!Init, LastHash, GENESIS_HASH
<1>2. ChainInv /\ [Next]_vars => [History!Next]_LastHash
  <2> SUFFICES ASSUME ChainInv, [Next]_vars PROVE History!Next \/ UNCHANGED LastHash
    OBVIOUS
  <2>1. ASSUME NEW a \in Actors, pc[a] = "read", Write(a) PROVE History!Next
    BY <2>1, WriteExtends DEF History!Next, History!Record
  <2>2. CASE \E a \in Actors : Commit(a) \/ CommitUnheard(a)
    BY <2>1, <2>2 DEF Commit, CommitUnheard
  <2>3. CASE UNCHANGED log
    BY <2>3 DEF LastHash
  <2> QED
    BY <2>2, <2>3
       DEF Next, vars, Crash, Transaction, Begin, Lock, ReadLast, Abort, Handler, Answer,
           AnswerError, enqueueAuditRetry, EnqueueFails, Worker, claimBatch, ClaimUnheard,
           EmptyTick, DeleteRow, DeleteFails, RetryLater, RetryLaterFails, Auditor, StartVerify,
           VerifyPage, VerifyLastPage, VerifyAnswer, trail
<1> QED BY ChainInvariance, <1>1, <1>2, PTL DEF Spec, AppendOnly, History!Spec
-------------------------------------------------------------------------------
(* Verification concurrent with appends.                                      *)

(* Between pages the verifier holds the hash of the row it stopped at, and has *)
(* checked exactly the rows up to it.                                          *)
Resumes(v) ==
    /\ check[v].verified
    /\ check[v].lastId \in 0 .. Len(log)
    /\ check[v].rowsChecked = check[v].lastId
    /\ check[v].begunAt <= Len(log)
    /\ check[v].expected = IF check[v].lastId = 0 THEN GENESIS_HASH
                           ELSE log[check[v].lastId].curr_row_hash
    /\ pc[v] \in Writing => check[v].begunAt <= check[v].rowsChecked

VerifierInv == ChainInv /\ \A v \in Auditors : Resumes(v)

\* On an intact chain every page verifies.
LEMMA PagesVerify ==
    ASSUME VerifierInv, NEW v \in Auditors PROVE PageVerifies(v)
<1>1. /\ PageEnd(v) \in Nat /\ PageEnd(v) <= Len(log) /\ Len(log) \in Nat
      /\ check[v].lastId \in Nat
  BY PageEndTyped, SMTT(30) DEF VerifierInv, ChainInv, TypeInv, TypeOK
<1>2. SUFFICES ASSUME NEW i \in check[v].lastId + 1 .. PageEnd(v)
               PROVE  /\ log[i].prev_row_hash = ExpectedPrev(v, i)
                      /\ log[i].curr_row_hash = computeRowHash(log[i].prev_row_hash, log[i].event)
  BY DEF PageVerifies
<1>3. i \in 1 .. Len(log)
  BY <1>1
<1>4. /\ log[i].prev_row_hash = IF i = 1 THEN GENESIS_HASH ELSE log[i - 1].curr_row_hash
      /\ log[i].curr_row_hash = computeRowHash(log[i].prev_row_hash, log[i].event)
  BY <1>3 DEF VerifierInv, ChainInv, ChainIntact
<1>5. ExpectedPrev(v, i) = IF i = 1 THEN GENESIS_HASH ELSE log[i - 1].curr_row_hash
  <2>1. CASE i = check[v].lastId + 1
    <3>1. i - 1 = check[v].lastId /\ (i = 1 <=> check[v].lastId = 0)
      BY <1>1, <2>1
    <3> QED BY <2>1, <3>1 DEF ExpectedPrev, VerifierInv, Resumes
  <2>2. CASE i # check[v].lastId + 1
    BY <1>1, <2>2 DEF ExpectedPrev
  <2> QED BY <2>1, <2>2
<1> QED BY <1>4, <1>5

\* Going on to the next page keeps what the verifier holds.
LEMMA AdvanceResumes ==
    ASSUME VerifierInv, NEW v \in Auditors, Advance(v, PageEnd(v)), UNCHANGED log
    PROVE  /\ check'[v].verified
           /\ check'[v].lastId = PageEnd(v)
           /\ check'[v].rowsChecked = PageEnd(v)
           /\ check'[v].begunAt = check[v].begunAt
           /\ check'[v].expected = IF PageEnd(v) = 0 THEN GENESIS_HASH
                                   ELSE log[PageEnd(v)].curr_row_hash
           /\ \A u \in Auditors \ {v} : check'[u] = check[u]
<1> DEFINE end == PageEnd(v)
<1>1. /\ end \in Nat /\ check[v].lastId \in Nat /\ check[v].lastId <= end
  BY PageEndTyped DEF VerifierInv, ChainInv, TypeInv, TypeOK
<1> HIDE DEF end
<1>2. check' = [check EXCEPT
                 ![v].expected = IF end = check[v].lastId THEN @ ELSE log[end].curr_row_hash,
                 ![v].lastId = end,
                 ![v].rowsChecked = @ + (end - check[v].lastId),
                 ![v].verified = PageVerifies(v)]
  BY DEF Advance, end
<1>3. check \in [Auditors -> [expected : Hashes, lastId : Nat, rowsChecked : Nat,
                             verified : BOOLEAN, begunAt : Nat]]
  BY DEF VerifierInv, ChainInv, TypeInv, TypeOK
<1>4. /\ check'[v].verified = PageVerifies(v)
      /\ check'[v].lastId = end
      /\ check'[v].rowsChecked = check[v].rowsChecked + (end - check[v].lastId)
      /\ check'[v].begunAt = check[v].begunAt
      /\ check'[v].expected = IF end = check[v].lastId THEN check[v].expected
                              ELSE log[end].curr_row_hash
      /\ \A u \in Auditors \ {v} : check'[u] = check[u]
  BY <1>2, <1>3
<1>5. Resumes(v)
  BY DEF VerifierInv
<1>6. check'[v].rowsChecked = end
  BY <1>1, <1>4, <1>5 DEF Resumes
<1>7. check'[v].expected = IF end = 0 THEN GENESIS_HASH ELSE log[end].curr_row_hash
  <2>1. check[v].expected = IF check[v].lastId = 0 THEN GENESIS_HASH
                            ELSE log[check[v].lastId].curr_row_hash
    BY <1>5 DEF Resumes
  <2>2. CASE end = check[v].lastId
    <3>1. check'[v].expected = check[v].expected
      BY <1>4, <2>2
    <3> QED BY <2>1, <2>2, <3>1
  <2>3. CASE end # check[v].lastId
    <3>1. check'[v].expected = log[end].curr_row_hash /\ end # 0
      BY <1>1, <1>4, <2>3
    <3> QED BY <3>1
  <2> QED BY <2>2, <2>3
<1>8. check'[v].verified
  BY <1>4, PagesVerify
<1> QED BY <1>4, <1>6, <1>7, <1>8 DEF end

\* A longer log leaves a verifier where it was.
LEMMA LongerLogResumes ==
    ASSUME VerifierInv, ChainInv', NEW v \in Auditors,
           check'[v] = check[v], pc'[v] \in Writing => pc[v] \in Writing,
           Len(log') >= Len(log), \A i \in 1 .. Len(log) : log'[i] = log[i]
    PROVE  Resumes(v)'
<1>1. Len(log) \in Nat /\ Len(log') \in Nat /\ check[v].begunAt \in Nat
  BY DEF VerifierInv, ChainInv, TypeInv, TypeOK
<1>2. Resumes(v)
  BY DEF VerifierInv
<1> QED BY <1>1, <1>2 DEF Resumes

LEMMA VerifierStep == ASSUME VerifierInv, [Next]_vars PROVE VerifierInv'
<1>0. ChainInv' /\ ChainInv /\ TypeOK
  BY ChainStep DEF VerifierInv, ChainInv, TypeInv
<1>a. Actors = Handlers \cup AiHandlers \cup Workers \cup Auditors
  BY DEF Actors
<1>b. log \in Seq(Rows) /\ Len(log) \in Nat
  BY <1>0 DEF TypeOK
<1> SUFFICES ASSUME NEW v \in Auditors PROVE Resumes(v)'
  BY <1>0 DEF VerifierInv
<1>c. Resumes(v) /\ v \in Actors
  BY <1>a DEF VerifierInv
<1> USE DEF trail, Goto
<1>1. CASE Crash
  BY <1>b, <1>c, <1>1 DEF Crash, Resumes, NoCheck, Writing
<1>2. ASSUME NEW a \in Actors, Transaction(a) PROVE Resumes(v)'
  <2>1. check' = check
    BY <1>2 DEF Transaction, Begin, Lock, ReadLast, Commit, CommitUnheard, Abort
  <2>2. pc'[v] \in Writing => pc[v] \in Writing
    BY <1>0, <1>2, <1>c, RolesAssumption
       DEF Transaction, Begin, Lock, ReadLast, Commit, CommitUnheard, Abort, TypeOK, Writing
  <2>3. Len(log') >= Len(log) /\ \A i \in 1 .. Len(log) : log'[i] = log[i]
    <3>1. CASE Write(a)
      <4>1. pc[a] = "read" => event[a] \in Events /\ seen[a] \in Hashes
        BY <1>0 DEF ChainInv, TypeInv, TypeOK, Writing
      <4>2. log' = Append(log, Row(seen[a], event[a]))
        BY <3>1 DEF Write
      <4> QED BY <1>b, <4>2
    <3>2. CASE UNCHANGED log
      BY <1>b, <3>2
    <3> QED BY <1>2, <3>1, <3>2
            DEF Transaction, Begin, Lock, ReadLast, Commit, CommitUnheard, Abort
  <2> QED BY <1>0, <2>1, <2>2, <2>3, LongerLogResumes
<1>3. ASSUME NEW a \in Actors, Handler(a) PROVE Resumes(v)'
  <2>1. check' = check /\ log' = log /\ (pc'[v] \in Writing => pc[v] \in Writing)
    BY <1>0, <1>3, <1>c
       DEF Handler, Answer, AnswerError, enqueueAuditRetry, EnqueueFails, Finish, TypeOK, Writing
  <2> QED BY <1>0, <1>b, <2>1, LongerLogResumes
<1>4. ASSUME NEW k \in Workers, Worker(k) PROVE Resumes(v)'
  <2>1. k # v /\ k \in Actors
    BY <1>a, RolesAssumption
  <2>2. check' = check /\ log' = log
    BY <1>4 DEF Worker, claimBatch, ClaimUnheard, EmptyTick, DeleteRow, DeleteFails, RetryLater,
                RetryLaterFails, vars
  <2>3. pc'[v] = pc[v]
    BY <1>0, <1>4, <1>c, <2>1
       DEF Worker, claimBatch, ClaimUnheard, EmptyTick, DeleteRow, DeleteFails, RetryLater,
           RetryLaterFails, NextJob, Finish, vars, TypeOK
  <2> QED BY <1>0, <1>b, <2>2, <2>3, LongerLogResumes
<1>5. ASSUME NEW u \in Auditors, Auditor(u) PROVE Resumes(v)'
  <2>1. log' = log
    BY <1>5 DEF Auditor, StartVerify, VerifyPage, VerifyLastPage, VerifyAnswer
  <2>2. CASE u # v
    <3>1. check'[v] = check[v] /\ pc'[v] = pc[v]
      BY <1>0, <1>5, <1>c, <2>2
         DEF Auditor, StartVerify, VerifyPage, VerifyLastPage, VerifyAnswer,
             Advance, Finish, TypeOK
    <3> QED BY <1>0, <1>b, <2>1, <3>1, LongerLogResumes
  <2>3. CASE u = v
    <3>0. PageVerifies(v)
      BY PagesVerify
    <3>1. /\ PageEnd(v) \in Nat /\ PageEnd(v) <= Len(log)
          /\ check[v].lastId \in Nat /\ check[v].begunAt \in Nat
      BY <1>0, PageEndTyped DEF ChainInv, TypeInv, TypeOK
    <3>2. CASE StartVerify(v)
      BY <1>0, <1>b, <1>c, <2>1, <3>2 DEF StartVerify, Resumes, NoCheck, TypeOK, Writing
    <3>3. CASE VerifyPage(v)
      <4>1. pc'[v] = "verifying"
        BY <3>3 DEF VerifyPage
      <4>2. Advance(v, PageEnd(v))
        BY <3>3 DEF VerifyPage
      <4> QED BY <1>c, <2>1, <3>1, <4>1, <4>2, AdvanceResumes DEF VerifierInv, Resumes, Writing
    <3>4. CASE VerifyLastPage(v)
      <4>1. Advance(v, PageEnd(v)) /\ PageEnd(v) < check[v].lastId + VerifyBatch
        BY <3>0, <3>4 DEF VerifyLastPage
      <4>2. PageEnd(v) = Len(log)
        BY <1>b, <3>1, <4>1, NumbersAssumption DEF PageEnd
      <4> QED BY <1>b, <1>c, <2>1, <3>1, <4>1, <4>2, AdvanceResumes DEF VerifierInv, Resumes
    <3>6. CASE VerifyAnswer(v)
      BY <1>0, <1>b, <1>c, <2>1, <3>6 DEF VerifyAnswer, Finish, Resumes, NoCheck, TypeOK, Writing
    <3> QED BY <1>5, <2>3, <3>2, <3>3, <3>4, <3>6 DEF Auditor
  <2> QED BY <2>2, <2>3
<1>6. CASE UNCHANGED vars
  BY <1>0, <1>b, <1>6, LongerLogResumes DEF vars
<1> QED BY <1>1, <1>2, <1>3, <1>4, <1>5, <1>6 DEF Next

\* A verification never reports an honest log as tampered with, and covers every
\* row there was when it began, for every page size and any concurrent appends.
THEOREM VerificationIsTruthful == Spec => []VerifierTruthful
<1>1. Init => VerifierInv
  <2> SUFFICES ASSUME Init PROVE VerifierInv
    OBVIOUS
  <2>1. ChainInv
    <3>1. Len(log) = 0
      BY DEF Init
    <3> QED BY <3>1, TypeInit DEF Init, ChainInv, ChainIntact, Holding
  <2>2. \A v \in Auditors : v \in Actors
    BY DEF Actors
  <2> QED BY <2>1, <2>2 DEF Init, VerifierInv, Resumes, NoCheck, Writing
<1>2. VerifierInv /\ [Next]_vars => VerifierInv'
  BY VerifierStep
<1>3. VerifierInv => VerifierTruthful
  <2> SUFFICES ASSUME VerifierInv, NEW v \in Auditors
               PROVE  /\ check[v].verified
                      /\ pc[v] \in {"begin", "locked", "read", "written"} =>
                            check[v].rowsChecked >= check[v].begunAt
    BY DEF VerifierTruthful
  <2>1. check[v].rowsChecked \in Nat /\ check[v].begunAt \in Nat
    BY DEF VerifierInv, ChainInv, TypeInv, TypeOK
  <2> QED BY <2>1 DEF VerifierInv, Resumes, Writing
<1> QED BY <1>1, <1>2, <1>3, PTL DEF Spec

-------------------------------------------------------------------------------
(* The evidence.  An event is in the hands of at most one actor, its outbox   *)
(* row is pending only when it is in nobody's, and whoever could still record *)
(* it knows that it is not recorded, or that this is in doubt.                *)

\* The events an actor is responsible for: a worker for those it has claimed.
Own(a) ==
    IF a \in Workers THEN batch[a] ELSE IF pc[a] \in Writing THEN {event[a]} ELSE {}

Unrecorded(e) == Logged(e) => e \in doubtful

WorkersInv ==
    \A k \in Workers : \/ pc[k] = "idle" /\ batch[k] = {}
                       \/ pc[k] \in Writing /\ event[k] \in batch[k]

OwnedOnce ==
    /\ \A a, b \in Actors : a # b => Own(a) \cap Own(b) = {}
    /\ \A a \in Actors : \A e \in Own(a) : outbox[e] # "pending"

UnissuedInv ==
    \A e \in Events :
        e > issued => /\ outbox[e] = "none" /\ ~Logged(e) /\ e \notin answered
                      /\ \A a \in Actors : e \notin Own(a)

RecordedInv ==
    /\ \A e \in Events : outbox[e] = "pending" => Unrecorded(e)
    /\ \A a \in Actors :
          /\ pc[a] = "written" => Logged(event[a])
          /\ \A e \in Own(a) : Unrecorded(e) \/ (pc[a] = "written" /\ event[a] = e)

EvidenceInv ==
    /\ TypeInv /\ WorkersInv /\ OwnedOnce /\ UnissuedInv /\ RecordedInv
    /\ AnswersLeaveEvidence /\ OnceUnlessDoubtful

\* What is recorded after a step that leaves the log alone, and after one that writes.
LEMMA Logs ==
    /\ \A e : log' = log => (Logged(e)' <=> Logged(e))
    /\ \A e, a : /\ log \in Seq(Rows) /\ log' = Append(log, Row(seen[a], event[a]))
                 => (Logged(e)' <=> Logged(e) \/ e = event[a])
<1>1. \A e : log' = log => (Logged(e)' <=> Logged(e))
  BY DEF Logged
<1>2. ASSUME NEW e, NEW a, log \in Seq(Rows), log' = Append(log, Row(seen[a], event[a]))
      PROVE  Logged(e)' <=> Logged(e) \/ e = event[a]
  <2>1. /\ Len(log) \in Nat /\ Len(log') = Len(log) + 1
        /\ log'[Len(log) + 1].event = event[a]
        /\ \A i \in 1 .. Len(log) : log'[i] = log[i]
    BY <1>2 DEF Row
  <2>2. 1 .. Len(log') = (1 .. Len(log)) \cup {Len(log) + 1}
    BY <2>1
  <2> QED BY <2>1, <2>2 DEF Logged
<1> QED BY <1>1, <1>2

\* With the log as it was, no event becomes recorded or recorded twice.
LEMMA SameLog ==
    ASSUME log' = log, doubtful \subseteq doubtful'
    PROVE  /\ \A e : Unrecorded(e) => Unrecorded(e)'
           /\ OnceUnlessDoubtful => OnceUnlessDoubtful'
BY Logs DEF Unrecorded, OnceUnlessDoubtful

\* A step inside an actor's transaction.
LEMMA Moves ==
    ASSUME EvidenceInv, TypeInv', UNCHANGED <<log, event, outbox, batch, issued, answered>>,
           doubtful \subseteq doubtful', lost \subseteq lost',
           \A a \in Actors : pc'[a] \in Writing <=> pc[a] \in Writing,
           \A a \in Actors : pc'[a] = "written" <=> pc[a] = "written",
           \A k \in Workers : pc'[k] = "idle" <=> pc[k] = "idle"
    PROVE  EvidenceInv'
<1>1. \A a \in Actors : Own(a)' = Own(a)
  BY DEF Own
<1>2. WorkersInv'
  BY DEF EvidenceInv, WorkersInv, Actors
<1>3. OwnedOnce' /\ UnissuedInv' /\ AnswersLeaveEvidence'
  BY <1>1, Logs DEF EvidenceInv, OwnedOnce, UnissuedInv, AnswersLeaveEvidence
<1>4. RecordedInv' /\ OnceUnlessDoubtful'
  BY <1>1, Logs, SameLog DEF EvidenceInv, RecordedInv
<1> QED BY <1>2, <1>3, <1>4 DEF EvidenceInv

\* A new event, in the hands of who issues it.
LEMMA Issues ==
    ASSUME EvidenceInv, TypeInv', NEW a \in Actors \ Workers, pc[a] \notin Writing,
           issued' = issued + 1, event' = [event EXCEPT ![a] = issued + 1], Goto(a, "begin"),
           UNCHANGED <<log, outbox, batch, answered, lost, doubtful>>
    PROVE  EvidenceInv'
<1>1. issued \in Nat /\ Events \subseteq Nat /\ issued + 1 \in Events
  BY NumbersAssumption DEF EvidenceInv, TypeInv, TypeOK, Events
<1>2. /\ pc'[a] = "begin" /\ event'[a] = issued + 1
      /\ \A b \in Actors \ {a} : pc'[b] = pc[b] /\ event'[b] = event[b]
  BY DEF Goto, EvidenceInv, TypeInv, TypeOK
<1>3. /\ Own(a) = {} /\ Own(a)' = {issued + 1}
      /\ \A b \in Actors \ {a} : Own(b)' = Own(b)
  BY <1>2 DEF Own, Writing
<1>4. \A b \in Actors : issued + 1 \notin Own(b)
  BY <1>1 DEF EvidenceInv, UnissuedInv
<1>5. ~Logged(issued + 1) /\ outbox[issued + 1] = "none" /\ issued + 1 \notin answered
  BY <1>1 DEF EvidenceInv, UnissuedInv
<1>6. WorkersInv'
  BY <1>2 DEF EvidenceInv, WorkersInv, Actors
<1>7. OwnedOnce'
  BY <1>3, <1>4, <1>5 DEF EvidenceInv, OwnedOnce
<1>8. UnissuedInv' /\ AnswersLeaveEvidence'
  BY <1>1, <1>3, Logs DEF EvidenceInv, UnissuedInv, AnswersLeaveEvidence
<1>9. RecordedInv' /\ OnceUnlessDoubtful'
  <2>1. Unrecorded(issued + 1)
    BY <1>5 DEF Unrecorded
  <2> QED BY <1>2, <1>3, <2>1, Logs, SameLog DEF EvidenceInv, RecordedInv
<1> QED BY <1>6, <1>7, <1>8, <1>9 DEF EvidenceInv

\* A handler is done with its event; it may leave a pending row behind.
LEMMA Finishes ==
    ASSUME EvidenceInv, TypeInv', NEW a \in Actors \ Workers, pc[a] \in {"written", "error"},
           Finish(a), UNCHANGED <<log, batch, issued, doubtful>>, lost \subseteq lost',
           \/ outbox' = outbox
           \/ pc[a] = "error" /\ outbox' = [outbox EXCEPT ![event[a]] = "pending"],
           \/ answered' = answered
           \/ /\ answered' = answered \cup {event[a]}
              /\ pc[a] = "written" \/ outbox'[event[a]] # "none" \/ event[a] \in lost'
    PROVE  EvidenceInv'
<1> DEFINE e == event[a]
<1>1. e \in Events /\ pc[a] \in Writing /\ pc'[a] = "idle"
  BY DEF Writing, EvidenceInv, TypeInv, TypeOK, Finish, Goto
<1>2. \A b \in Actors \ {a} : pc'[b] = pc[b] /\ event'[b] = event[b]
  BY DEF Finish, Goto, EvidenceInv, TypeInv, TypeOK
<1>3. /\ Own(a) = {e} /\ Own(a)' = {}
      /\ \A b \in Actors \ {a} : Own(b)' = Own(b) /\ e \notin Own(b)
  <2>1. Own(a) = {e} /\ Own(a)' = {} /\ \A b \in Actors \ {a} : Own(b)' = Own(b)
    BY <1>1, <1>2 DEF Own, Writing
  <2> QED BY <2>1 DEF EvidenceInv, OwnedOnce
<1>4. /\ \A f \in Events \ {e} : outbox'[f] = outbox[f]
      /\ outbox'[e] = outbox[e] \/ (outbox'[e] = "pending" /\ pc[a] = "error")
  BY <1>1 DEF EvidenceInv, TypeInv, TypeOK
<1>5. outbox[e] # "pending" /\ e <= issued
  <2>1. e \in Nat /\ issued \in Nat
    BY <1>1, NumbersAssumption DEF EvidenceInv, TypeInv, TypeOK, Events
  <2> QED BY <1>1, <1>3, <2>1 DEF EvidenceInv, OwnedOnce, UnissuedInv
<1>6. WorkersInv'
  BY <1>2 DEF EvidenceInv, WorkersInv, Actors
<1>7. OwnedOnce'
  <2>1. \A b \in Actors : Own(b) \subseteq Events
    BY DEF Own, EvidenceInv, TypeInv, TypeOK
  <2> QED BY <1>3, <1>4, <2>1 DEF EvidenceInv, OwnedOnce
<1>8. UnissuedInv'
  <2>1. \A f \in Events : f > issued => f # e
    BY <1>1, <1>5, NumbersAssumption DEF Events, EvidenceInv, TypeInv, TypeOK
  <2> HIDE DEF e
  <2>2. \A f \in Events : f > issued => outbox'[f] = outbox[f] /\ (f \in answered' => f \in answered)
    BY <1>4, <2>1 DEF e
  <2> QED BY <1>3, <2>2, Logs DEF EvidenceInv, UnissuedInv
<1>9. AnswersLeaveEvidence'
  <2>1. pc[a] = "written" => Logged(e)
    BY DEF EvidenceInv, RecordedInv
  <2>2. \A f \in Events : outbox[f] # "none" => outbox'[f] # "none"
    BY <1>4
  <2>3. answered \subseteq Events
    BY DEF EvidenceInv, TypeInv, TypeOK
  <2> QED BY <2>1, <2>2, <2>3, Logs DEF EvidenceInv, AnswersLeaveEvidence
<1>10. RecordedInv' /\ OnceUnlessDoubtful'
  <2>1. pc[a] = "error" => Unrecorded(e)
    BY <1>3 DEF EvidenceInv, RecordedInv
  <2>2. \A f \in Events : outbox'[f] = "pending" => Unrecorded(f)
    BY <1>4, <1>5, <2>1 DEF EvidenceInv, RecordedInv
  <2>3. \A f : Unrecorded(f) => Unrecorded(f)'
    BY SameLog
  <2> QED BY <1>1, <1>2, <1>3, <2>2, <2>3, Logs, SameLog DEF EvidenceInv, RecordedInv
<1> QED BY <1>6, <1>7, <1>8, <1>9, <1>10 DEF EvidenceInv

\* The row is written: a recorded event is doubtful unless its writer knows.
LEMMA Writes ==
    ASSUME EvidenceInv, TypeInv', NEW a \in Actors, pc[a] = "read", Write(a),
           UNCHANGED <<event, outbox, batch, issued, answered, lost>>,
           \/ Goto(a, "written") /\ doubtful' = doubtful
           \/ Goto(a, "error") /\ doubtful' = doubtful \cup {event[a]}
    PROVE  EvidenceInv'
<1> DEFINE e == event[a]
<1>1. /\ pc'[a] \in {"written", "error"} /\ \A b \in Actors \ {a} : pc'[b] = pc[b]
      /\ pc'[a] = "written" \/ e \in doubtful'
  BY DEF Goto, EvidenceInv, TypeInv, TypeOK
<1>2. \A b \in Actors : Own(b)' = Own(b)
  BY <1>1 DEF Own, Writing
<1>3. e \in Own(a) /\ \A b \in Actors \ {a} : e \notin Own(b)
  <2>1. e \in Own(a)
    BY DEF Own, Writing, EvidenceInv, WorkersInv
  <2> QED BY <2>1 DEF EvidenceInv, OwnedOnce
<1>4. Unrecorded(e) /\ outbox[e] # "pending" /\ e \in Events
  BY <1>3 DEF EvidenceInv, RecordedInv, OwnedOnce, TypeInv, Writing
<1>5. \A f : Logged(f)' <=> Logged(f) \/ f = e
  BY Logs DEF Write, EvidenceInv, TypeInv, TypeOK
<1>6. \A f : f # e /\ Unrecorded(f) => Unrecorded(f)'
  BY <1>5 DEF Unrecorded
<1>7. WorkersInv'
  BY <1>1 DEF EvidenceInv, WorkersInv, Actors, Writing
<1>8. OwnedOnce' /\ AnswersLeaveEvidence'
  BY <1>2, <1>5 DEF EvidenceInv, OwnedOnce, AnswersLeaveEvidence
<1>9. UnissuedInv'
  BY <1>2, <1>3, <1>4, <1>5 DEF EvidenceInv, UnissuedInv
<1>10. RecordedInv'
  <2>1. e \in doubtful' => Unrecorded(e)'
    BY DEF Unrecorded
  <2>2. \A f \in Events : outbox'[f] = "pending" => Unrecorded(f)'
    BY <1>4, <1>6 DEF EvidenceInv, RecordedInv
  <2>3. \A b \in Actors : pc'[b] = "written" => Logged(event[b])'
    BY <1>1, <1>5 DEF EvidenceInv, RecordedInv
  <2>4. \A f \in Own(a)' : Unrecorded(f)' \/ (pc'[a] = "written" /\ event'[a] = f)
    BY <1>1, <1>2, <1>6, <2>1 DEF EvidenceInv, RecordedInv
  <2>5. ASSUME NEW b \in Actors \ {a}, NEW f \in Own(b)'
        PROVE  Unrecorded(f)' \/ (pc'[b] = "written" /\ event'[b] = f)
    BY <1>1, <1>2, <1>3, <1>6, <2>5 DEF EvidenceInv, RecordedInv
  <2> QED BY <2>2, <2>3, <2>4, <2>5 DEF RecordedInv
<1>11. OnceUnlessDoubtful'
  <2>1. /\ log \in Seq(Rows) /\ log' = Append(log, Row(seen[a], e)) /\ doubtful \subseteq doubtful'
    BY DEF Write, EvidenceInv, TypeInv, TypeOK
  <2>2. /\ Len(log) \in Nat /\ Len(log') = Len(log) + 1
        /\ log'[Len(log) + 1].event = e
        /\ \A i \in 1 .. Len(log) : log'[i] = log[i]
    BY <2>1 DEF Row
  <2> SUFFICES ASSUME NEW i \in 1 .. Len(log'), NEW j \in 1 .. Len(log'),
                      i # j, log'[i].event = log'[j].event
               PROVE  log'[i].event \in doubtful'
    BY DEF OnceUnlessDoubtful
  <2>3. CASE i \in 1 .. Len(log) /\ j \in 1 .. Len(log)
    BY <2>1, <2>2, <2>3 DEF EvidenceInv, OnceUnlessDoubtful
  <2>4. CASE i = Len(log) + 1 \/ j = Len(log) + 1
    <3>1. log'[i].event = e /\ \E n \in 1 .. Len(log) : log[n].event = e
      BY <2>2, <2>4
    <3> QED BY <1>4, <2>1, <3>1 DEF Logged, Unrecorded
  <2> QED BY <2>2, <2>3, <2>4
<1> QED BY <1>7, <1>8, <1>9, <1>10, <1>11 DEF EvidenceInv

\* A worker puts a row away, and goes on to the next one or ends its tick.
LEMMA PutsAway ==
    ASSUME EvidenceInv, TypeInv', NEW k \in Workers, pc[k] \in {"written", "error"},
           UNCHANGED <<log, issued, answered, lost, doubtful>>,
           outbox' = outbox \/ \E s \in {"none", "pending", "failed"} :
                                   outbox' = [outbox EXCEPT ![event[k]] = s],
           outbox'[event[k]] = "none" => pc[k] = "written" \/ outbox[event[k]] = "none",
           outbox'[event[k]] = "pending" => pc[k] = "error",
           NextJob(k) \/ (Finish(k) /\ batch' = [batch EXCEPT ![k] = {}])
    PROVE  EvidenceInv'
<1> DEFINE e == event[k]
<1>1. k \in Actors /\ e \in Events /\ e \in batch[k] /\ pc[k] \in Writing
  BY DEF Actors, Writing, EvidenceInv, WorkersInv, TypeInv, TypeOK
<1>2. /\ \A b \in Actors \ {k} : pc'[b] = pc[b] /\ event'[b] = event[b]
      /\ \A b \in Workers \ {k} : batch'[b] = batch[b]
      /\ batch'[k] \subseteq batch[k] \ {e}
      /\ pc'[k] \in {"idle", "begin"}
      /\ \/ pc'[k] = "idle" /\ batch'[k] = {}
         \/ pc'[k] = "begin" /\ event'[k] \in batch'[k]
  <2>1. CASE Finish(k) /\ batch' = [batch EXCEPT ![k] = {}]
    BY <1>1, <2>1 DEF Finish, Goto, EvidenceInv, TypeInv, TypeOK
  <2>2. CASE NextJob(k) /\ batch[k] \ {e} = {}
    BY <1>1, <2>2 DEF NextJob, Finish, Goto, EvidenceInv, TypeInv, TypeOK
  <2>3. CASE NextJob(k) /\ batch[k] \ {e} # {}
    BY <1>1, <2>3 DEF NextJob, Goto, EvidenceInv, TypeInv, TypeOK
  <2> QED BY <2>1, <2>2, <2>3
<1>3. /\ Own(k) = batch[k] /\ Own(k)' = batch'[k]
      /\ \A b \in Actors \ {k} : Own(b)' = Own(b) /\ e \notin Own(b)
  <2>1. Own(k) = batch[k] /\ Own(k)' = batch'[k] /\ \A b \in Actors \ {k} : Own(b)' = Own(b)
    BY <1>1, <1>2 DEF Own
  <2> QED BY <1>1, <2>1 DEF EvidenceInv, OwnedOnce
<1>4. \A f \in Events \ {e} : outbox'[f] = outbox[f]
  BY <1>1 DEF EvidenceInv, TypeInv, TypeOK
<1>5. \A b \in Actors : Own(b)' \subseteq Own(b) \ {e}
  BY <1>2, <1>3
<1>6. \A b \in Actors : Own(b) \subseteq Events
  BY DEF Own, EvidenceInv, TypeInv, TypeOK
<1> HIDE DEF e
<1>7. WorkersInv'
  BY <1>1, <1>2 DEF EvidenceInv, WorkersInv, Actors, Writing
<1>8. OwnedOnce'
  BY <1>4, <1>5, <1>6 DEF EvidenceInv, OwnedOnce
<1>9. UnissuedInv'
  <2>1. \A f \in Events : f > issued => f # e
    BY <1>1, <1>3 DEF EvidenceInv, UnissuedInv
  <2> QED BY <1>4, <1>5, <2>1, Logs DEF EvidenceInv, UnissuedInv
<1>10. AnswersLeaveEvidence'
  <2>1. outbox'[e] = "none" => Logged(e) \/ outbox[e] = "none"
    BY DEF e, EvidenceInv, RecordedInv, Actors
  <2>2. answered \subseteq Events
    BY DEF EvidenceInv, TypeInv, TypeOK
  <2> QED BY <1>4, <2>1, <2>2, Logs DEF EvidenceInv, AnswersLeaveEvidence
<1>11. RecordedInv'
  <2>1. \A f : Unrecorded(f) => Unrecorded(f)'
    BY SameLog
  <2>2. \A f \in Own(k) : f # e \/ pc[k] = "error" => Unrecorded(f)
    BY <1>1 DEF e, EvidenceInv, RecordedInv
  <2>3. \A f \in Events : outbox'[f] = "pending" => Unrecorded(f)'
    <3>1. outbox'[e] = "pending" => Unrecorded(e)
      BY <1>1, <1>3, <2>2 DEF e
    <3> QED BY <1>4, <2>1, <3>1 DEF EvidenceInv, RecordedInv
  <2>4. \A f \in Own(k)' : Unrecorded(f)'
    BY <1>1, <1>5, <2>1, <2>2
  <2>5. \A b \in Actors : pc'[b] = "written" => Logged(event[b])'
    BY <1>2, Logs DEF EvidenceInv, RecordedInv
  <2>6. ASSUME NEW b \in Actors \ {k}, NEW f \in Own(b)'
        PROVE  Unrecorded(f)' \/ (pc'[b] = "written" /\ event'[b] = f)
    BY <1>2, <1>3, <2>1, <2>6 DEF EvidenceInv, RecordedInv
  <2> QED BY <2>3, <2>4, <2>5, <2>6 DEF RecordedInv
<1> QED BY <1>7, <1>8, <1>9, <1>10, <1>11, SameLog DEF EvidenceInv

\* Pending rows are claimed: by a worker, or by an answer that nobody hears.
LEMMA Claiming ==
    ASSUME EvidenceInv, TypeInv', NEW S \in SUBSET Pending,
           outbox' = [f \in Events |-> IF f \in S THEN "processing" ELSE outbox[f]],
           UNCHANGED <<log, issued, answered, lost, doubtful>>,
           \/ UNCHANGED <<pc, event, batch>>
           \/ \E k \in Workers, e \in S :
                 /\ pc[k] = "idle" /\ Goto(k, "begin") /\ event' = [event EXCEPT ![k] = e]
                 /\ batch' = [batch EXCEPT ![k] = S]
    PROVE  EvidenceInv'
<1>1. /\ S \subseteq Events /\ \A f \in S : outbox[f] = "pending" /\ Unrecorded(f)
      /\ \A b \in Actors : Own(b) \cap S = {}
  BY DEF Pending, EvidenceInv, RecordedInv, OwnedOnce
<1>2. /\ \A f \in S : outbox'[f] = "processing"
      /\ \A f \in Events \ S : outbox'[f] = outbox[f]
  BY <1>1
<1>3. \A f : Unrecorded(f) => Unrecorded(f)'
  BY SameLog
<1>4. AnswersLeaveEvidence' /\ OnceUnlessDoubtful'
  <2>1. answered \subseteq Events
    BY DEF EvidenceInv, TypeInv, TypeOK
  <2> QED BY <1>2, <2>1, Logs, SameLog DEF EvidenceInv, AnswersLeaveEvidence
<1>5. \A b \in Actors : Own(b) \subseteq Events
  BY DEF Own, EvidenceInv, TypeInv, TypeOK
<1>6. \A f \in S : ~(f > issued)
  BY <1>1 DEF EvidenceInv, UnissuedInv
<1>7. CASE UNCHANGED <<pc, event, batch>>
  <2>1. \A b \in Actors : Own(b)' = Own(b)
    BY <1>7 DEF Own
  <2>2. WorkersInv' /\ OwnedOnce' /\ UnissuedInv'
    BY <1>1, <1>2, <1>5, <1>6, <1>7, <2>1, Logs
       DEF EvidenceInv, WorkersInv, OwnedOnce, UnissuedInv
  <2>3. RecordedInv'
    BY <1>1, <1>2, <1>3, <1>7, <2>1, Logs DEF EvidenceInv, RecordedInv
  <2> QED BY <1>4, <2>2, <2>3 DEF EvidenceInv
<1>8. ASSUME NEW k \in Workers, NEW e \in S, pc[k] = "idle", Goto(k, "begin"),
             event' = [event EXCEPT ![k] = e], batch' = [batch EXCEPT ![k] = S]
      PROVE  EvidenceInv'
  <2>1. /\ k \in Actors /\ pc'[k] = "begin" /\ event'[k] = e /\ batch'[k] = S
        /\ \A b \in Actors \ {k} : pc'[b] = pc[b] /\ event'[b] = event[b]
        /\ \A b \in Workers \ {k} : batch'[b] = batch[b]
    BY <1>8 DEF Actors, Goto, EvidenceInv, TypeInv, TypeOK
  <2>2. Own(k)' = S /\ \A b \in Actors \ {k} : Own(b)' = Own(b)
    BY <2>1 DEF Own
  <2>3. WorkersInv'
    BY <2>1 DEF EvidenceInv, WorkersInv, Actors, Writing
  <2>4. OwnedOnce' /\ UnissuedInv'
    BY <1>1, <1>2, <1>5, <1>6, <2>2, Logs DEF EvidenceInv, OwnedOnce, UnissuedInv
  <2>5. RecordedInv'
    BY <1>1, <1>2, <1>3, <2>1, <2>2, Logs DEF EvidenceInv, RecordedInv
  <2> QED BY <1>4, <2>3, <2>4, <2>5 DEF EvidenceInv
<1> QED BY <1>7, <1>8

\* Every step keeps the evidence.
LEMMA EvidenceStep == ASSUME EvidenceInv, [Next]_vars PROVE EvidenceInv'
<1> USE DEF trail, queueVars, ghosts, Goto
<1>0. TypeInv' /\ TypeInv /\ TypeOK
  BY TypeStep DEF EvidenceInv, TypeInv
<1>a. /\ Actors = Handlers \cup AiHandlers \cup Workers \cup Auditors
      /\ \A a \in Handlers \cup AiHandlers \cup Auditors : a \in Actors \ Workers
  BY RolesAssumption DEF Actors
<1>b. \A k \in Workers : k \in Actors /\ pc[k] # "verifying"
  BY <1>a DEF EvidenceInv, WorkersInv, Writing
<1>1. CASE Crash
  <2>1. \A a \in Actors : Own(a)' = {}
    BY <1>1 DEF Crash, Own, Writing
  <2>2. WorkersInv' /\ OwnedOnce'
    BY <1>1, <1>a, <2>1 DEF Crash, WorkersInv, OwnedOnce
  <2>3. UnissuedInv' /\ AnswersLeaveEvidence'
    BY <1>1, <2>1, Logs DEF Crash, EvidenceInv, UnissuedInv, AnswersLeaveEvidence
  <2>4. RecordedInv' /\ OnceUnlessDoubtful'
    BY <1>1, <2>1, Logs, SameLog DEF Crash, EvidenceInv, RecordedInv
  <2> QED BY <1>0, <2>2, <2>3, <2>4 DEF EvidenceInv
<1>2. ASSUME NEW a \in Actors, Transaction(a) PROVE EvidenceInv'
  <2>1. CASE Begin(a)
    BY <1>0, <1>a, <2>1, Issues DEF Begin, Writing
  <2>2. CASE Lock(a) \/ ReadLast(a) \/ Abort(a)
    <3>1. /\ UNCHANGED <<log, event, outbox, batch, issued, answered, doubtful, lost>>
          /\ pc[a] \in {"begin", "locked", "read"}
          /\ \E s \in {"locked", "read", "error"} : pc' = [pc EXCEPT ![a] = s]
      BY <2>2 DEF Lock, ReadLast, Abort
    <3> QED BY <1>0, <1>a, <3>1, Moves DEF Writing, TypeOK
  <2>3. CASE Commit(a) \/ CommitUnheard(a)
    BY <1>0, <2>3, Writes DEF Commit, CommitUnheard
  <2> QED BY <1>2, <2>1, <2>2, <2>3 DEF Transaction
<1>3. ASSUME NEW a \in Actors, Handler(a) PROVE EvidenceInv'
  <2>1. CASE Answer(a) \/ AnswerError(a)
    BY <1>0, <1>a, <2>1, Finishes DEF Answer, AnswerError
  <2>2. CASE enqueueAuditRetry(a) \/ EnqueueFails(a)
    <3>1. event[a] \in Events
      BY <1>0, <2>2 DEF enqueueAuditRetry, EnqueueFails, TypeInv, Writing
    <3> QED BY <1>0, <1>a, <2>2, <3>1, Finishes DEF enqueueAuditRetry, EnqueueFails, TypeOK
  <2> QED BY <1>3, <2>1, <2>2 DEF Handler
<1>4. ASSUME NEW k \in Workers, Worker(k) PROVE EvidenceInv'
  <2>1. CASE claimBatch(k) \/ ClaimUnheard(k)
    BY <1>0, <2>1, Claiming DEF claimBatch, ClaimUnheard, Claims
  <2>2. CASE EmptyTick(k)
    BY <1>0, <1>b, <2>2, Moves DEF EmptyTick, vars
  <2>3. CASE DeleteRow(k)
    <3>1. outbox'[event[k]] = "none"
      BY <1>0, <1>b, <2>3 DEF DeleteRow, TypeInv, TypeOK, Writing
    <3> QED BY <1>0, <2>3, <3>1, PutsAway DEF DeleteRow
  <2>4. CASE DeleteFails(k)
    <3>1. /\ pc[k] = "written" /\ pc'[k] = "error" /\ event[k] \in Events
          /\ \A b \in Actors \ {k} : pc'[b] = pc[b]
          /\ UNCHANGED <<log, event, batch, issued, answered, lost>>
          /\ doubtful' = doubtful \cup {event[k]}
      BY <1>0, <1>b, <2>4 DEF DeleteFails, TypeInv, TypeOK, Writing
    <3>2. /\ \A f \in Events : outbox'[f] = outbox[f] \/ (f = event[k] /\ outbox'[f] = "none")
          /\ Logged(event[k])
      BY <1>0, <1>b, <2>4, <3>1 DEF DeleteFails, TypeOK, EvidenceInv, RecordedInv
    <3>3. \A b \in Actors : Own(b)' = Own(b) /\ Own(b) \subseteq Events
      BY <1>0, <3>1 DEF Own, Writing, TypeInv, TypeOK
    <3>4. WorkersInv' /\ OwnedOnce' /\ UnissuedInv'
      BY <1>b, <3>1, <3>2, <3>3, Logs
         DEF EvidenceInv, WorkersInv, OwnedOnce, UnissuedInv, Writing
    <3>5. RecordedInv'
      <4>1. Unrecorded(event[k])' /\ \A f : Unrecorded(f) => Unrecorded(f)'
        BY <3>1, SameLog DEF Unrecorded
      <4>2. \A f \in Events : outbox'[f] = "pending" => Unrecorded(f)'
        BY <3>2, <4>1 DEF EvidenceInv, RecordedInv
      <4> QED BY <3>1, <3>3, <4>1, <4>2, Logs DEF EvidenceInv, RecordedInv
    <3>6. AnswersLeaveEvidence' /\ OnceUnlessDoubtful'
      BY <1>0, <3>1, <3>2, Logs, SameLog DEF EvidenceInv, AnswersLeaveEvidence, TypeOK
    <3> QED BY <1>0, <3>4, <3>5, <3>6 DEF EvidenceInv
  <2>5. CASE RetryLater(k) \/ RetryLaterFails(k)
    <3>1. pc[k] = "error" /\ event[k] \in Events /\ (Reschedule(event[k]) \/ UNCHANGED outbox)
      BY <1>0, <1>b, <2>5 DEF RetryLater, RetryLaterFails, TypeInv, Writing
    <3>2. /\ outbox' = outbox \/ \E s \in {"pending", "failed"} :
                                     outbox' = [outbox EXCEPT ![event[k]] = s]
          /\ outbox'[event[k]] = "none" => outbox[event[k]] = "none"
      BY <1>0, <3>1 DEF Reschedule, NextStatus, TypeOK
    <3> QED BY <1>0, <2>5, <3>1, <3>2, PutsAway DEF RetryLater, RetryLaterFails
  <2> QED BY <1>4, <2>1, <2>2, <2>3, <2>4, <2>5 DEF Worker
<1>5. ASSUME NEW v \in Auditors, Auditor(v) PROVE EvidenceInv'
  <2>1. CASE StartVerify(v) \/ VerifyPage(v)
    <3>1. /\ UNCHANGED <<log, event, outbox, batch, issued, answered, doubtful, lost>>
          /\ pc' = pc \/ (pc[v] = "idle" /\ pc' = [pc EXCEPT ![v] = "verifying"])
      BY <2>1 DEF StartVerify, VerifyPage
    <3> QED BY <1>0, <1>a, <3>1, Moves DEF Writing, TypeOK
  <2>2. CASE VerifyLastPage(v)
    BY <1>0, <1>a, <2>2, Issues DEF VerifyLastPage, Writing
  <2>3. CASE VerifyAnswer(v)
    BY <1>0, <1>a, <2>3, Finishes DEF VerifyAnswer
  <2> QED BY <1>5, <2>1, <2>2, <2>3 DEF Auditor
<1>6. CASE UNCHANGED vars
  BY <1>0, <1>6, Moves DEF vars
<1> QED BY <1>1, <1>2, <1>3, <1>4, <1>5, <1>6 DEF Next

\* Who is responsible for an event, and what it knows of it: inductive, for all constants.
THEOREM EvidenceInvariance == Spec => []EvidenceInv
<1>1. Init => EvidenceInv
  <2>1. ASSUME Init PROVE EvidenceInv
    <3>1. /\ TypeInv /\ log = <<>> /\ Len(log) = 0
          /\ \A a \in Actors : Own(a) = {} /\ pc[a] = "idle"
      BY <2>1, TypeInit DEF Init, Own, Writing, Actors
    <3>2. \A e : ~Logged(e)
      BY <3>1 DEF Logged
    <3>3. WorkersInv /\ OwnedOnce /\ UnissuedInv
      BY <2>1, <3>1, <3>2 DEF Init, Actors, WorkersInv, OwnedOnce, UnissuedInv
    <3>4. RecordedInv /\ AnswersLeaveEvidence /\ OnceUnlessDoubtful
      BY <2>1, <3>1, <3>2 DEF Init, RecordedInv, AnswersLeaveEvidence, OnceUnlessDoubtful
    <3> QED BY <3>1, <3>3, <3>4 DEF EvidenceInv
  <2> QED BY <2>1
<1>2. EvidenceInv /\ [Next]_vars => EvidenceInv'
  BY EvidenceStep
<1> QED BY <1>1, <1>2, PTL DEF Spec

\* Whoever was told "done" left evidence of it: an audit row, an outbox row, or the report
\* that both writes failed (appendAuditEventOrEnqueueRetry).
THEOREM AnsweredIsEvidenced == Spec => []AnswersLeaveEvidence
<1>1. EvidenceInv => AnswersLeaveEvidence
  BY DEF EvidenceInv
<1> QED BY <1>1, EvidenceInvariance, PTL

\* The outbox records no event twice, however many workers run, whatever fails and whenever
\* the backend crashes, unless the outcome of a commit or of a delete went unheard.
THEOREM RecordedOnce == Spec => []OnceUnlessDoubtful
<1>1. EvidenceInv => OnceUnlessDoubtful
  BY DEF EvidenceInv
<1> QED BY <1>1, EvidenceInvariance, PTL

===============================================================================
