---------------------------- MODULE LlmGateProofs ----------------------------
(***************************************************************************)
(* Safety of the admission gate for every number of clients, every set of  *)
(* limits an administrator may choose and every queue depth.               *)
(***************************************************************************)
EXTENDS LlmGate, FiniteSetTheorems, TLAPS

(* What acquireSlot's argument can be while it matters: a limit that was in  *)
(* force at some time.                                                       *)
CapOK ==
    /\ limit <= peak
    /\ \A r \in Requests : pc[r] \in {"capped", "waiting"} => cap[r] \in 1 .. peak

(* The close listener exists before the gate is asked.                       *)
ListenerOK == \A r \in Requests : pc[r] \in {"settings", "capped"} => signal[r] # "none"

(* The inductive invariant.  CapOK is what WithinPeak needs of a handler that *)
(* acts on a limit it read earlier; QueueExact is what SlotsAccounted needs   *)
(* of the request that receives a released slot; SlotsAccounted is what makes *)
(* the Math.max of release() never matter.                                    *)
IInv ==
    /\ TypeOK
    /\ CapOK
    /\ ListenerOK
    /\ QueueExact
    /\ SlotsAccounted
    /\ QueuedAreOverLimit
    /\ NoAbortedWaiter
    /\ WithinPeak

------------------------------------------------------------------------------
(* The helper on sequences that onAbort's filter is modelled with.            *)

\* Taking position i out of a sequence without repetitions removes exactly the
\* element at i and repeats nothing.
LEMMA WithoutProperties ==
    ASSUME NEW S, NEW s \in Seq(S), NEW i \in 1 .. Len(s),
           \A j, k \in 1 .. Len(s) : s[j] = s[k] => j = k
    PROVE  /\ Without(s, i) \in Seq(S)
           /\ Len(Without(s, i)) = Len(s) - 1
           /\ \A x \in S : (\E j \in 1 .. Len(Without(s, i)) : Without(s, i)[j] = x)
                              <=> (x # s[i] /\ \E j \in 1 .. Len(s) : s[j] = x)
           /\ \A j, k \in 1 .. Len(Without(s, i)) :
                 Without(s, i)[j] = Without(s, i)[k] => j = k
<1> DEFINE w == Without(s, i)
<1>1. Len(s) \in Nat /\ Len(s) >= 1 /\ i \in Nat
  OBVIOUS
<1>2. w \in Seq(S) /\ Len(w) = Len(s) - 1
  <2>1. \A j \in 1 .. Len(s) - 1 : (IF j < i THEN s[j] ELSE s[j + 1]) \in S
    BY <1>1
  <2> QED BY <2>1, <1>1 DEF Without
<1>3. \A j \in 1 .. Len(w) : w[j] = IF j < i THEN s[j] ELSE s[j + 1]
  BY <1>1, <1>2 DEF Without
<1>4. \A j, k \in 1 .. Len(w) : w[j] = w[k] => j = k
  BY <1>1, <1>2, <1>3
<1>5. ASSUME NEW x \in S
      PROVE  (\E j \in 1 .. Len(w) : w[j] = x) <=> (x # s[i] /\ \E j \in 1 .. Len(s) : s[j] = x)
  <2>1. ASSUME NEW j \in 1 .. Len(w), w[j] = x
        PROVE  x # s[i] /\ \E k \in 1 .. Len(s) : s[k] = x
    BY <2>1, <1>1, <1>2, <1>3
  <2>2. ASSUME x # s[i], NEW j \in 1 .. Len(s), s[j] = x
        PROVE  \E k \in 1 .. Len(w) : w[k] = x
    <3>1. CASE j < i
      <4>1. j \in 1 .. Len(w) /\ w[j] = x BY <2>2, <3>1, <1>1, <1>2, <1>3
      <4> QED BY <4>1
    <3>2. CASE j > i
      <4>1. j - 1 \in 1 .. Len(w) /\ w[j - 1] = x BY <2>2, <3>2, <1>1, <1>2, <1>3
      <4> QED BY <4>1
    <3> QED BY <2>2, <3>1, <3>2, <1>1
  <2> QED BY <2>1, <2>2
<1> QED BY <1>2, <1>4, <1>5

------------------------------------------------------------------------------
(* Type correctness.                                                          *)

\* Every handler continuation keeps the types.
LEMMA TypeStep == ASSUME TypeOK, [Next]_vars PROVE TypeOK'
<1> USE DEF TypeOK, Steps, Gate, Settings
<1>1. CASE UpdateSettings
  BY <1>1 DEF UpdateSettings
<1>2. ASSUME NEW r \in Requests, Step(r) PROVE TypeOK'
  <2>1. CASE Submit(r) BY <2>1 DEF Submit
  <2>2. CASE Reject(r) BY <2>2 DEF Reject, Answer, Forget
  <2>3. CASE Listen(r) BY <2>3 DEF Listen
  <2>4. CASE ReadSettings(r) BY <2>4, LimitsAssumption DEF ReadSettings
  <2>5. CASE ProviderDisabled(r) BY <2>5 DEF ProviderDisabled, Answer, Forget
  <2>6. CASE AcquireAborted(r) BY <2>6 DEF AcquireAborted, Answer, Forget
  <2>7. CASE AcquireFree(r) BY <2>7 DEF AcquireFree
  <2>8. CASE AcquireRefused(r) BY <2>8 DEF AcquireRefused, Answer, Forget
  <2>9. CASE AcquireQueued(r) BY <2>9 DEF AcquireQueued
  <2>10. CASE Disconnect(r) BY <2>10 DEF Disconnect
  <2>11. CASE DisconnectQueued(r)
    <3>1. PICK i \in 1 .. Len(queue) : queue' = Without(queue, i)
      BY <2>11 DEF DisconnectQueued
    <3>2. \A j \in 1 .. Len(queue) - 1 :
             (IF j < i THEN queue[j] ELSE queue[j + 1]) \in Requests
      OBVIOUS
    <3>3. queue' \in Seq(Requests)
      BY <3>1, <3>2 DEF Without
    <3> QED BY <2>11, <3>3 DEF DisconnectQueued, Forget
  <2>12. CASE GenerateStream(r) BY <2>12 DEF GenerateStream
  <2>13. CASE Release(r)
    <3>1. SlotsAfterRelease \in Nat BY DEF SlotsAfterRelease
    <3>2. queue' \in Seq(Requests) BY <2>13 DEF Release
    <3> QED BY <2>13, <3>1, <3>2 DEF Release, Forget
  <2> QED
    BY <1>2, <2>1, <2>2, <2>3, <2>4, <2>5, <2>6, <2>7, <2>8, <2>9, <2>10, <2>11, <2>12, <2>13
       DEF Step, Summarize, ExtractTasks, WorkspaceDigest, EntitySummary,
           GenerateJson, GenerateFail, EndResponse
<1>3. CASE UNCHANGED vars
  BY <1>3 DEF vars
<1> QED BY <1>1, <1>2, <1>3 DEF Next

\* The gate's counter is a natural number, its queue a sequence of requests,
\* and every handler is at one of its awaits, for all constants.
THEOREM TypeCorrect == Spec => []TypeOK
<1>1. Init => TypeOK
  BY LimitsAssumption DEF Init, TypeOK, Steps
<1>2. TypeOK /\ [Next]_vars => TypeOK'
  BY TypeStep
<1> QED BY <1>1, <1>2, PTL DEF Spec

------------------------------------------------------------------------------
(* The inductive invariant.                                                   *)

LEMMA HoldersFinite == IsFiniteSet(Holders) /\ IsFiniteSet(Holders')
BY RequestsAssumption, FS_Subset DEF Holders

\* A continuation that neither takes nor gives a slot and leaves the queue
\* alone keeps the invariant.
LEMMA QuietStep ==
    ASSUME IInv, TypeOK',
           UNCHANGED <<inFlight, queue>>, peak' >= peak, Holders' = Holders,
           \A q \in Requests : pc'[q] = "waiting" <=> pc[q] = "waiting",
           \A q \in Requests : pc[q] = "waiting" => cap'[q] = cap[q] /\ signal'[q] = signal[q],
           \A q \in Requests : pc'[q] = "capped" => cap'[q] \in 1 .. peak',
           limit' <= peak',
           \A q \in Requests : pc'[q] \in {"settings", "capped"} => signal'[q] # "none"
    PROVE  IInv'
<1> USE DEF IInv
<1>0. peak \in Nat /\ peak' \in Nat
  BY LimitsAssumption DEF TypeOK
<1>7. ListenerOK'
  BY DEF ListenerOK, TypeOK
<1>1. CapOK'
  BY <1>0 DEF CapOK, TypeOK
<1>2. QueueExact'
  BY DEF QueueExact
<1>3. SlotsAccounted'
  BY DEF SlotsAccounted
<1>4. QueuedAreOverLimit'
  BY DEF QueuedAreOverLimit
<1>5. NoAbortedWaiter'
  BY DEF NoAbortedWaiter
<1>6. WithinPeak'
  BY <1>0 DEF WithinPeak, TypeOK
<1> QED BY <1>1, <1>2, <1>3, <1>4, <1>5, <1>6, <1>7

\* acquireSlot grants a free slot.
LEMMA AcquireFreeStep ==
    ASSUME IInv, TypeOK', NEW r \in Requests, AcquireFree(r) PROVE IInv'
<1> USE DEF IInv, AcquireFree, HasFreeSlot, Settings
<1>0. peak \in Nat /\ r \notin Holders /\ cap[r] \in 1 .. peak
  BY LimitsAssumption DEF TypeOK, Holders, CapOK
<1>7. ListenerOK'
  BY DEF ListenerOK, TypeOK
<1>1. CapOK'
  BY DEF CapOK, TypeOK
<1>2. QueueExact'
  BY DEF QueueExact, TypeOK
<1>3. SlotsAccounted'
  <2>1. Holders' = Holders \cup {r}
    BY DEF Holders, TypeOK
  <2> QED BY <2>1, <1>0, HoldersFinite, FS_AddElement DEF SlotsAccounted
<1>4. QueuedAreOverLimit'
  BY DEF QueuedAreOverLimit, TypeOK
<1>5. NoAbortedWaiter'
  BY DEF NoAbortedWaiter, TypeOK
<1>6. WithinPeak'
  BY <1>0 DEF WithinPeak, TypeOK
<1> QED BY <1>1, <1>2, <1>3, <1>4, <1>5, <1>6, <1>7

\* acquireSlot appends an entry.
LEMMA AcquireQueuedStep ==
    ASSUME IInv, TypeOK', NEW r \in Requests, AcquireQueued(r) PROVE IInv'
<1> USE DEF IInv, AcquireQueued, HasFreeSlot, QueueIsFull, Settings
<1>0. peak \in Nat /\ cap[r] \in 1 .. peak /\ Holders' = Holders
  BY LimitsAssumption DEF TypeOK, Holders, CapOK
<1>7. ListenerOK'
  BY DEF ListenerOK, TypeOK
<1>1. CapOK'
  BY <1>0 DEF CapOK, TypeOK
<1>2. QueueExact'
  <2>1. \A i \in 1 .. Len(queue) : queue[i] # r
    BY DEF QueueExact
  <2>2. Len(queue') = Len(queue) + 1 /\ queue'[Len(queue) + 1] = r
    BY DEF TypeOK
  <2>3. \A i \in 1 .. Len(queue) : queue'[i] = queue[i]
    BY DEF TypeOK
  <2>4. Len(queue) \in Nat
    BY DEF TypeOK
  <2>5. ASSUME NEW q \in Requests
        PROVE  pc'[q] = "waiting" <=> \E i \in 1 .. Len(queue') : queue'[i] = q
    <3>1. CASE q = r BY <3>1, <2>2, <2>4 DEF TypeOK
    <3>2. CASE q # r
      <4>1. pc'[q] = pc[q] BY <3>2 DEF TypeOK
      <4>2. (\E i \in 1 .. Len(queue') : queue'[i] = q) <=> \E i \in 1 .. Len(queue) : queue[i] = q
        BY <3>2, <2>2, <2>3, <2>4
      <4> QED BY <4>1, <4>2 DEF QueueExact
    <3> QED BY <3>1, <3>2
  <2>6. \A i, j \in 1 .. Len(queue') : queue'[i] = queue'[j] => i = j
    BY <2>1, <2>2, <2>3, <2>4 DEF QueueExact
  <2>7. Len(queue') <= QueueMax
    BY <2>2, <2>4, QueueMaxAssumption
  <2> QED BY <2>5, <2>6, <2>7 DEF QueueExact
<1>3. SlotsAccounted'
  BY <1>0 DEF SlotsAccounted
<1>4. QueuedAreOverLimit'
  BY <1>0 DEF QueuedAreOverLimit, TypeOK
<1>5. NoAbortedWaiter'
  <2>1. signal[r] = "live"
    BY DEF ListenerOK, TypeOK
  <2> QED BY <2>1 DEF NoAbortedWaiter, TypeOK
<1>6. WithinPeak'
  BY DEF WithinPeak
<1> QED BY <1>1, <1>2, <1>3, <1>4, <1>5, <1>6, <1>7

\* A close heard in the queue removes exactly the entry of that request.
LEMMA DisconnectQueuedStep ==
    ASSUME IInv, TypeOK', NEW r \in Requests, DisconnectQueued(r) PROVE IInv'
<1> USE DEF IInv, DisconnectQueued, Forget, Settings
<1>0. Holders' = Holders /\ Len(queue) \in Nat
  BY DEF TypeOK, Holders
<1>7. ListenerOK'
  BY DEF ListenerOK, TypeOK
<1>1. CapOK'
  BY DEF CapOK, TypeOK
<1>2. QueueExact'
  <2>1. PICK i \in 1 .. Len(queue) : queue[i] = r /\ queue' = Without(queue, i)
    OBVIOUS
  <2>2. \A j, k \in 1 .. Len(queue) : queue[j] = queue[k] => j = k
    BY DEF QueueExact
  <2>3. queue \in Seq(Requests)
    BY DEF TypeOK
  <2>4. /\ Len(queue') = Len(queue) - 1
        /\ \A x \in Requests : (\E j \in 1 .. Len(queue') : queue'[j] = x)
                 <=> (x # r /\ \E j \in 1 .. Len(queue) : queue[j] = x)
        /\ \A j, k \in 1 .. Len(queue') : queue'[j] = queue'[k] => j = k
    <3> HIDE DEF DisconnectQueued
    <3>1. /\ Len(Without(queue, i)) = Len(queue) - 1
          /\ \A x \in Requests : (\E j \in 1 .. Len(Without(queue, i)) : Without(queue, i)[j] = x)
                   <=> (x # queue[i] /\ \E j \in 1 .. Len(queue) : queue[j] = x)
          /\ \A j, k \in 1 .. Len(Without(queue, i)) :
                Without(queue, i)[j] = Without(queue, i)[k] => j = k
      BY <2>2, <2>3, WithoutProperties
    <3> QED BY <2>1, <3>1
  <2>5. \A x \in Requests : pc'[x] = "waiting" <=> (x # r /\ pc[x] = "waiting")
    BY DEF TypeOK
  <2>6. \A x \in Requests : pc'[x] = "waiting" <=> \E j \in 1 .. Len(queue') : queue'[j] = x
    BY <2>4, <2>5 DEF QueueExact
  <2>7. Len(queue') <= QueueMax
    BY <1>0, <2>4, QueueMaxAssumption DEF QueueExact
  <2> QED BY <2>4, <2>6, <2>7 DEF QueueExact
<1>3. SlotsAccounted'
  BY <1>0 DEF SlotsAccounted
<1>4. QueuedAreOverLimit'
  BY DEF QueuedAreOverLimit, TypeOK
<1>5. NoAbortedWaiter'
  BY DEF NoAbortedWaiter, TypeOK
<1>6. WithinPeak'
  BY DEF WithinPeak
<1> QED BY <1>1, <1>2, <1>3, <1>4, <1>5, <1>6, <1>7

\* release(): with nobody waiting the count goes down with the holder that
\* leaves; otherwise one holder leaves and the head of the queue becomes one.
LEMMA ReleaseStep ==
    ASSUME IInv, TypeOK', NEW r \in Holders, Release(r) PROVE IInv'
<1> USE DEF IInv, Release, Settings
<1>0. /\ r \in Requests /\ pc[r] # "waiting"
      /\ IsFiniteSet(Holders) /\ Cardinality(Holders) # 0
      /\ inFlight \in Nat \ {0}
  <2>1. r \in Requests /\ pc[r] # "waiting"
    BY DEF Holders
  <2>2. Cardinality(Holders) # 0
    BY HoldersFinite, FS_EmptySet
  <2> QED BY <2>1, <2>2, HoldersFinite DEF SlotsAccounted, TypeOK
<1>a. CASE queue = <<>>
  <2>1. HandOver = {} /\ inFlight' = inFlight - 1 /\ queue' = queue
    BY <1>a, <1>0 DEF HandOver, SlotsAfterRelease
  <2>2. \A q \in Requests : pc[q] # "waiting" /\ pc'[q] # "waiting"
    BY <1>a, <1>0, <2>1 DEF QueueExact, TypeOK
  <2>3. Holders' = Holders \ {r}
    BY <2>1, <1>0 DEF Holders
  <2>4. SlotsAccounted'
    BY <2>1, <2>3, <1>0, FS_RemoveElement DEF SlotsAccounted
  <2>5. CapOK' /\ ListenerOK' /\ QueueExact' /\ QueuedAreOverLimit' /\ NoAbortedWaiter'
    BY <1>0, <1>a, <2>1, <2>2 DEF CapOK, ListenerOK, QueueExact, QueuedAreOverLimit, NoAbortedWaiter, TypeOK, Forget
  <2>6. WithinPeak'
    BY <2>1, <1>0, LimitsAssumption DEF WithinPeak, TypeOK
  <2> QED BY <2>4, <2>5, <2>6
<1>b. CASE queue # <<>>
  <2> DEFINE h == Head(queue)
  <2>1. /\ HandOver = {h} /\ inFlight' = inFlight /\ queue' = Tail(queue)
        /\ Len(queue) \in Nat \ {0} /\ h = queue[1] /\ h \in Requests
    BY <1>b DEF HandOver, SlotsAfterRelease, TypeOK
  <2>2. pc[h] = "waiting" /\ h # r
    BY <1>0, <2>1 DEF QueueExact
  <2>3. Len(queue') = Len(queue) - 1 /\ \A i \in 1 .. Len(queue') : queue'[i] = queue[i + 1]
    BY <2>1, <1>b DEF TypeOK
  <2>4. \A q \in Requests : pc'[q] = "waiting" <=> (q # h /\ pc[q] = "waiting")
    BY <2>1, <2>2, <1>0 DEF TypeOK
  <2>5. QueueExact'
    <3>1. ASSUME NEW q \in Requests
          PROVE (\E i \in 1 .. Len(queue') : queue'[i] = q)
                   <=> (q # h /\ \E i \in 1 .. Len(queue) : queue[i] = q)
      <4>1. ASSUME NEW i \in 1 .. Len(queue'), queue'[i] = q
            PROVE  q # h /\ \E j \in 1 .. Len(queue) : queue[j] = q
        BY <4>1, <2>1, <2>3 DEF QueueExact
      <4>2. ASSUME q # h, NEW i \in 1 .. Len(queue), queue[i] = q
            PROVE  \E j \in 1 .. Len(queue') : queue'[j] = q
        <5>1. i - 1 \in 1 .. Len(queue') /\ queue'[i - 1] = q
          BY <4>2, <2>1, <2>3
        <5> QED BY <5>1
      <4> QED BY <4>1, <4>2
    <3>2. \A i, j \in 1 .. Len(queue') : queue'[i] = queue'[j] => i = j
      BY <2>1, <2>3 DEF QueueExact
    <3>3. Len(queue') <= QueueMax
      BY <2>1, <2>3, QueueMaxAssumption DEF QueueExact
    <3> QED BY <2>4, <3>1, <3>2, <3>3 DEF QueueExact
  <2>6. SlotsAccounted'
    <3>1. Holders' = (Holders \ {r}) \cup {h}
      BY <2>1, <2>2, <1>0 DEF Holders
    <3>2. h \notin Holders
      BY <2>2 DEF Holders
    <3>3. IsFiniteSet(Holders \ {r}) /\ Cardinality(Holders \ {r}) = Cardinality(Holders) - 1
      BY <1>0, FS_RemoveElement
    <3>4. Cardinality((Holders \ {r}) \cup {h}) = Cardinality(Holders \ {r}) + 1
      BY <3>2, <3>3, FS_AddElement
    <3> QED BY <3>1, <3>3, <3>4, <2>1, <1>0 DEF SlotsAccounted
  <2>7. CapOK'
    BY <2>1, <2>4, <1>0 DEF CapOK, TypeOK
  <2>8. QueuedAreOverLimit'
    BY <2>1, <2>4 DEF QueuedAreOverLimit, TypeOK
  <2>9. NoAbortedWaiter'
    BY <2>4, <1>0 DEF NoAbortedWaiter, TypeOK, Forget
  <2>10. WithinPeak'
    BY <2>1 DEF WithinPeak
  <2>11. ListenerOK'
    BY <2>1, <1>0 DEF ListenerOK, TypeOK, Forget
  <2> QED BY <2>5, <2>6, <2>7, <2>8, <2>9, <2>10, <2>11
<1> QED BY <1>a, <1>b

\* Every step of the system keeps the inductive invariant.
LEMMA InvariantStep == ASSUME IInv, [Next]_vars PROVE IInv'
<1>0. TypeOK'
  BY TypeStep DEF IInv
<1> USE <1>0 DEF Gate, Settings
<1>t. TypeOK /\ CapOK /\ ListenerOK /\ peak \in Nat
  BY LimitsAssumption DEF IInv, TypeOK
<1>1. CASE UpdateSettings
  <2>1. peak' >= peak /\ peak' \in Nat
    BY <1>1, <1>t, LimitsAssumption DEF UpdateSettings
  <2> QED BY <1>1, <1>t, <2>1, QuietStep DEF UpdateSettings, Holders, CapOK, ListenerOK
<1>2. ASSUME NEW r \in Requests, Step(r) PROVE IInv'
  <2> USE <1>t DEF Holders, CapOK, ListenerOK
  <2>1. CASE Submit(r) BY <2>1, QuietStep DEF Submit, TypeOK
  <2>2. CASE pc[r] \in {"loading", "settings", "capped"} /\ Answer(r)
    BY <2>2, QuietStep DEF Answer, Forget, TypeOK
  <2>3. CASE Listen(r) BY <2>3, QuietStep DEF Listen, TypeOK
  <2>4. CASE ReadSettings(r)
    <3>1. limit \in 1 .. peak
      BY LimitsAssumption DEF TypeOK
    <3> QED BY <2>4, <3>1, QuietStep DEF ReadSettings, TypeOK
  <2>5. CASE Disconnect(r) BY <2>5, QuietStep DEF Disconnect, TypeOK
  <2>6. CASE GenerateStream(r) BY <2>6, QuietStep DEF GenerateStream, TypeOK
  <2>7. CASE AcquireFree(r) BY <2>7, AcquireFreeStep
  <2>8. CASE AcquireQueued(r) BY <2>8, AcquireQueuedStep
  <2>9. CASE DisconnectQueued(r) BY <2>9, DisconnectQueuedStep
  <2>10. CASE pc[r] \in {"generating", "auditing"} /\ Release(r)
    BY <2>10, ReleaseStep
  <2> QED
    BY <1>2, <2>1, <2>2, <2>3, <2>4, <2>5, <2>6, <2>7, <2>8, <2>9, <2>10
       DEF Step, Summarize, ExtractTasks, WorkspaceDigest, EntitySummary, Reject,
           ProviderDisabled, AcquireAborted, AcquireRefused,
           GenerateJson, GenerateFail, EndResponse
<1>3. CASE UNCHANGED vars
  BY <1>3, <1>t, QuietStep DEF vars, Holders, CapOK, ListenerOK, IInv
<1> QED BY <1>1, <1>2, <1>3 DEF Next
------------------------------------------------------------------------------
(* The safety theorems.                                                       *)

\* Nothing holds a slot and nobody waits before the first request arrives.
LEMMA InvariantInit == Init => IInv
<1> SUFFICES ASSUME Init PROVE IInv
  OBVIOUS
<1>1. TypeOK
  BY LimitsAssumption DEF Init, TypeOK, Steps
<1>2. Holders = {}
  BY DEF Init, Holders
<1>3. SlotsAccounted
  BY <1>2, FS_EmptySet DEF Init, SlotsAccounted
<1>4. QueueExact
  BY QueueMaxAssumption DEF Init, QueueExact
<1> QED
  BY <1>1, <1>3, <1>4, LimitsAssumption
     DEF IInv, Init, CapOK, ListenerOK, QueuedAreOverLimit, NoAbortedWaiter, WithinPeak

THEOREM Invariance == Spec => []IInv
<1>1. IInv /\ [Next]_vars => IInv'
  BY InvariantStep
<1> QED BY InvariantInit, <1>1, PTL DEF Spec

\* The slot counter always equals the number of handlers that hold a slot: none
\* leaks on an error path and none is given back twice, for any set of clients.
THEOREM NoSlotLeaks == Spec => []SlotsAccounted
<1>1. IInv => SlotsAccounted
  BY DEF IInv
<1> QED BY Invariance, <1>1, PTL

\* The gate never lets in more generations than the highest limit configured.
THEOREM GateBounds == Spec => []WithinPeak
<1>1. IInv => WithinPeak
  BY DEF IInv
<1> QED BY Invariance, <1>1, PTL

\* The queue always holds exactly the waiting handlers, once each, within bound.
THEOREM QueueHonest == Spec => []QueueExact
<1>1. IInv => QueueExact
  BY DEF IInv
<1> QED BY Invariance, <1>1, PTL

\* Whoever waits found the gate full by its own limit, and it still is: a slot
\* holder whose release will move the queue exists as long as anybody waits.
THEOREM WaitersHaveAHolder == Spec => []QueuedAreOverLimit
<1>1. IInv => QueuedAreOverLimit
  BY DEF IInv
<1> QED BY Invariance, <1>1, PTL

\* No slot is ever handed to a request whose client was heard leaving.
THEOREM AbortedLeave == Spec => []NoAbortedWaiter
<1>1. IInv => NoAbortedWaiter
  BY DEF IInv
<1> QED BY Invariance, <1>1, PTL

\* A newcomer passes waiting requests only with a limit above all of theirs.
THEOREM OvertakingTheorem == Spec => OvertakingNeedsARaise
<1>1. IInv /\ [Next]_vars => [OvertakesByRaise]_vars
  <2> SUFFICES ASSUME IInv, Next, NEW r \in Requests, NEW s \in Requests,
                      pc[r] = "capped", pc'[r] = "generating", pc[s] = "waiting"
               PROVE  cap[s] < cap[r]
    BY DEF OvertakesByRaise
  <2>1. TypeOK /\ QueuedAreOverLimit /\ QueueExact
    BY DEF IInv
  <2>2. ASSUME NEW q \in Requests, Release(q) PROVE FALSE
    <3>1. r \in HandOver /\ queue # <<>>
      BY <2>1, <2>2 DEF Release, TypeOK, HandOver
    <3>2. \E i \in 1 .. Len(queue) : queue[i] = r
      BY <2>1, <3>1 DEF HandOver, TypeOK
    <3> QED BY <2>1, <3>2 DEF QueueExact
  <2>3. PICK q \in Requests : Step(q)
    BY DEF Next, UpdateSettings
  <2>4. AcquireFree(r)
    BY <2>1, <2>2, <2>3
       DEF Step, Submit, Reject, Summarize, ExtractTasks, WorkspaceDigest, EntitySummary, Listen,
           ReadSettings, ProviderDisabled, AcquireAborted, AcquireFree, AcquireRefused,
           AcquireQueued, Disconnect, DisconnectQueued, GenerateStream, GenerateJson,
           GenerateFail, EndResponse, Answer, TypeOK
  <2> QED BY <2>1, <2>4 DEF AcquireFree, HasFreeSlot, QueuedAreOverLimit, TypeOK
<1> QED BY Invariance, <1>1, PTL DEF Spec, OvertakingNeedsARaise

\* Taking one element out keeps the order of the others.
LEMMA WithoutKeepsOrder ==
    ASSUME NEW S, NEW s \in Seq(S), NEW i \in 1 .. Len(s),
           NEW j \in 1 .. Len(s), NEW k \in 1 .. Len(s), j < k, j # i, k # i
    PROVE  \E m, n \in 1 .. Len(Without(s, i)) :
              m < n /\ Without(s, i)[m] = s[j] /\ Without(s, i)[n] = s[k]
<1> DEFINE w == Without(s, i)
           at(x) == IF x < i THEN x ELSE x - 1
<1>1. Len(s) \in Nat /\ i \in Nat /\ j \in Nat /\ k \in Nat
  OBVIOUS
<1>2. Len(w) = Len(s) - 1
  BY <1>1 DEF Without
<1>3. \A x \in 1 .. Len(w) : w[x] = IF x < i THEN s[x] ELSE s[x + 1]
  BY <1>1, <1>2 DEF Without
<1>4. ASSUME NEW x \in 1 .. Len(s), x # i
      PROVE  at(x) \in 1 .. Len(w) /\ w[at(x)] = s[x]
  <2>1. CASE x < i
    <3>1. at(x) = x /\ x \in 1 .. Len(w) BY <1>1, <1>2, <2>1
    <3>2. w[x] = s[x] BY <1>3, <2>1, <3>1
    <3> QED BY <3>1, <3>2
  <2>2. CASE x > i
    <3>1. at(x) = x - 1 /\ x - 1 \in 1 .. Len(w) BY <1>1, <1>2, <2>2
    <3>2. w[x - 1] = s[x - 1 + 1] BY <1>1, <1>3, <2>2, <3>1
    <3>3. w[x - 1] = s[x] BY <1>1, <3>2
    <3> QED BY <3>1, <3>3
  <2> QED BY <1>1, <1>4, <2>1, <2>2
<1>5. at(j) < at(k)
  BY <1>1
<1> QED BY <1>4, <1>5

\* Waiting requests are served, and stay ordered, in the order of arrival,
\* whoever leaves in between.
THEOREM FirstInFirstOut == Spec => FifoOrder
<1>1. IInv /\ [Next]_vars => [KeepsOrder]_vars
  <2> SUFFICES ASSUME IInv, Next, NEW a \in Requests, NEW b \in Requests, Before(a, b)
               PROVE  /\ pc'[b] # "generating"
                      /\ pc'[a] = "waiting" /\ pc'[b] = "waiting" => Before(a, b)'
    BY DEF KeepsOrder
  <2>1. TypeOK /\ QueueExact
    BY DEF IInv
  <2>2. PICK i, j \in 1 .. Len(queue) : i < j /\ queue[i] = a /\ queue[j] = b
    BY DEF Before
  <2>3. pc[a] = "waiting" /\ pc[b] = "waiting" /\ Len(queue) \in Nat \ {0} /\ queue # <<>>
    BY <2>1, <2>2 DEF QueueExact, TypeOK
  <2>4. CASE UNCHANGED queue /\ pc'[b] # "generating"
    BY <2>4 DEF Before
  <2>5. ASSUME NEW q \in Requests, AcquireQueued(q)
        PROVE  pc'[b] # "generating" /\ Before(a, b)'
    <3>1. Len(queue') = Len(queue) + 1 /\ \A n \in 1 .. Len(queue) : queue'[n] = queue[n]
      BY <2>1, <2>5 DEF AcquireQueued, TypeOK
    <3>2. i \in 1 .. Len(queue') /\ j \in 1 .. Len(queue')
      BY <3>1, <2>3
    <3>3. pc'[b] # "generating"
      BY <2>1, <2>3, <2>5 DEF AcquireQueued, TypeOK
    <3> QED BY <2>2, <3>1, <3>2, <3>3 DEF Before
  <2>6. ASSUME NEW q \in Requests, DisconnectQueued(q), pc'[a] = "waiting", pc'[b] = "waiting"
        PROVE  Before(a, b)'
    <3>1. PICK k \in 1 .. Len(queue) : queue[k] = q /\ queue' = Without(queue, k)
      BY <2>6 DEF DisconnectQueued
    <3>2. a # q /\ b # q
      BY <2>1, <2>6 DEF DisconnectQueued, TypeOK
    <3>3. i # k /\ j # k
      BY <3>1, <3>2, <2>2
    <3>4. \E m, n \in 1 .. Len(Without(queue, k)) :
             m < n /\ Without(queue, k)[m] = queue[i] /\ Without(queue, k)[n] = queue[j]
      BY <2>1, <2>2, <3>3, WithoutKeepsOrder DEF TypeOK
    <3> QED BY <3>1, <3>4, <2>2 DEF Before
  <2>7. ASSUME NEW q \in Requests, DisconnectQueued(q)
        PROVE  pc'[b] # "generating"
    BY <2>1, <2>3, <2>7 DEF DisconnectQueued, TypeOK
  <2>8. ASSUME NEW q \in Requests, Release(q)
        PROVE  /\ pc'[b] # "generating"
               /\ pc'[a] = "waiting" => Before(a, b)'
    <3>1. HandOver = {queue[1]} /\ queue' = Tail(queue)
      BY <2>1, <2>3, <2>8 DEF Release, HandOver, TypeOK
    <3>2. b # queue[1]
      BY <2>1, <2>2, <2>3 DEF QueueExact
    <3>3. pc'[b] # "generating"
      BY <3>1, <3>2, <2>3, <2>8 DEF Release
    <3>4. ASSUME pc'[a] = "waiting" PROVE Before(a, b)'
      <4>1. a # queue[1]
        BY <3>1, <3>4, <2>8 DEF Release
      <4>2. i > 1 /\ Len(queue') = Len(queue) - 1
        BY <4>1, <2>1, <2>2, <2>3, <3>1 DEF TypeOK
      <4>3. \A n \in 1 .. Len(queue') : queue'[n] = queue[n + 1]
        BY <2>1, <2>3, <3>1, <4>2 DEF TypeOK
      <4>4. i - 1 \in 1 .. Len(queue') /\ j - 1 \in 1 .. Len(queue') /\ i - 1 < j - 1
        BY <2>2, <2>3, <4>2
      <4>5. queue'[i - 1] = a /\ queue'[j - 1] = b
        BY <2>2, <2>3, <4>2, <4>3, <4>4
      <4> QED BY <4>4, <4>5 DEF Before
    <3> QED BY <3>3, <3>4
  <2>9. CASE UpdateSettings
    BY <2>9, <2>3, <2>4 DEF UpdateSettings, Gate
  <2>10. ASSUME NEW q \in Requests, Step(q)
         PROVE  \/ UNCHANGED queue /\ pc'[b] # "generating"
                \/ AcquireQueued(q) \/ DisconnectQueued(q) \/ Release(q)
    BY <2>1, <2>3, <2>10
       DEF Step, Submit, Reject, Summarize, ExtractTasks, WorkspaceDigest, EntitySummary, Listen,
           ReadSettings, ProviderDisabled, AcquireAborted, AcquireFree, AcquireRefused,
           Disconnect, GenerateStream, GenerateJson, GenerateFail, EndResponse, Answer,
           TypeOK, Gate
  <2> QED BY <2>4, <2>5, <2>6, <2>7, <2>8, <2>9, <2>10 DEF Next
<1> QED BY Invariance, <1>1, PTL DEF Spec, FifoOrder
==============================================================================
