---------------------------- MODULE SessionsProofs ----------------------------
(***************************************************************************)
(* The sessions of an account for every number of browsers, handlers,      *)
(* requests and faults.                                                    *)
(***************************************************************************)
EXTENDS Sessions, TLAPS

(* What a handler knows where it stands.                                     *)
Shape ==
    \A h \in Handlers :
        /\ pc[h] \in {"lock", "rotate", "logout", "check"} => presented[h] \in Tokens
        /\ pc[h] = "check" => fresh[h] \in Tokens
        /\ pc[h] = "password" => kind[h] \in {"change", "reset"}
        /\ pc[h] = "disable" => kind[h] = "disable"
        /\ pc[h] # "idle" /\ kind[h] \in {"login", "refresh", "change"} => client[h] \in Browsers

(* A row about to be rotated is held by one transaction alone ...            *)
RotationIsExclusive ==
    \A g, h \in Handlers : pc[g] = "rotate" /\ Holds(h, presented[g]) => g = h

(* ... and so is still unrevoked.                                            *)
RotatedRowIsUnrevoked == \A h \in Handlers : pc[h] = "rotate" => presented[h] \in Unrevoked

(* A chain has one row at most that is not rotated, and a token that is not  *)
(* inserted is in no chain but its own.                                      *)
LinearChains ==
    \A t, u \in Tokens :
        t # u /\ chain[t] = chain[u] => row[t] = "rotated" \/ row[u] = "rotated"
FreshChains ==
    \A t, u \in Tokens : row[t] = "none" => chain[t] = t /\ (u # t => chain[u] # t)

(* The inductive invariant.  That chains are linear rests on the row lock;    *)
(* the two properties about forced sign-outs are inductive beside it.         *)
SInv ==
    /\ TypeOK
    /\ Shape
    /\ RotationIsExclusive
    /\ RotatedRowIsUnrevoked
    /\ LinearChains
    /\ FreshChains
    /\ ForcedSignOutIsComplete
    /\ DisabledHoldsNoSession

------------------------------------------------------------------------------
(* Types.                                                                     *)

\* Initially SInv holds.
LEMMA InitSInv == Init => SInv
<1> SUFFICES ASSUME Init PROVE SInv OBVIOUS
<1>1. TypeOK
  BY SessionsAssumption DEF Init, TypeOK, Tokens, None, RowStates, Places, Kinds, Excuses
<1>2. Shape /\ RotationIsExclusive /\ RotatedRowIsUnrevoked
  BY DEF Init, Shape, RotationIsExclusive, RotatedRowIsUnrevoked
<1>3. LinearChains /\ FreshChains BY DEF Init, LinearChains, FreshChains
<1>4. ForcedSignOutIsComplete /\ DisabledHoldsNoSession
  BY DEF Init, ForcedSignOutIsComplete, DisabledHoldsNoSession, Live
<1> QED BY <1>1, <1>2, <1>3, <1>4 DEF SInv

\* Every step keeps the types and what a handler knows.
LEMMA TypesStep == TypeOK /\ Shape /\ [Next]_vars => TypeOK' /\ Shape'
<1> SUFFICES ASSUME TypeOK, Shape, [Next]_vars PROVE TypeOK' /\ Shape' OBVIOUS
<1> USE SessionsAssumption DEF TypeOK, Shape, Goto
<1>1. ASSUME NEW h \in Handlers, Begin(h) PROVE TypeOK' /\ Shape'
  <2> USE DEF Start, From, rows, account, browsers, Kinds, Places
  <2>1. CASE Login(h) BY <2>1 DEF Login
  <2>2. CASE Refresh(h) BY <2>2 DEF Refresh
  <2>3. CASE Logout(h) BY <2>3 DEF Logout
  <2>4. CASE ChangePassword(h) BY <2>4 DEF ChangePassword
  <2>5. CASE ResetPassword(h) BY <2>5 DEF ResetPassword, Admin
  <2>6. CASE Disable(h) BY <2>6 DEF Disable, Admin
  <2>7. CASE Enable(h) BY <2>7 DEF Enable, Admin
  <2> QED BY <1>1, <2>1, <2>2, <2>3, <2>4, <2>5, <2>6, <2>7 DEF Begin
<1>2. ASSUME NEW h \in Handlers, Proceed(h) PROVE TypeOK' /\ Shape'
  <2> USE DEF rows, account, browsers, request, Places
  <2>1. CASE IssueRefreshToken(h) BY <2>1 DEF IssueRefreshToken, Insert, RowStates, Excuses
  <2>2. CASE LockRow(h) BY <2>2 DEF LockRow
  <2>3. CASE Rotate(h) BY <2>3 DEF Rotate, Insert, RowStates, Excuses
  <2>4. CASE CheckStatus(h) BY <2>4 DEF CheckStatus
  <2>5. CASE RevokeRefreshToken(h) BY <2>5 DEF RevokeRefreshToken, RowStates
  <2>6. CASE SetPassword(h) BY <2>6 DEF SetPassword
  <2>7. CASE Snapshot(h) BY <2>7 DEF Snapshot, Unrevoked
  <2>8. CASE Sweep(h) BY <2>8 DEF Sweep, AfterSweep, RowStates
  <2>9. CASE SetDisabled(h)
    <3>1. TypeOK'
      <4>1. active' \in BOOLEAN BY <2>9, Zenon DEF SetDisabled
      <4>5. era' \in Nat BY <2>9 DEF SetDisabled
      <4>2. pc' \in [Handlers -> Places] BY <2>9 DEF SetDisabled
      <4>3. UNCHANGED <<row, cookie, access, kind, client, presented, view, fresh, basis,
                        chain, grade, renewed, excuse, started, faults>>
        BY <2>9 DEF SetDisabled
      <4> QED BY <4>1, <4>2, <4>3, <4>5
    <3>2. pc[h] = "disable" /\ pc' = [pc EXCEPT ![h] = "snapshot"] /\ UNCHANGED <<kind, client, presented, fresh>>
      BY <2>9 DEF SetDisabled
    <3>3. Shape' BY <3>2
    <3> QED BY <3>1, <3>3
  <2>10. CASE SetActive(h) BY <2>10 DEF SetActive
  <2>11. CASE Answer(h) BY <2>11 DEF Answer, Finish, SetCookie, Kinds
  <2>12. CASE Refuse(h) BY <2>12 DEF Refuse, Finish, SetCookie, Kinds
  <2> QED BY <1>2, <2>1, <2>2, <2>3, <2>4, <2>5, <2>6, <2>7, <2>8, <2>9, <2>10, <2>11,
             <2>12 DEF Proceed
<1>3. ASSUME NEW h \in Handlers, AuditFails(h) PROVE TypeOK' /\ Shape'
  BY <1>3 DEF AuditFails, Finish, SetCookie, rows, account, Kinds, Places
<1>4. ASSUME NEW h \in Handlers, StatementFails(h) PROVE TypeOK' /\ Shape'
  BY <1>4 DEF StatementFails, account, browsers, request, Excuses, Places
<1>5. ASSUME NEW h \in Handlers, ResponseLost(h) PROVE TypeOK' /\ Shape'
  BY <1>5 DEF ResponseLost, Finish, rows, account, browsers, Kinds, Places
<1>6. CASE ExpireToken
  BY <1>6 DEF ExpireToken, account, browsers, request, RowStates, Live
<1>7. CASE UNCHANGED vars BY <1>7 DEF vars
<1> QED BY <1>1, <1>2, <1>3, <1>4, <1>5, <1>6, <1>7 DEF Next

------------------------------------------------------------------------------
(* The row lock.                                                              *)

\* What every step but LockRow does to the locks: none is taken, and no row is
\* revoked under a transaction that is to rotate it.
LocksKept ==
    /\ \A g \in Handlers, t \in Tokens : Holds(g, t)' => Holds(g, t)
    /\ \A g \in Handlers : pc'[g] = "rotate" =>
          /\ pc[g] = "rotate" /\ presented'[g] = presented[g]
          /\ presented[g] \in Unrevoked => presented[g] \in Unrevoked'

\* A new request takes no lock.
LEMMA BeginKeepsLocks ==
    ASSUME TypeOK, Shape, NEW h \in Handlers, Begin(h)
    PROVE  LocksKept /\ UNCHANGED rows
<1> USE DEF Start, From, Goto, rows, Holds, LocksKept, TypeOK, Unrevoked
<1>1. CASE Login(h) BY <1>1 DEF Login
<1>2. CASE Refresh(h) BY <1>2 DEF Refresh
<1>3. CASE Logout(h) BY <1>3 DEF Logout
<1>4. CASE ChangePassword(h) BY <1>4 DEF ChangePassword
<1>5. CASE ResetPassword(h) BY <1>5 DEF ResetPassword, Admin
<1>6. CASE Disable(h) BY <1>6 DEF Disable, Admin
<1>7. CASE Enable(h) BY <1>7 DEF Enable, Admin
<1> QED BY <1>1, <1>2, <1>3, <1>4, <1>5, <1>6, <1>7 DEF Begin

\* Neither does a request that goes on, but for LockRow.
LEMMA ProceedKeepsLocks ==
    ASSUME TypeOK, Shape, RotationIsExclusive, NEW h \in Handlers, Proceed(h), ~LockRow(h)
    PROVE  LocksKept
<1> USE DEF Goto, rows, account, browsers, request, Holds, LocksKept, TypeOK, Unrevoked, Shape
<1>1. CASE IssueRefreshToken(h) BY <1>1 DEF IssueRefreshToken, Insert, IsNext
<1>2. CASE Rotate(h)
  <2>1. \A g \in Handlers \ {h} : pc[g] = "rotate" => presented[g] # presented[h]
    BY <1>2 DEF Rotate, RotationIsExclusive
  <2> QED BY <1>2, <2>1 DEF Rotate, Insert, IsNext
<1>3. CASE CheckStatus(h) BY <1>3 DEF CheckStatus, None, Tokens
<1>4. CASE RevokeRefreshToken(h) BY <1>4 DEF RevokeRefreshToken, RowFree
<1>5. CASE SetPassword(h) BY <1>5 DEF SetPassword
<1>6. CASE Snapshot(h) BY <1>6 DEF Snapshot
<1>7. CASE Sweep(h) BY <1>7 DEF Sweep, AfterSweep, RowFree, Swept
<1>8. CASE SetDisabled(h) BY <1>8 DEF SetDisabled
<1>9. CASE SetActive(h) BY <1>9 DEF SetActive
<1>10. CASE Answer(h) BY <1>10 DEF Answer, Finish
<1>11. CASE Refuse(h) BY <1>11 DEF Refuse, Finish
<1> QED BY <1>1, <1>2, <1>3, <1>4, <1>5, <1>6, <1>7, <1>8, <1>9, <1>10, <1>11 DEF Proceed

\* Nor a failure or an expiry.
LEMMA OthersKeepLocks ==
    ASSUME TypeOK, \/ ExpireToken
                   \/ \E h \in Handlers : AuditFails(h) \/ StatementFails(h) \/ ResponseLost(h)
                   \/ UNCHANGED vars
    PROVE  LocksKept
<1> USE DEF Goto, Finish, rows, account, browsers, request, Holds, LocksKept, TypeOK, Unrevoked
<1>1. ASSUME NEW h \in Handlers, AuditFails(h) PROVE LocksKept BY <1>1 DEF AuditFails
<1>2. ASSUME NEW h \in Handlers, StatementFails(h) PROVE LocksKept BY <1>2 DEF StatementFails
<1>3. ASSUME NEW h \in Handlers, ResponseLost(h) PROVE LocksKept BY <1>3 DEF ResponseLost
<1>4. CASE ExpireToken BY <1>4 DEF ExpireToken, Live
<1>5. CASE UNCHANGED vars BY <1>5 DEF vars
<1> QED BY <1>1, <1>2, <1>3, <1>4, <1>5

\* LockRow waits until the row is free, so a rotation has its row to itself, and
\* the row is unrevoked until then.
LEMMA RotationStep ==
    ASSUME TypeOK, Shape, RotationIsExclusive, RotatedRowIsUnrevoked, [Next]_vars
    PROVE  RotationIsExclusive' /\ RotatedRowIsUnrevoked'
<1>1. CASE LocksKept
  BY <1>1 DEF LocksKept, RotationIsExclusive, RotatedRowIsUnrevoked, Shape
<1>2. ASSUME NEW h \in Handlers, LockRow(h)
      PROVE  RotationIsExclusive' /\ RotatedRowIsUnrevoked'
  <2>1. \A g \in Handlers \ {h} : pc'[g] = pc[g] BY <1>2 DEF LockRow, Goto, TypeOK
  <2>2. UNCHANGED <<row, presented, kind, fresh>> BY <1>2 DEF LockRow, request, rows
  <2>3. \A g \in Handlers \ {h} : ~Holds(g, presented[h]) BY <1>2 DEF LockRow, RowFree
  <2>4. RotationIsExclusive'
    BY <2>1, <2>2, <2>3 DEF RotationIsExclusive, Holds
  <2>5. pc'[h] = "rotate" => presented[h] \in Unrevoked
    BY <1>2 DEF LockRow, Goto, TypeOK, Shape, Unrevoked
  <2>6. RotatedRowIsUnrevoked'
    BY <2>1, <2>2, <2>5 DEF RotatedRowIsUnrevoked, Unrevoked
  <2> QED BY <2>4, <2>6
<1> QED BY <1>1, <1>2, BeginKeepsLocks, ProceedKeepsLocks, OthersKeepLocks DEF Next

------------------------------------------------------------------------------
(* Chains.                                                                    *)

\* What every step but the two insertions does to the rows: a rotated row stays so,
\* an inserted one does not go, and no chain changes.
RowsForward ==
    /\ \A t \in Tokens : row[t] = "rotated" => row'[t] = "rotated"
    /\ \A t \in Tokens : row'[t] = "none" => row[t] = "none"
    /\ UNCHANGED chain

\* Both facts about chains outlast such a step.
LEMMA ForwardKeepsChains ==
    ASSUME LinearChains, FreshChains, RowsForward
    PROVE  LinearChains' /\ FreshChains'
BY DEF LinearChains, FreshChains, RowsForward

\* An insertion begins a chain or, at a rotation, takes its row's place in one.
LEMMA ChainStep ==
    ASSUME TypeOK, Shape, RotatedRowIsUnrevoked, LinearChains, FreshChains, [Next]_vars
    PROVE  LinearChains' /\ FreshChains'
<1> USE DEF rows, TypeOK, Unrevoked
<1>1. ASSUME NEW h \in Handlers, Begin(h) PROVE RowsForward
  BY <1>1, BeginKeepsLocks DEF RowsForward
<1>2. ASSUME NEW h \in Handlers, IssueRefreshToken(h) PROVE LinearChains' /\ FreshChains'
  <2>1. PICK t \in Tokens : /\ IsNext(t)
                            /\ row' = [row EXCEPT ![t] = "valid"]
                            /\ chain' = [chain EXCEPT ![t] = t]
    BY <1>2 DEF IssueRefreshToken, Insert
  <2>2. chain' = chain BY <2>1 DEF FreshChains, IsNext
  <2> QED BY <2>1, <2>2 DEF LinearChains, FreshChains, IsNext
<1>3. ASSUME NEW h \in Handlers, Rotate(h) PROVE LinearChains' /\ FreshChains'
  <2> DEFINE old == presented[h]
  <2>1. PICK t \in Tokens : /\ IsNext(t)
                            /\ row' = [row EXCEPT ![old] = "rotated", ![t] = "valid"]
                            /\ chain' = [chain EXCEPT ![t] = chain[old]]
    BY <1>3 DEF Rotate, Insert
  <2>2. old \in Tokens /\ row[old] \in {"valid", "expired"} /\ old # t
    BY <1>3, <2>1 DEF Rotate, RotatedRowIsUnrevoked, IsNext
  <2> HIDE DEF old
  <2>3. row'[old] = "rotated" /\ row'[t] = "valid"
        /\ \A u \in Tokens \ {old, t} : row'[u] = row[u] /\ chain'[u] = chain[u]
    BY <2>1, <2>2
  <2>4. chain'[old] = chain[old] /\ chain'[t] = chain[old] BY <2>1, <2>2
  <2>5. ASSUME NEW u \in Tokens, NEW v \in Tokens, u # v, chain'[u] = chain'[v]
        PROVE  row'[u] = "rotated" \/ row'[v] = "rotated"
    <3>1. CASE u = old \/ v = old BY <3>1, <2>3
    <3>2. CASE u = t /\ v # old BY <3>2, <2>2, <2>3, <2>4, <2>5 DEF LinearChains
    <3>3. CASE v = t /\ u # old BY <3>3, <2>2, <2>3, <2>4, <2>5 DEF LinearChains
    <3>4. CASE {u, v} \cap {old, t} = {} BY <3>4, <2>3, <2>5 DEF LinearChains
    <3> QED BY <3>1, <3>2, <3>3, <3>4
  <2>6. LinearChains' BY <2>5 DEF LinearChains
  <2>7. ASSUME NEW v \in Tokens, row'[v] = "none"
        PROVE  chain'[v] = v /\ \A u \in Tokens \ {v} : chain'[u] # v
    <3>1. v \notin {old, t} /\ row[v] = "none" BY <2>3, <2>7
    <3> QED BY <3>1, <2>2, <2>3, <2>4 DEF FreshChains
  <2> QED BY <2>6, <2>7 DEF FreshChains
<1>4. ASSUME NEW h \in Handlers, Proceed(h), ~IssueRefreshToken(h), ~Rotate(h)
      PROVE  RowsForward
  <2> USE DEF RowsForward
  <2>1. CASE RevokeRefreshToken(h) BY <2>1 DEF RevokeRefreshToken
  <2>2. CASE Sweep(h) BY <2>2 DEF Sweep, Swept
  <2>3. CASE UNCHANGED rows BY <2>3
  <2> QED BY <1>4, <2>1, <2>2, <2>3
          DEF Proceed, LockRow, CheckStatus, SetPassword, Snapshot, SetDisabled, SetActive,
              Answer, Refuse
<1>5. ASSUME \/ ExpireToken
             \/ \E h \in Handlers : AuditFails(h) \/ StatementFails(h) \/ ResponseLost(h)
             \/ UNCHANGED vars
      PROVE  RowsForward
  BY <1>5 DEF RowsForward, ExpireToken, Live, AuditFails, StatementFails, ResponseLost, vars
<1> QED BY <1>1, <1>2, <1>3, <1>4, <1>5, ForwardKeepsChains DEF Next

------------------------------------------------------------------------------
(* Forced sign-outs.                                                          *)

\* One end is as good as another for a live token: it is ended by a sweep under way.
Ending(h, t) == Sweeping(h) /\ (pc[h] = "sweep" => t \in view[h])

\* What every step but an order to sign out, an insertion, a sweep's own steps, a
\* failure and a status check does: nothing that ends a token goes away, and no
\* token comes to need an end.
EndsKept ==
    /\ \A t \in Tokens, g \in Handlers : Ending(g, t) => Ending(g, t)'
    /\ \A g \in Handlers : pc[g] = "check" => pc'[g] = "check"
    /\ Live' \subseteq Live
    /\ UNCHANGED <<grade, excuse, era>>
    /\ ~active' => ~active

\* Both properties outlast such a step.
LEMMA EndsKeptSuffices ==
    ASSUME ForcedSignOutIsComplete, DisabledHoldsNoSession, EndsKept
    PROVE  ForcedSignOutIsComplete' /\ DisabledHoldsNoSession'
<1>1. \A t \in Tokens : Owed(t) => Owed(t)' BY DEF EndsKept, Ending, Owed
<1>2. Live \subseteq Tokens /\ Live' \subseteq Live BY DEF Live, EndsKept
<1>3. ForcedSignOutIsComplete' BY <1>1, <1>2 DEF ForcedSignOutIsComplete, EndsKept
<1>4. DisabledHoldsNoSession' BY <1>1, <1>2 DEF DisabledHoldsNoSession, EndsKept
<1> QED BY <1>3, <1>4

\* So they do when some sweep is to end every live token.
LEMMA AllOwedSuffices ==
    ASSUME \A t \in Live' : Owed(t)'
    PROVE  ForcedSignOutIsComplete' /\ DisabledHoldsNoSession'
BY DEF ForcedSignOutIsComplete, DisabledHoldsNoSession

\* In particular when a handler is about to take its snapshot.
LEMMA SnapshotSuffices ==
    ASSUME TypeOK, NEW h \in Handlers, Goto(h, "snapshot")
    PROVE  ForcedSignOutIsComplete' /\ DisabledHoldsNoSession'
<1>1. pc'[h] = "snapshot" BY DEF Goto, TypeOK
<1> QED BY <1>1, AllOwedSuffices DEF Owed, Sweeping

\* A step of h that leaves rows, account and views alone, from a place where nothing
\* is ended, keeps the ends.
LEMMA QuietStep ==
    ASSUME TypeOK, NEW h \in Handlers, pc[h] \notin {"snapshot", "sweep", "check"},
           NEW where, Goto(h, where), Live' \subseteq Live,
           UNCHANGED <<grade, excuse, era, view>>, ~active' => ~active
    PROVE  EndsKept
<1>1. \A g \in Handlers \ {h} : pc'[g] = pc[g] BY DEF Goto, TypeOK
<1> QED BY <1>1 DEF EndsKept, Ending, Sweeping

\* A token inserted late has its excuse.
LEMMA IssueStep ==
    ASSUME SInv, NEW h \in Handlers, IssueRefreshToken(h)
    PROVE  ForcedSignOutIsComplete' /\ DisabledHoldsNoSession'
<1> USE DEF TypeOK
<1>1. PICK t \in Tokens :
         /\ row' = [row EXCEPT ![t] = "valid"]
         /\ grade' = [grade EXCEPT ![t] = basis[h]]
         /\ excuse' = [excuse EXCEPT ![t] = IF basis[h] < era \/ ~active THEN "lateIssue"
                                            ELSE "none"]
  BY DEF IssueRefreshToken, Insert
<1>2. /\ \A g \in Handlers \ {h} : pc'[g] = pc[g]
      /\ pc[h] = "issue" /\ UNCHANGED <<active, era, view>>
  BY DEF IssueRefreshToken, Goto, account, SInv
<1>3. \A u \in Tokens : Owed(u) => Owed(u)' BY <1>2 DEF Owed, Sweeping
<1>4. (\E g \in Handlers : pc[g] = "check") => (\E g \in Handlers : pc'[g] = "check") BY <1>2
<1>5. \A u \in Live' \ {t} : u \in Live /\ grade'[u] = grade[u] /\ excuse'[u] = excuse[u]
  BY <1>1 DEF Live, SInv
<1>6. /\ grade'[t] < era' => excuse'[t] = "lateIssue"
      /\ ~active' => excuse'[t] = "lateIssue"
  BY <1>1, <1>2 DEF SInv
<1>7. ForcedSignOutIsComplete'
  BY <1>2, <1>3, <1>5, <1>6 DEF SInv, ForcedSignOutIsComplete, Live
<1>8. DisabledHoldsNoSession'
  BY <1>2, <1>3, <1>4, <1>5, <1>6 DEF SInv, DisabledHoldsNoSession, Live
<1> QED BY <1>7, <1>8

\* A rotated token inherits the need for an excuse; a disabled account is noticed by
\* the check that follows.
LEMMA RotateStep ==
    ASSUME SInv, NEW h \in Handlers, Rotate(h)
    PROVE  ForcedSignOutIsComplete' /\ DisabledHoldsNoSession'
<1> USE DEF TypeOK
<1> DEFINE old == presented[h]
<1>1. PICK t \in Tokens :
         /\ row' = [row EXCEPT ![old] = "rotated", ![t] = "valid"]
         /\ grade' = [grade EXCEPT ![t] = grade[old]]
         /\ excuse' = [excuse EXCEPT ![t] = IF grade[old] < era \/ excuse[old] # "none"
                                            THEN "lateRotation" ELSE "none"]
  BY DEF Rotate, Insert
<1>2. /\ \A g \in Handlers \ {h} : pc'[g] = pc[g]
      /\ pc[h] = "rotate" /\ pc'[h] = "check" /\ UNCHANGED <<active, era, view>>
  BY DEF Rotate, Goto, account, SInv
<1>3. \A u \in Tokens : Owed(u) => Owed(u)' BY <1>2 DEF Owed, Sweeping
<1>4. \A u \in Live' \ {t} : u \in Live /\ grade'[u] = grade[u] /\ excuse'[u] = excuse[u]
  BY <1>1 DEF Live, SInv
<1>5. grade'[t] < era' => excuse'[t] = "lateRotation" BY <1>1, <1>2 DEF SInv
<1>6. ForcedSignOutIsComplete'
  BY <1>2, <1>3, <1>4, <1>5 DEF SInv, ForcedSignOutIsComplete, Live
<1>7. DisabledHoldsNoSession' BY <1>2 DEF DisabledHoldsNoSession
<1> QED BY <1>6, <1>7

\* The sweep itself: what it was to end is no longer live.
LEMMA SweepStep ==
    ASSUME SInv, NEW h \in Handlers, Snapshot(h) \/ Sweep(h)
    PROVE  ForcedSignOutIsComplete' /\ DisabledHoldsNoSession'
<1> USE DEF TypeOK
<1>1. CASE Snapshot(h)
  <2>1. pc'[h] = "sweep" /\ view'[h] = Unrevoked /\ row' = row
    BY <1>1 DEF Snapshot, Goto, rows, SInv
  <2>2. \A t \in Live' : t \in Unrevoked BY <2>1 DEF Live, Unrevoked
  <2> QED BY <2>1, <2>2, AllOwedSuffices DEF Owed, Sweeping
<1>2. CASE Sweep(h)
  <2>1. /\ \A g \in Handlers \ {h} : pc'[g] = pc[g] /\ view'[g] = view[g]
        /\ pc[h] = "sweep" /\ UNCHANGED <<active, era, grade, excuse>>
    BY <1>2 DEF Sweep, Goto, account, SInv
  <2>2. \A t \in Live' : t \in Live /\ t \notin view[h]
    BY <1>2 DEF Sweep, Swept, Live, Unrevoked, SInv
  <2>3. \A t \in Live' : Owed(t) => Owed(t)' BY <2>1, <2>2 DEF Owed, Sweeping
  <2>4. (\E g \in Handlers : pc[g] = "check") => (\E g \in Handlers : pc'[g] = "check")
    BY <2>1
  <2>5. ForcedSignOutIsComplete' BY <2>1, <2>2, <2>3 DEF SInv, ForcedSignOutIsComplete
  <2>6. DisabledHoldsNoSession' BY <2>1, <2>2, <2>3, <2>4 DEF SInv, DisabledHoldsNoSession
  <2> QED BY <2>5, <2>6
<1> QED BY <1>1, <1>2

\* A failure spares every token that the handler was to end.
LEMMA FailureStep ==
    ASSUME SInv, NEW h \in Handlers, StatementFails(h)
    PROVE  ForcedSignOutIsComplete' /\ DisabledHoldsNoSession'
<1> USE DEF TypeOK
<1>1. /\ \A g \in Handlers \ {h} : pc'[g] = pc[g] /\ view'[g] = view[g]
      /\ UNCHANGED <<row, active, era, grade>>
  BY DEF StatementFails, Goto, account, SInv
<1>2. Live' = Live BY <1>1 DEF Live
<1>3. CASE Sweeping(h) \/ (pc[h] = "check" /\ ~active)
  <2>1. \A t \in Live' : excuse'[t] = "spared"
    BY <1>2, <1>3 DEF StatementFails, Live, Unrevoked
  <2> QED BY <2>1 DEF ForcedSignOutIsComplete, DisabledHoldsNoSession
<1>4. CASE ~Sweeping(h) /\ (pc[h] = "check" => active)
  <2>1. excuse' = excuse BY <1>4 DEF StatementFails
  <2>2. \A t \in Live : Owed(t) => Owed(t)' BY <1>1, <1>4 DEF Owed, Sweeping
  <2>3. ForcedSignOutIsComplete'
    BY <1>1, <1>2, <2>1, <2>2 DEF SInv, ForcedSignOutIsComplete
  <2>4. ~active => ((\E g \in Handlers : pc[g] = "check")
                    => (\E g \in Handlers : pc'[g] = "check"))
    BY <1>1, <1>4
  <2>5. DisabledHoldsNoSession'
    BY <1>1, <1>2, <2>1, <2>2, <2>4 DEF SInv, DisabledHoldsNoSession
  <2> QED BY <2>3, <2>5
<1> QED BY <1>3, <1>4

\* The status check: of an active account nothing was to end there.
LEMMA StatusStep ==
    ASSUME SInv, NEW h \in Handlers, CheckStatus(h) \/ SetActive(h)
    PROVE  ForcedSignOutIsComplete' /\ DisabledHoldsNoSession'
<1> USE DEF TypeOK
<1>1. CASE CheckStatus(h) /\ ~active
  BY <1>1, SnapshotSuffices DEF CheckStatus, SInv
<1>2. CASE (CheckStatus(h) /\ active) \/ SetActive(h)
  <2>1. /\ \A g \in Handlers \ {h} : pc'[g] = pc[g]
        /\ pc[h] \in {"check", "enable"} /\ active'
        /\ UNCHANGED <<row, era, grade, excuse, view>>
    BY <1>2 DEF CheckStatus, SetActive, Goto, account, rows, SInv
  <2>2. \A t \in Tokens : Owed(t) => Owed(t)' BY <2>1 DEF Owed, Sweeping
  <2>3. ForcedSignOutIsComplete'
    BY <2>1, <2>2 DEF SInv, ForcedSignOutIsComplete, Live
  <2>4. DisabledHoldsNoSession' BY <2>1 DEF DisabledHoldsNoSession
  <2> QED BY <2>3, <2>4
<1> QED BY <1>1, <1>2 DEF CheckStatus

\* The steps that end nothing.
LEMMA QuietSteps ==
    ASSUME SInv, NEW h \in Handlers,
           \/ Begin(h) \/ RevokeRefreshToken(h) \/ Answer(h) \/ Refuse(h) \/ AuditFails(h)
           \/ ResponseLost(h) \/ (LockRow(h) /\ ~Goto(h, "snapshot"))
    PROVE  EndsKept
<1> USE DEF SInv, rows, account
<1>1. CASE Begin(h)
  <2>1. /\ pc[h] = "idle" /\ \E w \in Places : Goto(h, w)
        /\ UNCHANGED <<row, grade, excuse, era, view, active>>
    BY <1>1 DEF Begin, Login, Refresh, Logout, ChangePassword, ResetPassword, Disable, Enable,
                Admin, Start, Places
  <2> QED BY <2>1, QuietStep DEF Live
<1>2. CASE RevokeRefreshToken(h)
  <2>1. Live' \subseteq Live BY <1>2 DEF RevokeRefreshToken, Live, TypeOK
  <2> QED BY <1>2, <2>1, QuietStep DEF RevokeRefreshToken
<1>3. CASE Answer(h) \/ Refuse(h) \/ AuditFails(h) \/ ResponseLost(h)
  <2>1. /\ pc[h] \in {"answer", "refuse"} /\ Goto(h, "idle")
        /\ UNCHANGED <<row, grade, excuse, era, view, active>>
    BY <1>3 DEF Answer, Refuse, AuditFails, ResponseLost, Finish
  <2> QED BY <2>1, QuietStep DEF Live
<1>4. CASE LockRow(h) /\ ~Goto(h, "snapshot")
  <2>1. /\ pc[h] = "lock" /\ \E w \in Places : Goto(h, w)
        /\ UNCHANGED <<row, grade, excuse, era, view, active>>
    BY <1>4 DEF LockRow, Places
  <2> QED BY <2>1, QuietStep DEF Live
<1> QED BY <1>1, <1>2, <1>3, <1>4

\* Every step keeps both properties about forced sign-outs.
LEMMA SignOutStep ==
    ASSUME SInv, [Next]_vars
    PROVE  ForcedSignOutIsComplete' /\ DisabledHoldsNoSession'
<1> DEFINE Kept == ForcedSignOutIsComplete' /\ DisabledHoldsNoSession'
<1>1. EndsKept => Kept BY EndsKeptSuffices DEF SInv
<1>2. ASSUME NEW h \in Handlers, Begin(h) PROVE Kept BY <1>1, <1>2, QuietSteps
<1>3. ASSUME NEW h \in Handlers, Proceed(h) PROVE Kept
  <2>1. CASE IssueRefreshToken(h) BY <2>1, IssueStep
  <2>2. CASE LockRow(h)
    <3>1. CASE Goto(h, "snapshot") BY <3>1, SnapshotSuffices DEF SInv
    <3> QED BY <1>1, <2>2, <3>1, QuietSteps
  <2>3. CASE Rotate(h) BY <2>3, RotateStep
  <2>4. CASE CheckStatus(h) \/ SetActive(h) BY <2>4, StatusStep
  <2>5. CASE SetPassword(h) \/ SetDisabled(h)
    BY <2>5, SnapshotSuffices DEF SetPassword, SetDisabled, SInv
  <2>6. CASE Snapshot(h) \/ Sweep(h) BY <2>6, SweepStep
  <2>7. CASE RevokeRefreshToken(h) \/ Answer(h) \/ Refuse(h) BY <1>1, <2>7, QuietSteps
  <2> QED BY <1>3, <2>1, <2>2, <2>3, <2>4, <2>5, <2>6, <2>7 DEF Proceed
<1>4. ASSUME NEW h \in Handlers, AuditFails(h) \/ ResponseLost(h) PROVE Kept
  BY <1>1, <1>4, QuietSteps
<1>5. ASSUME NEW h \in Handlers, StatementFails(h) PROVE Kept BY <1>5, FailureStep
<1>6. CASE ExpireToken
  <2>1. Live' \subseteq Live BY <1>6 DEF ExpireToken, Live, SInv, TypeOK
  <2> QED BY <1>1, <1>6, <2>1 DEF ExpireToken, EndsKept, Ending, Sweeping, account
<1>7. CASE UNCHANGED vars BY <1>1, <1>7 DEF vars, EndsKept, Ending, Sweeping, Live
<1> QED BY <1>2, <1>3, <1>4, <1>5, <1>6, <1>7 DEF Next

------------------------------------------------------------------------------
(* The theorems.                                                              *)

\* Every step of the handlers keeps the inductive invariant.
THEOREM SessionsInvariance == Spec => []SInv
<1>1. SInv /\ [Next]_vars => SInv'
  BY TypesStep, RotationStep, ChainStep, SignOutStep DEF SInv
<1> QED BY InitSInv, <1>1, PTL DEF Spec

\* The refresh tokens and the requests keep their types.
THEOREM TypeCorrect == Spec => []TypeOK
<1>1. SInv => TypeOK BY DEF SInv
<1> QED BY SessionsInvariance, <1>1, PTL

\* rotateRefreshToken never double-issues, and nothing is left of a login whose last
\* token was revoked.
THEOREM RotationNeverForks == Spec => []OneTokenPerLogin
<1>1. SInv => OneTokenPerLogin BY DEF SInv, OneTokenPerLogin, LinearChains, Live
<1> QED BY SessionsInvariance, <1>1, PTL

\* revokeAllRefreshTokensForUser ends every session there was at the change.
THEOREM SignOutsAreComplete == Spec => []ForcedSignOutIsComplete
<1>1. SInv => ForcedSignOutIsComplete BY DEF SInv
<1> QED BY SessionsInvariance, <1>1, PTL

\* The status check of POST /refresh leaves a disabled account without sessions.
THEOREM DisabledIsOut == Spec => []DisabledHoldsNoSession
<1>1. SInv => DisabledHoldsNoSession BY DEF SInv
<1> QED BY SessionsInvariance, <1>1, PTL

==============================================================================
