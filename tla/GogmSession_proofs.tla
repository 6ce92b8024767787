--------------------------- MODULE GogmSession_proofs ---------------------------
(***************************************************************************)
(* Theorems about the sessions of GogmSession, for any number of sessions, *)
(* transactions, saves and statements: the inductive invariant, that what  *)
(* callers are told is true, and that the sessions implement the abstract  *)
(* transactions of AcidTransactions.                                       *)
(***************************************************************************)
EXTENDS GogmSession, TLAPS

\* A new session is idle, without a transaction.
LEMMA IInvInit == Init => IInv
  BY DEF Init, TypeOK, DriverInit, DriverTypeOK, Status, Kind, Pc, Call, Told,
         IInv, InFlight, Handle, Kept, Busy, Live

\* What one statement or driver call may do to the driver's variables, for typing.
LEMMA DriverTyped ==
    ASSUME DriverTypeOK, NEW s \in Session, NEW t \in Tx, NEW x \in Save, NEW k \in Kind,
           \/ OpenTx(s, t, k) \/ RunFails(t) \/ CommitOk(t) \/ CommitFails(t)
           \/ RollbackOk(t) \/ RollbackFails(t) \/ CloseDriverSession(s)
           \/ \E n \in 0..Statements : RunOk(t, Pieces(x, n))
    PROVE  DriverTypeOK'
<1> USE DEF DriverTypeOK, Status, Kind, Live
<1>1. CASE OpenTx(s, t, k) BY <1>1 DEF OpenTx
<1>2. CASE RunFails(t) BY <1>2 DEF RunFails
<1>3. CASE CommitOk(t) BY <1>3 DEF CommitOk
<1>4. CASE CommitFails(t) BY <1>4 DEF CommitFails
<1>5. CASE RollbackOk(t) BY <1>5 DEF RollbackOk
<1>6. CASE RollbackFails(t) BY <1>6 DEF RollbackFails
<1>7. CASE CloseDriverSession(s) BY <1>7 DEF CloseDriverSession
<1>8. CASE \E n \in 0..Statements : RunOk(t, Pieces(x, n))
  <2>1. PICK n \in 0..Statements : RunOk(t, Pieces(x, n)) BY <1>8
  <2>2. Pieces(x, n) \subseteq Write BY BoundsAreNat, WritesAreNumbered DEF Pieces
  <2> QED BY <2>1, <2>2 DEF RunOk
<1> QED BY <1>1, <1>2, <1>3, <1>4, <1>5, <1>6, <1>7, <1>8

\* Every action assigns its variables values of their types.
LEMMA TypeStep == IInv /\ [Next]_vars => TypeOK'
<1> SUFFICES ASSUME IInv, [Next]_vars PROVE TypeOK'
  OBVIOUS
<1> DEFINE SessionTypeOK == /\ tx \in [Session -> Tx \cup {Nil}]
                            /\ closed \in [Session -> BOOLEAN]
                            /\ pc \in [Session -> Pc]
                            /\ call \in [Session -> Call]
                            /\ job \in [Session -> Save \cup {Nil}]
                            /\ tries \in [Session -> SUBSET Tx]
                            /\ cur \in [Session -> Tx \cup {Nil}]
                            /\ auto \in [Tx -> Save \cup {Nil}]
                            /\ acked \in [Tx -> SUBSET Save]
                            /\ told \in [Tx -> Told]
<1>0. DriverTypeOK /\ SessionTypeOK BY DEF TypeOK, IInv
<1>a. \A s \in Session : InFlight(s) /\ Handle(s) BY DEF IInv
<1>1. SUFFICES DriverTypeOK' /\ SessionTypeOK' BY DEF TypeOK
<1>2. CASE UNCHANGED vars BY <1>0, <1>2 DEF vars, driverVars, sessionVars, DriverTypeOK
<1>3. ASSUME NEW s \in Session,
             \/ Begin(s) \/ Rollback(s) \/ Commit(s) \/ Close(s) \/ ReadInTx(s) \/ StartRead(s)
             \/ ManagedTransaction(s) \/ Attempt(s) \/ AutoWrite(s) \/ AutoRead(s)
             \/ WorkReturns(s) \/ DriverCommits(s) \/ DriverRollsBack(s) \/ GiveUp(s)
             \/ \E x \in Save : WriteInTx(s, x) \/ StartWrite(s, x)
      PROVE  DriverTypeOK' /\ SessionTypeOK'
  <2> USE DEF Pc, Call, Told, sessionVars
  <2>1. CASE Begin(s)
    <3>1. PICK u \in Tx : OpenTx(s, u, "explicit") /\ tx' = [tx EXCEPT ![s] = u]
      BY <2>1 DEF Begin
    <3> QED BY <1>0, <2>1, <3>1 DEF Begin, OpenTx, DriverTypeOK, Status, Kind
  <2>2. CASE Rollback(s)
    <3>1. DriverTypeOK'
      BY <1>0, <2>2 DEF Rollback, RollbackOk, RollbackFails, HasExplicit, DriverTypeOK, Status
    <3>2. \E a \in {"ok", "rolledback", "error"} : Answer({tx[s]}, a)
      BY <2>2 DEF Rollback
    <3>3. tx' \in [Session -> Tx \cup {Nil}] BY <1>0, <2>2 DEF Rollback
    <3> QED BY <1>0, <2>2, <3>1, <3>2, <3>3 DEF Rollback, Answer
  <2>3. CASE Commit(s)
    <3>1. DriverTypeOK'
      BY <1>0, <2>3 DEF Commit, CommitOk, CommitFails, HasExplicit, DriverTypeOK, Status
    <3>2. \E a \in {"ok", "rolledback", "error"} : Answer({tx[s]}, a)
      BY <2>3 DEF Commit
    <3>3. tx' \in [Session -> Tx \cup {Nil}] BY <1>0, <2>3 DEF Commit
    <3> QED BY <1>0, <2>3, <3>1, <3>2, <3>3 DEF Commit, Answer
  <2>4. CASE Close(s)
    <3>1. DriverTypeOK'
      BY <1>0, <2>4 DEF Close, RollbackOk, RollbackFails, CloseDriverSession, DriverTypeOK, Status
    <3>2. UNCHANGED told \/ \E a \in {"rolledback", "error"} : Answer({tx[s]}, a)
      BY <2>4 DEF Close
    <3>3. told' \in [Tx -> Told] BY <1>0, <3>2 DEF Answer
    <3> QED BY <1>0, <2>4, <3>1, <3>3 DEF Close
  <2>5. CASE ReadInTx(s)
    BY <1>0, <2>5 DEF ReadInTx, RunFails, DriverTypeOK, Status
  <2>6. CASE StartRead(s) \/ ManagedTransaction(s) \/ \E x \in Save : StartWrite(s, x)
    <3>1. PICK c \in {"managed", "write", "read"}, x \in Save \cup {Nil} : EnterDriver(s, c, x)
      BY <2>6 DEF StartRead, ManagedTransaction, StartWrite
    <3>2. DriverTypeOK' BY <1>0, <3>1 DEF EnterDriver, driverVars, DriverTypeOK
    <3> QED BY <1>0, <3>1, <3>2 DEF EnterDriver
  <2>7. CASE Attempt(s)
    <3>1. PICK u \in Tx : /\ OpenTx(s, u, "function") /\ TxWork(s, u)
                          /\ cur' = [cur EXCEPT ![s] = u]
                          /\ tries' = [tries EXCEPT ![s] = @ \cup {u}]
                          /\ auto' = [auto EXCEPT ![u] = job[s]]
      BY <2>7 DEF Attempt
    <3>2. DriverTypeOK' BY <1>0, <3>1 DEF OpenTx, DriverTypeOK, Status, Kind
    <3> QED BY <1>0, <2>7, <3>1, <3>2 DEF Attempt, TxWork
  <2>8. CASE AutoWrite(s) \/ \E x \in Save : WriteInTx(s, x)
    <3>1. PICK u \in Tx, x \in Save : WorkOk(u, x) \/ WorkStops(u, x)
      BY <1>0, <1>a, <2>8 DEF AutoWrite, WriteInTx, InFlight, Busy
    <3>2. \/ RunFails(u)
          \/ \E n \in 0..Statements : RunOk(u, Pieces(x, n))
      BY <3>1, BoundsAreNat DEF WorkOk, WorkStops
    <3>3. DriverTypeOK' BY <1>0, <3>2, DriverTyped DEF Kind
    <3>4. acked' \in [Tx -> SUBSET Save] BY <1>0, <3>1 DEF WorkOk, WorkStops
    <3>5. CASE AutoWrite(s) BY <1>0, <3>3, <3>4, <3>5 DEF AutoWrite
    <3>6. CASE \E y \in Save : WriteInTx(s, y) BY <1>0, <3>3, <3>4, <3>6 DEF WriteInTx
    <3> QED BY <2>8, <3>5, <3>6
  <2>9. CASE AutoRead(s)
    BY <1>0, <2>9 DEF AutoRead, RunFails, driverVars, DriverTypeOK, Status
  <2>10. CASE WorkReturns(s)
    BY <1>0, <2>10 DEF WorkReturns, driverVars, DriverTypeOK
  <2>11. CASE DriverCommits(s)
    <3>1. cur[s] \in Tx BY <1>a, <2>11 DEF DriverCommits, InFlight, Busy
    <3>2. DriverTypeOK'
      BY <1>0, <2>11, <3>1 DEF DriverCommits, CommitOk, CommitFails, DriverTypeOK, Status
    <3>3. CASE Return(s) /\ Answer({cur[s]}, "ok")
      BY <1>0, <2>11, <3>2, <3>3 DEF DriverCommits, Return, Answer
    <3>4. CASE \E p \in {"again", "lost"} : /\ pc' = [pc EXCEPT ![s] = p]
                                            /\ UNCHANGED <<tx, call, job, cur, told>>
      BY <1>0, <2>11, <3>2, <3>4 DEF DriverCommits
    <3> QED BY <2>11, <3>3, <3>4 DEF DriverCommits
  <2>12. CASE DriverRollsBack(s)
    BY <1>0, <2>12 DEF DriverRollsBack, RollbackOk, RollbackFails, DriverTypeOK, Status
  <2>13. CASE GiveUp(s)
    BY <1>0, <2>13 DEF GiveUp, Return, Answer, driverVars, DriverTypeOK
  <2> QED BY <1>3, <2>1, <2>2, <2>3, <2>4, <2>5, <2>6, <2>7, <2>8, <2>9, <2>10, <2>11, <2>12, <2>13
<1> QED BY <1>2, <1>3 DEF Next

\* A step of session s touches its own transactions, and at most one unused one:
\* what the invariant says of the other sessions and of theirs stays true.
LEMMA OthersKeep ==
    ASSUME IInv, TypeOK', NEW s \in Session,
           \A t \in Tx : owner[t] \notin {s, Nil} =>
             status'[t] = status[t] /\ owner'[t] = owner[t] /\ kind'[t] = kind[t],
           \A r \in Session \ {s} :
             /\ tx'[r] = tx[r] /\ closed'[r] = closed[r] /\ pc'[r] = pc[r]
             /\ call'[r] = call[r] /\ job'[r] = job[r] /\ cur'[r] = cur[r]
    PROVE  /\ \A r \in Session \ {s} : InFlight(r)' /\ Handle(r)'
           /\ \A t \in Tx : owner[t] \notin {s, Nil} => Kept(t)'
<1>1. ASSUME NEW r \in Session \ {s} PROVE InFlight(r)' /\ Handle(r)'
  <2>1. InFlight(r) /\ Handle(r) BY DEF IInv
  <2>2. cur[r] # Nil => owner[cur[r]] \notin {s, Nil} BY <2>1, NilIsNothing DEF InFlight
  <2>3. tx[r] # Nil => owner[tx[r]] \notin {s, Nil} BY <2>1, NilIsNothing DEF Handle
  <2>4. cur[r] \in Tx \cup {Nil} /\ tx[r] \in Tx \cup {Nil} BY DEF IInv, TypeOK
  <2>5. /\ tx'[r] = tx[r] /\ closed'[r] = closed[r] /\ pc'[r] = pc[r]
        /\ call'[r] = call[r] /\ job'[r] = job[r] /\ cur'[r] = cur[r]
    OBVIOUS
  <2>6. InFlight(r)'
    <3>1. cur[r] # Nil => /\ owner'[cur[r]] = owner[cur[r]] /\ kind'[cur[r]] = kind[cur[r]]
                          /\ status'[cur[r]] = status[cur[r]]
      BY <2>2, <2>4
    <3> QED BY <2>1, <2>5, <3>1, NilIsNothing DEF InFlight, Busy, Live
  <2>7. closed'[r] => pc'[r] = "idle" /\ tx'[r] = Nil
    <3>1. closed[r] => pc[r] = "idle" /\ tx[r] = Nil BY <2>1, Zenon DEF Handle
    <3>2. closed'[r] => closed[r] BY <2>5, Zenon
    <3> QED BY <2>5, <3>1, <3>2, Zenon
  <2>8. Handle(r)' BY <2>1, <2>3, <2>4, <2>5, <2>7 DEF Handle
  <2> QED BY <2>6, <2>8
<1>2. ASSUME NEW t \in Tx, owner[t] \notin {s, Nil} PROVE Kept(t)'
  <2>1. Kept(t) BY DEF IInv
  <2>2. owner[t] \in Session \ {s} BY <1>2 DEF IInv, TypeOK, DriverTypeOK
  <2> QED BY <1>2, <2>1, <2>2 DEF Kept, Live
<1> QED BY <1>1, <1>2

\* What Commit and Rollback leave of the transaction they are called on ...
LEMMA Ends ==
    ASSUME DriverTypeOK, NEW u \in Tx,
           CommitOk(u) \/ CommitFails(u) \/ RollbackOk(u) \/ RollbackFails(u)
    PROVE  /\ owner' = owner /\ kind' = kind
           /\ ~ Live(u)' /\ (status'[u] = "unused" => status[u] = "unused")
           /\ Applied(u)' => status[u] = "open" \/ Applied(u)
           /\ \A t \in Tx \ {u} : status'[t] = status[t]
<1>1. CASE CommitOk(u) BY <1>1 DEF CommitOk, DriverTypeOK, Live, Applied
<1>2. CASE CommitFails(u) BY <1>2 DEF CommitFails, DriverTypeOK, Live, Applied
<1>3. CASE RollbackOk(u) BY <1>3 DEF RollbackOk, DriverTypeOK, Live, Applied
<1>4. CASE RollbackFails(u) BY <1>4 DEF RollbackFails, DriverTypeOK, Live, Applied
<1> QED BY <1>1, <1>2, <1>3, <1>4

\* ... and what a statement does.
LEMMA Runs ==
    ASSUME DriverTypeOK, NEW u \in Tx, RunFails(u) \/ \E W \in SUBSET Write : RunOk(u, W)
    PROVE  /\ owner' = owner /\ kind' = kind
           /\ \A t \in Tx : /\ Live(t)' <=> Live(t)
                            /\ status'[t] = "unused" <=> status[t] = "unused"
           /\ \A t \in Tx \ {u} : status'[t] = status[t]
<1>1. CASE RunFails(u) BY <1>1 DEF RunFails, DriverTypeOK, Live
<1>2. CASE \E W \in SUBSET Write : RunOk(u, W) BY <1>2 DEF RunOk, DriverTypeOK, Live
<1> QED BY <1>1, <1>2

\* The statements of a write.
LEMMA Works ==
    ASSUME NEW u \in Tx, NEW x \in Save, WorkOk(u, x) \/ WorkStops(u, x)
    PROVE  RunFails(u) \/ \E W \in SUBSET Write : RunOk(u, W)
<1>1. ASSUME NEW n \in 0..Statements PROVE Pieces(x, n) \in SUBSET Write
  BY BoundsAreNat, WritesAreNumbered DEF Pieces
<1>2. Statements \in 0..Statements BY BoundsAreNat
<1> QED BY <1>1, <1>2 DEF WorkOk, WorkStops

\* A step of session s that calls the driver for its transaction u, or not at all,
\* and leaves the other sessions alone, has only s itself to answer for.
LEMMA OwnStep ==
    ASSUME IInv, TypeOK', NEW s \in Session,
           \/ UNCHANGED driverVars
           \/ \E u \in Tx : /\ owner[u] = s
                            /\ owner' = owner /\ kind' = kind
                            /\ Live(u)' => Live(u)
                            /\ status'[u] = "unused" => status[u] = "unused"
                            /\ \A t \in Tx \ {u} : status'[t] = status[t],
           \A r \in Session \ {s} :
             /\ tx'[r] = tx[r] /\ closed'[r] = closed[r] /\ pc'[r] = pc[r]
             /\ call'[r] = call[r] /\ job'[r] = job[r] /\ cur'[r] = cur[r],
           InFlight(s)', Handle(s)',
           \A t \in Tx : owner[t] = s /\ Live(t)' => t \in {tx'[s], cur'[s]}
    PROVE  IInv'
<1>1. /\ owner' = owner /\ kind' = kind
      /\ \A t \in Tx : /\ Live(t)' => Live(t)
                       /\ status'[t] = "unused" => status[t] = "unused"
                       /\ owner[t] # s => status'[t] = status[t]
  <2>1. CASE UNCHANGED driverVars BY <2>1 DEF driverVars, Live
  <2>2. CASE ~ UNCHANGED driverVars
    <3>1. PICK u \in Tx : /\ owner[u] = s
                          /\ owner' = owner /\ kind' = kind
                          /\ Live(u)' => Live(u)
                          /\ status'[u] = "unused" => status[u] = "unused"
                          /\ \A t \in Tx \ {u} : status'[t] = status[t]
      BY <2>2 DEF Live
    <3>2. ASSUME NEW t \in Tx
          PROVE  /\ Live(t)' => Live(t)
                 /\ status'[t] = "unused" => status[t] = "unused"
                 /\ owner[t] # s => status'[t] = status[t]
      BY <3>1 DEF Live
    <3> QED BY <3>1, <3>2
  <2> QED BY <2>1, <2>2
<1>2. /\ \A r \in Session \ {s} : InFlight(r)' /\ Handle(r)'
      /\ \A t \in Tx : owner[t] \notin {s, Nil} => Kept(t)'
  <2>1. \A t \in Tx : owner[t] \notin {s, Nil} =>
          status'[t] = status[t] /\ owner'[t] = owner[t] /\ kind'[t] = kind[t]
    BY <1>1
  <2> QED BY <2>1, OthersKeep
<1>3. ASSUME NEW t \in Tx, owner[t] \in {s, Nil} PROVE Kept(t)'
  <2>1. Kept(t) BY DEF IInv
  <2>2. status'[t] = "unused" => owner'[t] = Nil BY <1>1, <2>1 DEF Kept
  <2>3. ASSUME Live(t)' PROVE owner'[t] = s /\ t \in {tx'[s], cur'[s]}
    <3>1. Live(t) BY <1>1, <2>3
    <3>2. owner[t] = s BY <1>3, <2>1, <3>1, NilIsNothing DEF Kept
    <3> QED BY <1>1, <2>3, <3>2
  <2> QED BY <2>2, <2>3 DEF Kept
<1>4. InFlight(s)' /\ Handle(s)' OBVIOUS
<1> QED BY <1>2, <1>3, <1>4 DEF IInv

\* The transactions of a session: live ones are in s.tx or the newest attempt.
LEMMA LiveOnes ==
    ASSUME IInv, NEW s \in Session, NEW t \in Tx, owner[t] = s, Live(t)
    PROVE  t \in {tx[s], cur[s]}
  BY DEF IInv, Kept

\* Commit and Rollback, whatever they return.
LEMMA Finishing ==
    ASSUME IInv, TypeOK', NEW s \in Session, HasExplicit(s),
           \/ CommitOk(tx[s]) \/ CommitFails(tx[s])
           \/ RollbackOk(tx[s]) \/ RollbackFails(tx[s]),
           tx' \in {tx, [tx EXCEPT ![s] = Nil]},
           UNCHANGED <<closed, pc, call, job, cur>>
    PROVE  IInv'
<1>1. InFlight(s) /\ Handle(s) BY DEF IInv
<1>2. /\ tx[s] \in Tx /\ owner[tx[s]] = s /\ kind[tx[s]] = "explicit"
      /\ TypeOK /\ DriverTypeOK
  BY <1>1 DEF IInv, TypeOK, HasExplicit, Handle
<1>3. pc[s] = "idle" /\ call[s] = "none" /\ cur[s] = Nil
  BY <1>1, <1>2 DEF InFlight, Handle, HasExplicit, CanCall, InManaged
<1>4. PICK u \in Tx : u = tx[s] BY <1>2
<1>5. /\ owner' = owner /\ kind' = kind
      /\ ~ Live(u)' /\ (status'[u] = "unused" => status[u] = "unused")
      /\ \A t \in Tx \ {u} : status'[t] = status[t]
  <2>1. CommitOk(u) \/ CommitFails(u) \/ RollbackOk(u) \/ RollbackFails(u) BY <1>4
  <2> QED BY <1>2, <2>1, Ends
<1>6. \A r \in Session \ {s} : tx'[r] = tx[r]
  BY DEF IInv, TypeOK
<1>7. tx'[s] \in {tx[s], Nil} BY DEF IInv, TypeOK
<1>8. InFlight(s)' BY <1>1, <1>3 DEF InFlight, Busy
<1>9. Handle(s)'
  <2>1. ~ closed'[s] BY <1>2 DEF HasExplicit, CanCall
  <2> QED BY <1>2, <1>3, <1>5, <1>7, <2>1 DEF Handle
<1>10. ASSUME NEW t \in Tx, owner[t] = s, Live(t)' PROVE t \in {tx'[s], cur'[s]}
  <2>1. t # u BY <1>5, <1>10
  <2>2. Live(t) BY <1>5, <1>10, <2>1 DEF Live
  <2>3. t \in {tx[s], cur[s]} BY <1>10, <2>2, LiveOnes
  <2> QED BY <1>2, <1>3, <1>4, <2>1, <2>3, NilIsNothing
<1>11. owner[u] = s /\ (Live(u)' => Live(u)) BY <1>2, <1>4, <1>5
<1> QED BY <1>5, <1>6, <1>8, <1>9, <1>10, <1>11, OwnStep

\* The statements of reads and writes, and the end of the caller's work.
LEMMA Working ==
    ASSUME IInv, TypeOK', NEW s \in Session, NEW u \in Tx, owner[u] = s,
           \/ RunFails(u) \/ \E W \in SUBSET Write : RunOk(u, W)
           \/ UNCHANGED driverVars,
           \/ UNCHANGED pc
           \/ /\ pc[s] = "work"
              /\ pc' \in {[pc EXCEPT ![s] = "return"], [pc EXCEPT ![s] = "fail"]},
           UNCHANGED <<tx, closed, call, job, cur>>
    PROVE  IInv'
<1>1. InFlight(s) /\ Handle(s) /\ TypeOK /\ DriverTypeOK BY DEF IInv, TypeOK
<1>2. /\ owner' = owner /\ kind' = kind
      /\ \A t \in Tx : status'[t] \in {"open", "failed"} <=> status[t] \in {"open", "failed"}
      /\ status'[u] = "unused" => status[u] = "unused"
      /\ \A t \in Tx \ {u} : status'[t] = status[t]
  <2>1. CASE RunFails(u) BY <1>1, <2>1 DEF RunFails, DriverTypeOK
  <2>2. CASE \E W \in SUBSET Write : RunOk(u, W) BY <1>1, <2>2 DEF RunOk, DriverTypeOK
  <2>3. CASE UNCHANGED driverVars BY <2>3 DEF driverVars
  <2> QED BY <2>1, <2>2, <2>3
<1>3. pc'[s] = pc[s] \/ (pc[s] = "work" /\ pc'[s] \in {"return", "fail"})
  BY <1>1 DEF TypeOK
<1>4. \A r \in Session \ {s} : pc'[r] = pc[r] BY <1>1 DEF TypeOK
<1>5. cur[s] \in Tx \cup {Nil} BY <1>1 DEF TypeOK
<1>6. InFlight(s)'
  <2>1. cur[s] # Nil => (status'[cur[s]] \in {"open", "failed"} <=> status[cur[s]] \in {"open", "failed"})
    BY <1>2, <1>5
  <2> QED BY <1>1, <1>2, <1>3, <1>5, <2>1 DEF InFlight, Busy, Live
<1>7. Handle(s)'
  <2>1. closed[s] => pc[s] = "idle" /\ tx[s] = Nil BY <1>1, Zenon DEF Handle
  <2>2. closed'[s] => pc'[s] = "idle" /\ tx'[s] = Nil BY <1>3, <2>1
  <2> QED BY <1>1, <1>2, <2>2 DEF Handle
<1>8. ASSUME NEW t \in Tx, owner[t] = s, Live(t)' PROVE t \in {tx'[s], cur'[s]}
  <2>1. Live(t) BY <1>2, <1>8 DEF Live
  <2> QED BY <1>8, <2>1, LiveOnes
<1>9. Live(u)' => Live(u) BY <1>2 DEF Live
<1> QED BY <1>2, <1>4, <1>6, <1>7, <1>8, <1>9, OwnStep

\* BeginTransaction, by Begin or for an attempt.
LEMMA Opening ==
    ASSUME IInv, TypeOK', NEW s \in Session, NEW u \in Tx, NEW k \in Kind, OpenTx(s, u, k),
           \A r \in Session \ {s} :
             /\ tx'[r] = tx[r] /\ closed'[r] = closed[r] /\ pc'[r] = pc[r]
             /\ call'[r] = call[r] /\ job'[r] = job[r] /\ cur'[r] = cur[r],
           InFlight(s)', Handle(s)', u \in {tx'[s], cur'[s]}
    PROVE  IInv'
<1>1. TypeOK /\ DriverTypeOK /\ Kept(u) BY DEF IInv, TypeOK
<1>2. /\ owner[u] = Nil /\ owner'[u] = s /\ status'[u] = "open"
      /\ \A t \in Tx \ {u} : status'[t] = status[t] /\ owner'[t] = owner[t] /\ kind'[t] = kind[t]
  BY <1>1 DEF OpenTx, Kept, DriverTypeOK
<1>3. /\ \A r \in Session \ {s} : InFlight(r)' /\ Handle(r)'
      /\ \A t \in Tx : owner[t] \notin {s, Nil} => Kept(t)'
  <2>1. \A t \in Tx : owner[t] \notin {s, Nil} =>
          status'[t] = status[t] /\ owner'[t] = owner[t] /\ kind'[t] = kind[t]
    BY <1>2
  <2> QED BY <2>1, OthersKeep
<1>4. ASSUME NEW t \in Tx, owner[t] \in {s, Nil} PROVE Kept(t)'
  <2>1. CASE t = u BY <1>2, <2>1 DEF Kept
  <2>2. CASE t # u
    <3>1. Kept(t) BY DEF IInv
    <3>2. ~ Live(t) BY <1>4, <3>1, NilIsNothing DEF OpenTx, CanOpen, Kept
    <3> QED BY <1>2, <2>2, <3>1, <3>2 DEF Kept, Live
  <2> QED BY <2>1, <2>2
<1>5. InFlight(s)' /\ Handle(s)' OBVIOUS
<1> QED BY <1>3, <1>4, <1>5 DEF IInv

\* A call enters the driver, or returns to its caller.
LEMMA Calling ==
    ASSUME IInv, TypeOK', NEW s \in Session, UNCHANGED driverVars,
           \A r \in Session \ {s} :
             /\ tx'[r] = tx[r] /\ closed'[r] = closed[r] /\ pc'[r] = pc[r]
             /\ call'[r] = call[r] /\ job'[r] = job[r] /\ cur'[r] = cur[r],
           InFlight(s)', Handle(s)',
           \A t \in Tx : owner[t] = s /\ Live(t) => t \in {tx'[s], cur'[s]}
    PROVE  IInv'
<1>1. \A t \in Tx : owner[t] = s /\ Live(t)' => t \in {tx'[s], cur'[s]}
  BY DEF driverVars, Live
<1> QED BY <1>1, OwnStep

\* Every action, failing or not, keeps the invariant.
LEMMA IInvStep == IInv /\ [Next]_vars => IInv'
<1> SUFFICES ASSUME IInv, [Next]_vars PROVE IInv'
  OBVIOUS
<1>1. TypeOK' BY TypeStep
<1>2. CASE UNCHANGED vars
  <2>1. UNCHANGED <<driverVars, sessionVars>> BY <1>2 DEF vars
  <2> QED BY <1>1, <2>1 DEF driverVars, sessionVars, IInv, InFlight, Handle, Kept, Busy, Live
<1>3. ASSUME NEW s \in Session, Begin(s) PROVE IInv'
  <2>1. InFlight(s) /\ Handle(s) /\ TypeOK BY DEF IInv
  <2>2. PICK u \in Tx : OpenTx(s, u, "explicit") /\ tx' = [tx EXCEPT ![s] = u]
    BY <1>3 DEF Begin
  <2>3. /\ tx'[s] = u /\ owner'[u] = s /\ kind'[u] = "explicit" /\ Kept(u)
        /\ \A t \in Tx \ {u} : owner'[t] = owner[t] /\ kind'[t] = kind[t] /\ status'[t] = status[t]
    BY <2>1, <2>2 DEF OpenTx, TypeOK, DriverTypeOK, IInv
  <2>4. UNCHANGED <<closed, pc, call, job, cur>> /\ ~ closed[s] BY <1>3 DEF Begin, CanCall
  <2>5. pc[s] = "idle" /\ call[s] = "none" /\ cur[s] = Nil
    <3>1. CASE pc[s] = "idle" BY <2>1, <3>1 DEF InFlight
    <3>2. CASE InManaged(s)
      BY <1>3, <2>1, <3>2, NilIsNothing DEF Begin, InManaged, InFlight, Handle, Busy
    <3> QED BY <1>3, <3>1, <3>2 DEF Begin, CanCall
  <2>6. InFlight(s)' BY <2>4, <2>5 DEF InFlight, Busy
  <2>7. Handle(s)' BY <2>3, <2>4, <2>5 DEF Handle
  <2>8. \A r \in Session \ {s} : tx'[r] = tx[r] BY <2>1, <2>2 DEF TypeOK
  <2> QED BY <1>1, <2>2, <2>3, <2>4, <2>6, <2>7, <2>8, Opening DEF Kind
<1>4. ASSUME NEW s \in Session, Rollback(s) \/ Commit(s) PROVE IInv'
  <2>1. /\ HasExplicit(s)
        /\ \/ CommitOk(tx[s]) \/ CommitFails(tx[s]) \/ RollbackOk(tx[s]) \/ RollbackFails(tx[s])
        /\ tx' \in {tx, [tx EXCEPT ![s] = Nil]}
        /\ UNCHANGED <<closed, pc, call, job, cur>>
    BY <1>4 DEF Rollback, Commit
  <2> QED BY <1>1, <2>1, Finishing
<1>5. ASSUME NEW s \in Session, NEW x \in Save, WriteInTx(s, x) PROVE IInv'
  <2>1. tx[s] \in Tx /\ owner[tx[s]] = s BY <1>5 DEF WriteInTx, IInv, TypeOK, Handle
  <2>2. RunFails(tx[s]) \/ \E W \in SUBSET Write : RunOk(tx[s], W)
    BY <1>5, <2>1, Works DEF WriteInTx
  <2>3. UNCHANGED <<pc, tx, closed, call, job, cur>> BY <1>5 DEF WriteInTx
  <2> QED BY <1>1, <2>1, <2>2, <2>3, Working
<1>6. ASSUME NEW s \in Session, ReadInTx(s) PROVE IInv'
  <2>1. tx[s] \in Tx /\ owner[tx[s]] = s BY <1>6 DEF ReadInTx, IInv, TypeOK, Handle
  <2>2. RunFails(tx[s]) BY <1>6 DEF ReadInTx
  <2>3. UNCHANGED <<pc, tx, closed, call, job, cur>> BY <1>6 DEF ReadInTx, sessionVars
  <2> QED BY <1>1, <2>1, <2>2, <2>3, Working
<1>7. ASSUME NEW s \in Session, AutoWrite(s) \/ AutoRead(s) \/ WorkReturns(s) PROVE IInv'
  <2>1. pc[s] = "work" BY <1>7 DEF AutoWrite, AutoRead, WorkReturns, InManaged
  <2>2. cur[s] \in Tx /\ owner[cur[s]] = s /\ (call[s] = "write" => job[s] \in Save)
    BY <2>1, NilIsNothing DEF IInv, InFlight, Busy
  <2>3. /\ pc' \in {[pc EXCEPT ![s] = "return"], [pc EXCEPT ![s] = "fail"]}
        /\ UNCHANGED <<tx, closed, call, job, cur>>
    BY <1>7 DEF AutoWrite, AutoRead, WorkReturns
  <2>4. \/ RunFails(cur[s]) \/ \E W \in SUBSET Write : RunOk(cur[s], W)
        \/ UNCHANGED driverVars
    BY <1>7, <2>2, Works DEF AutoWrite, AutoRead, WorkReturns
  <2> QED BY <1>1, <2>1, <2>2, <2>3, <2>4, Working
<1>8. ASSUME NEW s \in Session, Close(s) PROVE IInv'
  <2>1. InFlight(s) /\ Handle(s) /\ TypeOK /\ DriverTypeOK BY DEF IInv, TypeOK
  <2>2. pc[s] = "idle" /\ call[s] = "none" /\ cur[s] = Nil /\ UNCHANGED <<pc, call, job, cur>>
    BY <1>8, <2>1 DEF Close, InFlight
  <2>3. CASE tx[s] # Nil /\ RollbackFails(tx[s]) /\ UNCHANGED <<tx, closed>>
    <3>1. HasExplicit(s) BY <1>8, <2>1, <2>2, <2>3 DEF Close, HasExplicit, Handle
    <3> QED BY <1>1, <2>2, <2>3, <3>1, Finishing
  <2>4. CASE /\ \/ tx[s] = Nil /\ CloseDriverSession(s) /\ UNCHANGED tx
                \/ tx[s] # Nil /\ RollbackOk(tx[s]) /\ tx' = [tx EXCEPT ![s] = Nil]
             /\ closed' = [closed EXCEPT ![s] = TRUE]
    <3>1. tx'[s] = Nil BY <2>1, <2>4 DEF TypeOK
    <3>2. /\ owner' = owner /\ kind' = kind
          /\ \A t \in Tx : /\ owner[t] # s => status'[t] = status[t]
                           /\ status'[t] \in {"open", "failed"} => Live(t) /\ owner[t] # s
                           /\ status'[t] = "unused" => status[t] = "unused"
      <4>1. CASE tx[s] = Nil /\ CloseDriverSession(s)
        BY <2>1, <4>1 DEF CloseDriverSession, DriverTypeOK, Live
      <4>2. CASE tx[s] # Nil /\ RollbackOk(tx[s])
        <5>1. PICK u \in Tx : u = tx[s] BY <2>1, <4>2 DEF TypeOK
        <5>2. owner[u] = s BY <2>1, <4>2, <5>1 DEF Handle
        <5>3. status' = [status EXCEPT ![u] = "rolledback"] /\ UNCHANGED <<owner, kind>>
          BY <4>2, <5>1 DEF RollbackOk
        <5>4. ASSUME NEW t \in Tx, owner[t] = s, Live(t) PROVE t = u
          BY <2>2, <5>1, <5>4, LiveOnes, NilIsNothing
        <5> QED BY <2>1, <5>2, <5>3, <5>4 DEF DriverTypeOK, Live
      <4> QED BY <2>4, <4>1, <4>2
    <3>3. \A r \in Session \ {s} : tx'[r] = tx[r] /\ closed'[r] = closed[r]
      BY <2>1, <2>4, Zenon DEF TypeOK
    <3>4. InFlight(s)' BY <2>2 DEF InFlight, Busy
    <3>5. Handle(s)' BY <2>2, <3>1 DEF Handle
    <3>6. /\ \A r \in Session \ {s} : InFlight(r)' /\ Handle(r)'
          /\ \A t \in Tx : owner[t] \notin {s, Nil} => Kept(t)'
      <4>1. \A t \in Tx : owner[t] \notin {s, Nil} =>
              status'[t] = status[t] /\ owner'[t] = owner[t] /\ kind'[t] = kind[t]
        BY <3>2
      <4> QED BY <1>1, <2>2, <3>3, <4>1, OthersKeep
    <3>7. ASSUME NEW t \in Tx, owner[t] \in {s, Nil} PROVE Kept(t)'
      <4>1. Kept(t) BY DEF IInv
      <4> QED BY <3>2, <3>7, <4>1, NilIsNothing DEF Kept, Live
    <3> QED BY <1>1, <3>4, <3>5, <3>6, <3>7 DEF IInv
  <2> QED BY <1>8, <2>3, <2>4 DEF Close
<1>9. ASSUME NEW s \in Session, NEW c \in {"managed", "write", "read"}, NEW x \in Save \cup {Nil},
             EnterDriver(s, c, x), c = "write" => x \in Save
      PROVE  IInv'
  <2>1. InFlight(s) /\ Handle(s) /\ TypeOK BY DEF IInv
  <2>2. /\ pc[s] = "idle" /\ cur[s] = Nil /\ tx[s] = Nil /\ ~ closed[s]
        /\ UNCHANGED <<tx, closed, cur, driverVars>>
    BY <1>9, <2>1 DEF EnterDriver, NoPending, CanCall, InFlight
  <2>3. /\ pc'[s] = "again" /\ call'[s] = c /\ job'[s] = x
        /\ \A r \in Session \ {s} : pc'[r] = pc[r] /\ call'[r] = call[r] /\ job'[r] = job[r]
    BY <1>9, <2>1 DEF EnterDriver, TypeOK
  <2>4. InFlight(s)' BY <1>9, <2>2, <2>3 DEF InFlight, Busy
  <2>5. Handle(s)' BY <2>2, <2>3 DEF Handle
  <2>6. \A t \in Tx : owner[t] = s /\ Live(t) => t \in {tx'[s], cur'[s]} BY <2>2, LiveOnes
  <2> QED BY <1>1, <2>2, <2>3, <2>4, <2>5, <2>6, Calling
<1>10. ASSUME NEW s \in Session, Attempt(s) PROVE IInv'
  <2>1. InFlight(s) /\ Handle(s) /\ TypeOK BY DEF IInv
  <2>2. PICK u \in Tx : OpenTx(s, u, "function") /\ TxWork(s, u) /\ cur' = [cur EXCEPT ![s] = u]
    BY <1>10 DEF Attempt
  <2>3. /\ cur'[s] = u /\ owner'[u] = s /\ kind'[u] = "function" /\ status'[u] = "open"
        /\ tx'[s] = (IF call[s] = "managed" THEN u ELSE tx[s])
        /\ \A r \in Session \ {s} : tx'[r] = tx[r] /\ cur'[r] = cur[r] /\ pc'[r] = pc[r]
        /\ pc[s] = "again" /\ pc'[s] = "work"
    BY <1>10, <2>1, <2>2 DEF Attempt, OpenTx, TxWork, TypeOK, DriverTypeOK
  <2>4. UNCHANGED <<closed, call, job>> BY <1>10 DEF Attempt
  <2>5. InFlight(s)' BY <2>1, <2>3, <2>4 DEF InFlight, Busy, Live
  <2>6. ~ closed[s] /\ call[s] \in {"managed", "write", "read"}
    BY <2>1, <2>3 DEF Handle, InFlight, TypeOK, Call
  <2>7. Handle(s)' BY <2>1, <2>3, <2>4, <2>6 DEF Handle
  <2> QED BY <1>1, <2>2, <2>3, <2>4, <2>5, <2>7, Opening DEF Kind
<1>11. ASSUME NEW s \in Session, DriverCommits(s) \/ DriverRollsBack(s) PROVE IInv'
  <2>1. InFlight(s) /\ Handle(s) /\ TypeOK /\ DriverTypeOK BY DEF IInv, TypeOK
  <2>2. pc[s] \in {"return", "fail"} BY <1>11 DEF DriverCommits, DriverRollsBack
  <2>3. PICK u \in Tx : u = cur[s] BY <2>1, <2>2 DEF InFlight, Busy
  <2>4. owner[u] = s /\ ~ closed[s] BY <2>1, <2>2, <2>3, NilIsNothing DEF InFlight, Handle
  <2>5. CommitOk(u) \/ CommitFails(u) \/ RollbackOk(u) \/ RollbackFails(u)
    BY <1>11, <2>3 DEF DriverCommits, DriverRollsBack
  <2>6. /\ owner' = owner /\ kind' = kind
        /\ ~ Live(u)' /\ (status'[u] = "unused" => status[u] = "unused")
        /\ \A t \in Tx \ {u} : status'[t] = status[t]
    BY <2>1, <2>5, Ends
  <2>7. \/ Return(s)
        \/ /\ \E p \in {"again", "lost"} : pc' = [pc EXCEPT ![s] = p]
           /\ UNCHANGED <<tx, call, job, cur>>
    BY <1>11 DEF DriverCommits, DriverRollsBack
  <2>8. UNCHANGED closed BY <1>11 DEF DriverCommits, DriverRollsBack
  <2>9. \A r \in Session \ {s} :
             /\ tx'[r] = tx[r] /\ closed'[r] = closed[r] /\ pc'[r] = pc[r]
             /\ call'[r] = call[r] /\ job'[r] = job[r] /\ cur'[r] = cur[r]
    BY <2>1, <2>7, <2>8 DEF Return, TypeOK
  <2>10. InFlight(s)' /\ Handle(s)'
    <3>1. CASE Return(s) BY <2>1, <2>2, <2>4, <2>8, <3>1 DEF Return, InFlight, Handle, Busy, TypeOK, Call
    <3>2. CASE /\ \E p \in {"again", "lost"} : pc' = [pc EXCEPT ![s] = p]
               /\ UNCHANGED <<tx, call, job, cur>>
      BY <2>1, <2>2, <2>3, <2>4, <2>6, <2>8, <3>2 DEF InFlight, Handle, Busy, TypeOK, Live
    <3> QED BY <2>7, <3>1, <3>2
  <2>11. ASSUME NEW t \in Tx, owner[t] = s, Live(t)' PROVE t \in {tx'[s], cur'[s]}
    <3>1. t # u BY <2>6, <2>11
    <3>2. Live(t) BY <2>6, <2>11, <3>1 DEF Live
    <3>3. t = tx[s] /\ call[s] # "managed" BY <2>3, <2>11, <2>1, <3>1, <3>2, LiveOnes DEF Handle
    <3> QED BY <2>1, <2>7, <3>3 DEF Return, TypeOK
  <2> QED BY <1>1, <2>4, <2>6, <2>9, <2>10, <2>11, OwnStep
<1>12. ASSUME NEW s \in Session, GiveUp(s) PROVE IInv'
  <2>1. InFlight(s) /\ Handle(s) /\ TypeOK BY DEF IInv
  <2>2. pc[s] \in {"again", "lost"} /\ Return(s) /\ UNCHANGED <<driverVars, closed>>
    BY <1>12 DEF GiveUp
  <2>3. \A r \in Session \ {s} :
             /\ tx'[r] = tx[r] /\ closed'[r] = closed[r] /\ pc'[r] = pc[r]
             /\ call'[r] = call[r] /\ job'[r] = job[r] /\ cur'[r] = cur[r]
    BY <2>1, <2>2 DEF Return, TypeOK
  <2>4. ~ closed[s] /\ tx'[s] = Nil /\ cur'[s] = Nil /\ pc'[s] = "idle" /\ call'[s] = "none"
    BY <2>1, <2>2 DEF Return, InFlight, Handle, TypeOK, Call
  <2>5. InFlight(s)' /\ Handle(s)' BY <2>2, <2>4 DEF InFlight, Handle, Busy
  <2>6. ASSUME NEW t \in Tx, owner[t] = s, Live(t) PROVE FALSE
    <3>1. t \in {tx[s], cur[s]} BY <2>6, LiveOnes
    <3> QED BY <2>1, <2>2, <2>6, <3>1, NilIsNothing DEF InFlight, Handle, TypeOK, Call
  <2> QED BY <1>1, <2>2, <2>3, <2>5, <2>6, Calling
<1>13. ASSUME NEW s \in Session, StartRead(s) \/ ManagedTransaction(s) PROVE IInv'
  BY <1>9, <1>13 DEF StartRead, ManagedTransaction
<1>14. ASSUME NEW s \in Session, NEW x \in Save, StartWrite(s, x) PROVE IInv'
  BY <1>9, <1>14 DEF StartWrite
<1> QED
  BY <1>2, <1>3, <1>4, <1>5, <1>6, <1>7, <1>8, <1>10, <1>11, <1>12, <1>13, <1>14 DEF Next

\* The inductive invariant holds throughout: the control state of every session
\* and its s.tx always agree on which transaction the session is in.
THEOREM SessionInvariant == Spec => []IInv
<1> QED BY IInvInit, IInvStep, PTL DEF Spec

\* No step of any session, whatever fails, leaves a transaction open on the server
\* that its session can no longer finish (sessionv2.go and session.go, s.tx).
THEOREM NoTransactionIsOrphaned == Spec => []NoOrphan
<1>1. IInv => NoOrphan
  <2> SUFFICES ASSUME IInv, NEW t \in Tx, Live(t)
               PROVE  ~ closed[owner[t]] /\ (t = tx[owner[t]] \/ t = cur[owner[t]])
    BY DEF NoOrphan
  <2>1. owner[t] \in Session /\ (t = tx[owner[t]] \/ t = cur[owner[t]]) BY DEF IInv, Kept
  <2>2. InFlight(owner[t]) /\ Handle(owner[t]) BY <2>1 DEF IInv
  <2>3. closed[owner[t]] => tx[owner[t]] = Nil /\ cur[owner[t]] = Nil
    BY <2>2, Zenon DEF InFlight, Handle
  <2> QED BY <2>1, <2>3, NilIsNothing
<1> QED BY <1>1, SessionInvariant, PTL

\* The work of a ManagedTransaction always sees the transaction of the attempt that
\* runs it, and no other call ever finds a transaction of the driver's in s.tx.
THEOREM WorkSeesItsAttempt == Spec => []HandleIsCurrent
<1>1. IInv => HandleIsCurrent
  BY DEF IInv, InFlight, Handle, HandleIsCurrent, InManaged, Live
<1> QED BY <1>1, SessionInvariant, PTL

\* Every variable keeps its type (TypeOK): s.tx is always nil or a transaction handle,
\* and the driver's records of it stay well-formed.
THEOREM TypeCorrect == Spec => []TypeOK
<1>1. IInv => TypeOK BY DEF IInv
<1> QED BY <1>1, SessionInvariant, PTL

-------------------------------------------------------------------------------
(* What the sessions of GogmSession tell their callers is true, whatever      *)
(* fails and however often the driver retries.                                *)

\* Nobody was told anything of an unused transaction.
LEMMA PromisesInit == Init => Promises
  BY DEF Init, DriverInit, Promises, Accounted, Attempted, Busy, Live, Applied

\* The parts of the invariants that concern one session, and one transaction.
LEMMA Known ==
    ASSUME IInv, Promises, NEW s \in Session, NEW t \in Tx
    PROVE  /\ TypeOK /\ DriverTypeOK /\ InFlight(s) /\ Handle(s) /\ Kept(t)
           /\ Accounted(t) /\ Attempted(s)
  BY DEF IInv, Promises, TypeOK

\* A step of session s answers for its own transactions; what was promised of the
\* others stays true.
LEMMA OthersPromise ==
    ASSUME IInv, Promises, NEW s \in Session,
           \A t \in Tx : owner[t] \notin {s, Nil} =>
             /\ status'[t] = status[t] /\ owner'[t] = owner[t] /\ writes'[t] = writes[t]
             /\ acked'[t] = acked[t] /\ told'[t] = told[t],
           \A r \in Session \ {s} :
             /\ tx'[r] = tx[r] /\ pc'[r] = pc[r] /\ call'[r] = call[r]
             /\ job'[r] = job[r] /\ tries'[r] = tries[r] /\ cur'[r] = cur[r],
           \A t \in Tx : owner[t] \in {s, Nil} => Accounted(t)',
           Attempted(s)'
    PROVE  Promises'
<1>1. ASSUME NEW t \in Tx, owner[t] \notin {s, Nil} PROVE Accounted(t)'
  <2>1. Accounted(t) BY Known
  <2> QED BY <1>1, <2>1 DEF Accounted, Live, Applied
<1>2. ASSUME NEW r \in Session \ {s} PROVE Attempted(r)'
  <2>1. InFlight(r) /\ Handle(r) /\ Attempted(r) BY DEF IInv, Promises
  <2>2. tx[r] \in Tx \cup {Nil} /\ tries[r] \subseteq Tx BY DEF IInv, TypeOK
  <2>3. /\ tx'[r] = tx[r] /\ pc'[r] = pc[r] /\ call'[r] = call[r]
        /\ job'[r] = job[r] /\ tries'[r] = tries[r] /\ cur'[r] = cur[r]
    OBVIOUS
  <2>4. tx[r] # Nil => told'[tx[r]] = told[tx[r]]
    BY <2>1, <2>2, NilIsNothing DEF Handle
  <2>5. ASSUME call[r] # "none", NEW t \in tries[r]
        PROVE  /\ status'[t] = status[t] /\ owner'[t] = owner[t] /\ writes'[t] = writes[t]
               /\ told'[t] = told[t]
    <3>1. owner[t] = r BY <2>1, <2>5 DEF Attempted
    <3> QED BY <2>2, <2>5, <3>1, NilIsNothing
  <2>6. Busy(r) => call[r] # "none" BY <2>1 DEF InFlight, Busy
  <2>7. Busy(r)' <=> Busy(r) BY <2>3 DEF Busy
  <2>8. Busy(r) => cur[r] \in tries[r] BY <2>1 DEF Attempted
  <2>9. call[r] = "none" /\ tx[r] # Nil => told'[tx[r]] \in {"nothing", "error"}
    BY <2>1, <2>4 DEF Attempted
  <2>10. call[r] # "none" =>
           \A t \in tries[r] : status'[t] # "unused" /\ owner'[t] = r /\ told'[t] = "nothing"
    BY <2>1, <2>5 DEF Attempted
  <2> QED BY <2>3, <2>7, <2>8, <2>9, <2>10, Zenon DEF Attempted
<1>3. \A t \in Tx : Accounted(t)' BY <1>1
<1>4. \A r \in Session : Attempted(r)' BY <1>2
<1> QED BY <1>3, <1>4 DEF Promises

\* Commit, Rollback and Close of a pending transaction: "ok" is only said of an
\* applied one, and a session that keeps the handle has said "error".
LEMMA FinishPromise ==
    ASSUME IInv, Promises, NEW s \in Session, NEW a \in Told, tx[s] # Nil, call[s] = "none",
           \/ CommitOk(tx[s]) \/ CommitFails(tx[s])
           \/ RollbackOk(tx[s]) \/ RollbackFails(tx[s]),
           Answer({tx[s]}, a), a = "ok" => status'[tx[s]] \in {"committed", "lostApplied"},
           tx' = [tx EXCEPT ![s] = Nil] \/ (tx' = tx /\ a = "error"),
           UNCHANGED <<pc, call, job, tries, cur, acked>>
    PROVE  Promises'
<1>1. InFlight(s) /\ Handle(s) /\ TypeOK /\ DriverTypeOK BY DEF IInv, TypeOK
<1>2. PICK u \in Tx : u = tx[s] BY <1>1 DEF TypeOK
<1>3. owner[u] = s /\ status[u] # "unused"
  BY <1>1, <1>2, Known, NilIsNothing DEF Handle, Kept
<1>4. /\ owner' = owner /\ ~ Live(u)' /\ status'[u] # "unused"
      /\ Applied(u)' => status[u] = "open" \/ Applied(u)
      /\ \A t \in Tx \ {u} : status'[t] = status[t]
      /\ writes' = writes
  <2>1. CommitOk(u) \/ CommitFails(u) \/ RollbackOk(u) \/ RollbackFails(u) BY <1>2
  <2>2. writes' = writes BY <2>1 DEF CommitOk, CommitFails, RollbackOk, RollbackFails
  <2> QED BY <1>1, <1>3, <2>1, <2>2, Ends
<1>5. told'[u] = a /\ \A t \in Tx \ {u} : told'[t] = told[t] BY <1>2 DEF Answer
<1>6. ASSUME NEW t \in Tx PROVE Accounted(t)'
  <2>1. Accounted(t) BY Known
  <2>2. CASE t = u BY <1>2, <1>4, <1>5, <2>1, <2>2 DEF Accounted, Live, Applied
  <2>3. CASE t # u BY <1>4, <1>5, <2>1, <2>3 DEF Accounted, Live, Applied
  <2> QED BY <2>2, <2>3
<1>7. Attempted(s)'
  <2>1. tx'[s] = Nil \/ (tx'[s] = u /\ a = "error") BY <1>1, <1>2 DEF TypeOK
  <2>2. ~ Busy(s)' BY <1>1 DEF InFlight, Busy
  <2> QED BY <1>5, <2>1, <2>2 DEF Attempted
<1>8. \A r \in Session \ {s} : tx'[r] = tx[r] BY <1>1 DEF TypeOK
<1>9. \A t \in Tx : owner[t] \notin {s, Nil} =>
         /\ status'[t] = status[t] /\ owner'[t] = owner[t] /\ writes'[t] = writes[t]
         /\ acked'[t] = acked[t] /\ told'[t] = told[t]
  BY <1>3, <1>4, <1>5
<1> QED BY <1>6, <1>7, <1>8, <1>9, OthersPromise

\* What a statement does to the records of its transaction u, and what it leaves:
\* what returned nil is still there, complete, unless the transaction failed.
LEMMA StatementKeeps ==
    ASSUME IInv, Promises, NEW u \in Tx, NEW x \in Save,
           WorkOk(u, x) \/ WorkStops(u, x)
    PROVE  /\ owner' = owner
           /\ \A t \in Tx : /\ Live(t)' <=> Live(t)
                            /\ Applied(t)' <=> Applied(t)
                            /\ status'[t] = "unused" <=> status[t] = "unused"
                            /\ status'[t] \in {"unused", "open"} \/ Applied(t)' =>
                                 \A y \in acked'[t] : Pieces(y, Statements) \subseteq writes'[t]
           /\ \A t \in Tx \ {u} : /\ status'[t] = status[t] /\ writes'[t] = writes[t]
                                  /\ acked'[t] = acked[t]
<1>1. DriverTypeOK /\ acked \in [Tx -> SUBSET Save] BY DEF IInv, TypeOK
<1>2. \A t \in Tx : status[t] \in {"unused", "open"} \/ Applied(t) =>
                       \A y \in acked[t] : Pieces(y, Statements) \subseteq writes[t]
  BY DEF Promises, Accounted
<1>3. ASSUME RunFails(u), UNCHANGED acked \/ (/\ status[u] = "open"
                                             /\ acked' = [acked EXCEPT ![u] = @ \cup {x}])
      PROVE  /\ owner' = owner
             /\ \A t \in Tx : /\ Live(t)' <=> Live(t)
                              /\ Applied(t)' <=> Applied(t)
                              /\ status'[t] = "unused" <=> status[t] = "unused"
                              /\ status'[t] \in {"unused", "open"} \/ Applied(t)' =>
                                   \A y \in acked'[t] : Pieces(y, Statements) \subseteq writes'[t]
             /\ \A t \in Tx \ {u} : /\ status'[t] = status[t] /\ writes'[t] = writes[t]
                                    /\ acked'[t] = acked[t]
  <2>1. /\ status' = [status EXCEPT ![u] = IF @ = "open" THEN "failed" ELSE @]
        /\ owner' = owner /\ writes' = writes
    BY <1>3 DEF RunFails
  <2>2. \A t \in Tx : /\ Live(t)' <=> Live(t)
                      /\ Applied(t)' <=> Applied(t)
                      /\ status'[t] = "unused" <=> status[t] = "unused"
                      /\ status'[t] \in {"unused", "open"} => status[t] \in {"unused", "open"}
                      /\ t # u => status'[t] = status[t]
    BY <1>1, <2>1 DEF DriverTypeOK, Live, Applied
  <2>3. \A t \in Tx \ {u} : acked'[t] = acked[t] BY <1>1, <1>3
  <2>4. UNCHANGED acked \/ (status'[u] \notin {"unused", "open"} /\ ~ Applied(u)')
    BY <1>1, <1>3, <2>1 DEF DriverTypeOK, Applied
  <2>5. ASSUME NEW t \in Tx, status'[t] \in {"unused", "open"} \/ Applied(t)'
        PROVE  \A y \in acked'[t] : Pieces(y, Statements) \subseteq writes'[t]
    <3>1. acked'[t] = acked[t]
      <4>1. CASE t = u BY <2>4, <2>5, <4>1
      <4>2. CASE t # u BY <2>3, <4>2
      <4> QED BY <4>1, <4>2
    <3>2. status[t] \in {"unused", "open"} \/ Applied(t) BY <2>2, <2>5
    <3>3. \A y \in acked[t] : Pieces(y, Statements) \subseteq writes[t] BY <1>2, <3>2, Zenon
    <3> QED BY <2>1, <3>1, <3>3
  <2> QED BY <2>1, <2>2, <2>3, <2>5
<1>4. ASSUME NEW n \in 0..Statements, RunOk(u, Pieces(x, n)),
             UNCHANGED acked \/ (/\ n = Statements
                                /\ acked' = [acked EXCEPT ![u] = @ \cup {x}])
      PROVE  /\ owner' = owner
             /\ \A t \in Tx : /\ Live(t)' <=> Live(t)
                              /\ Applied(t)' <=> Applied(t)
                              /\ status'[t] = "unused" <=> status[t] = "unused"
                              /\ status'[t] \in {"unused", "open"} \/ Applied(t)' =>
                                   \A y \in acked'[t] : Pieces(y, Statements) \subseteq writes'[t]
             /\ \A t \in Tx \ {u} : /\ status'[t] = status[t] /\ writes'[t] = writes[t]
                                    /\ acked'[t] = acked[t]
  <2>1. /\ status' = status /\ owner' = owner
        /\ writes' = [writes EXCEPT ![u] = @ \cup Pieces(x, n)]
    BY <1>4 DEF RunOk
  <2>2. /\ writes'[u] = writes[u] \cup Pieces(x, n)
        /\ \A t \in Tx \ {u} : writes'[t] = writes[t] /\ acked'[t] = acked[t]
        /\ acked'[u] = acked[u] \/ (acked'[u] = acked[u] \cup {x} /\ n = Statements)
    BY <1>1, <1>4, <2>1 DEF DriverTypeOK
  <2> QED BY <1>2, <2>1, <2>2 DEF Live, Applied
<1>5. CASE WorkOk(u, x)
  <2>1. CASE RunOk(u, Pieces(x, Statements))
    BY <1>4, <1>5, <2>1, BoundsAreNat DEF WorkOk
  <2>2. CASE status[u] = "open" /\ RunFails(u) BY <1>3, <1>5, <2>2 DEF WorkOk
  <2> QED BY <1>5, <2>1, <2>2 DEF WorkOk
<1>6. CASE WorkStops(u, x)
  <2>1. CASE RunFails(u) BY <1>3, <1>6, <2>1 DEF WorkStops
  <2>2. CASE \E n \in 0..Statements : RunOk(u, Pieces(x, n)) BY <1>4, <1>6, <2>2 DEF WorkStops
  <2> QED BY <1>6, <2>1, <2>2 DEF WorkStops
<1> QED BY <1>5, <1>6

\* Only the caller's own transaction is ever committed or rolled back explicitly.
LEMMA ExplicitIsIdle ==
    ASSUME IInv, NEW s \in Session, HasExplicit(s)
    PROVE  tx[s] \in Tx /\ call[s] = "none"
<1>1. InFlight(s) /\ Handle(s) /\ TypeOK BY DEF IInv
<1>2. tx[s] \in Tx BY <1>1 DEF HasExplicit, TypeOK
<1> QED BY <1>1, <1>2 DEF HasExplicit, CanCall, InManaged, InFlight, Handle

\* A statement that writes nothing, a read's, or none at all: the caller is told nothing.
LEMMA ReadPromise ==
    ASSUME IInv, Promises, NEW s \in Session, NEW u \in Tx, owner[u] = s,
           RunFails(u) \/ UNCHANGED driverVars,
           \/ UNCHANGED pc
           \/ /\ Busy(s) /\ call[s] # "write"
              /\ pc' \in {[pc EXCEPT ![s] = "return"], [pc EXCEPT ![s] = "fail"]},
           UNCHANGED <<tx, call, job, tries, cur, acked, told>>
    PROVE  Promises'
<1>1. InFlight(s) /\ Handle(s) /\ TypeOK /\ DriverTypeOK /\ Attempted(s)
  BY DEF IInv, TypeOK, Promises
<1>2. /\ owner' = owner /\ writes' = writes
      /\ \A t \in Tx : /\ Live(t)' <=> Live(t)
                       /\ Applied(t)' <=> Applied(t)
                       /\ status'[t] = "unused" <=> status[t] = "unused"
                       /\ status'[t] = "open" => status[t] = "open"
                       /\ t # u => status'[t] = status[t]
  <2>1. CASE RunFails(u) BY <1>1, <2>1 DEF RunFails, DriverTypeOK, Live, Applied
  <2>2. CASE UNCHANGED driverVars BY <2>2 DEF driverVars, Live, Applied
  <2> QED BY <2>1, <2>2
<1>3. ASSUME NEW t \in Tx PROVE Accounted(t)'
  <2>1. Accounted(t) BY Known
  <2> QED BY <1>2, <2>1 DEF Accounted
<1>4. Attempted(s)'
  <2>1. tries[s] \subseteq Tx BY <1>1 DEF TypeOK
  <2>2. Busy(s)' => Busy(s) BY <1>1 DEF Busy, TypeOK
  <2>3. call[s] # "write" \/ pc' = pc OBVIOUS
  <2> QED BY <1>1, <1>2, <2>1, <2>2, <2>3 DEF Attempted
<1>5. \A r \in Session \ {s} : pc'[r] = pc[r] BY <1>1 DEF TypeOK
<1>6. \A t \in Tx : owner[t] \notin {s, Nil} =>
         /\ status'[t] = status[t] /\ owner'[t] = owner[t] /\ writes'[t] = writes[t]
         /\ acked'[t] = acked[t] /\ told'[t] = told[t]
  BY <1>2
<1> QED BY <1>3, <1>4, <1>5, <1>6, OthersPromise

\* A new transaction: nobody was told anything of it yet.
LEMMA OpenPromise ==
    ASSUME IInv, Promises, NEW s \in Session, NEW u \in Tx, NEW k \in Kind, OpenTx(s, u, k),
           UNCHANGED <<acked, told>>,
           \A r \in Session \ {s} :
             /\ tx'[r] = tx[r] /\ pc'[r] = pc[r] /\ call'[r] = call[r]
             /\ job'[r] = job[r] /\ tries'[r] = tries[r] /\ cur'[r] = cur[r],
           Attempted(s)'
    PROVE  Promises'
<1>1. DriverTypeOK /\ Kept(u) BY Known
<1>2. /\ owner[u] = Nil /\ status[u] = "unused" /\ status'[u] = "open" /\ writes' = writes
      /\ \A t \in Tx \ {u} : status'[t] = status[t] /\ owner'[t] = owner[t]
  BY <1>1 DEF OpenTx, Kept, DriverTypeOK
<1>3. ASSUME NEW t \in Tx PROVE Accounted(t)'
  <2>1. Accounted(t) BY Known
  <2>2. CASE t = u BY <1>2, <2>1, <2>2 DEF Accounted, Live, Applied
  <2>3. CASE t # u BY <1>2, <2>1, <2>3 DEF Accounted, Live, Applied
  <2> QED BY <2>2, <2>3
<1>4. \A t \in Tx : owner[t] \notin {s, Nil} =>
         /\ status'[t] = status[t] /\ owner'[t] = owner[t] /\ writes'[t] = writes[t]
         /\ acked'[t] = acked[t] /\ told'[t] = told[t]
  BY <1>2
<1> QED BY <1>3, <1>4, OthersPromise

\* Every action, failing or not, keeps what callers are told true.
LEMMA PromisesStep == IInv /\ Promises /\ [Next]_vars => Promises'
<1> SUFFICES ASSUME IInv, Promises, [Next]_vars PROVE Promises'
  OBVIOUS
<1>0. TypeOK /\ DriverTypeOK BY DEF IInv, TypeOK
<1>1. CASE UNCHANGED vars
  <2>1. UNCHANGED <<driverVars, sessionVars>> BY <1>1 DEF vars
  <2> QED BY <2>1 DEF driverVars, sessionVars, Promises, Accounted, Attempted, Busy, Live, Applied
<1>2. ASSUME NEW s \in Session, Begin(s) PROVE Promises'
  <2>1. InFlight(s) /\ Handle(s) BY DEF IInv
  <2>2. PICK u \in Tx : OpenTx(s, u, "explicit") /\ tx' = [tx EXCEPT ![s] = u]
    BY <1>2 DEF Begin
  <2>3. call[s] = "none" /\ ~ Busy(s)
    <3>1. pc[s] = "idle"
      BY <1>2, <2>1, NilIsNothing DEF Begin, CanCall, InManaged, InFlight, Handle, Busy
    <3> QED BY <2>1, <3>1 DEF InFlight, Busy
  <2>4. UNCHANGED <<pc, call, job, tries, cur, acked, told>> BY <1>2 DEF Begin
  <2>5. told[u] = "nothing" BY <2>2, Known DEF OpenTx, Accounted
  <2>6. tx'[s] = u /\ \A r \in Session \ {s} : tx'[r] = tx[r] BY <1>0, <2>2 DEF TypeOK
  <2>7. Attempted(s)' BY <2>3, <2>4, <2>5, <2>6 DEF Attempted, Busy
  <2> QED BY <2>2, <2>4, <2>6, <2>7, OpenPromise DEF Kind
<1>3. ASSUME NEW s \in Session, Rollback(s) \/ Commit(s) PROVE Promises'
  <2>1. tx[s] \in Tx /\ tx[s] # Nil /\ call[s] = "none"
    BY <1>3, ExplicitIsIdle, NilIsNothing DEF Rollback, Commit
  <2>2. CommitOk(tx[s]) => status'[tx[s]] = "committed"
    BY <1>0, <2>1 DEF CommitOk, DriverTypeOK
  <2>3. \E a \in Told : /\ Answer({tx[s]}, a)
                        /\ a = "ok" => CommitOk(tx[s])
                        /\ tx' = [tx EXCEPT ![s] = Nil] \/ (tx' = tx /\ a = "error")
    BY <1>3 DEF Rollback, Commit, Told
  <2>4. /\ \/ CommitOk(tx[s]) \/ CommitFails(tx[s])
           \/ RollbackOk(tx[s]) \/ RollbackFails(tx[s])
        /\ UNCHANGED <<pc, call, job, tries, cur, acked>>
    BY <1>3 DEF Rollback, Commit
  <2>5. PICK a \in Told : /\ Answer({tx[s]}, a)
                          /\ a = "ok" => CommitOk(tx[s])
                          /\ tx' = [tx EXCEPT ![s] = Nil] \/ (tx' = tx /\ a = "error")
    BY <2>3
  <2>6. a = "ok" => status'[tx[s]] \in {"committed", "lostApplied"} BY <2>2, <2>5
  <2> QED BY <2>1, <2>4, <2>5, <2>6, FinishPromise
<1>4. ASSUME NEW s \in Session, Close(s) PROVE Promises'
  <2>1. InFlight(s) /\ Handle(s) /\ Attempted(s) BY DEF IInv, Promises
  <2>2. /\ pc[s] = "idle" /\ call[s] = "none" /\ cur[s] = Nil
        /\ UNCHANGED <<pc, call, job, tries, cur, acked>>
    BY <1>4, <2>1 DEF Close, InFlight
  <2>3. CASE tx[s] = Nil
    <3>1. CloseDriverSession(s) /\ UNCHANGED <<tx, told>> BY <1>4, <2>3 DEF Close
    <3>2. \A t \in Tx : ~ (owner[t] = s /\ Live(t)) BY <2>2, <2>3, LiveOnes, NilIsNothing
    <3>3. UNCHANGED <<status, owner, writes>>
      BY <1>0, <3>1, <3>2 DEF CloseDriverSession, DriverTypeOK
    <3> QED BY <2>2, <3>1, <3>3 DEF Promises, Accounted, Attempted, Busy, Live, Applied
  <2>4. CASE tx[s] # Nil
    <3>1. \/ RollbackOk(tx[s]) /\ tx' = [tx EXCEPT ![s] = Nil] /\ Answer({tx[s]}, "rolledback")
          \/ RollbackFails(tx[s]) /\ tx' = tx /\ Answer({tx[s]}, "error")
      BY <1>4, <2>4 DEF Close
    <3> QED BY <2>2, <2>4, <3>1, FinishPromise DEF Told
  <2> QED BY <2>3, <2>4
<1>5. ASSUME NEW s \in Session, NEW x \in Save, WriteInTx(s, x) PROVE Promises'
  <2>1. InFlight(s) /\ Handle(s) /\ Attempted(s) BY DEF IInv, Promises
  <2>2. PICK u \in Tx : u = tx[s] BY <1>0, <1>5 DEF WriteInTx, TypeOK
  <2>3. owner[u] = s BY <2>1, <2>2, NilIsNothing DEF Handle
  <2>4. WorkOk(u, x) \/ WorkStops(u, x) BY <1>5, <2>2 DEF WriteInTx
  <2>5. UNCHANGED <<tx, pc, call, job, tries, cur, told>> BY <1>5 DEF WriteInTx
  <2>6. /\ owner' = owner
        /\ \A t \in Tx : /\ Live(t)' <=> Live(t)
                         /\ Applied(t)' <=> Applied(t)
                         /\ status'[t] = "unused" <=> status[t] = "unused"
                         /\ status'[t] \in {"unused", "open"} \/ Applied(t)' =>
                              \A y \in acked'[t] : Pieces(y, Statements) \subseteq writes'[t]
        /\ \A t \in Tx \ {u} : /\ status'[t] = status[t] /\ writes'[t] = writes[t]
                               /\ acked'[t] = acked[t]
    BY <2>4, StatementKeeps
  <2>7. ASSUME NEW t \in Tx PROVE Accounted(t)'
    <3>1. Accounted(t) BY Known
    <3> QED BY <2>5, <2>6, <3>1 DEF Accounted
  <2>8. Attempted(s)'
    <3>1. call[s] # "write" BY <2>1, <2>2, NilIsNothing DEF Handle
    <3>2. tries[s] \subseteq Tx BY <1>0 DEF TypeOK
    <3> QED BY <2>1, <2>5, <2>6, <3>1, <3>2 DEF Attempted, Busy
  <2>9. \A t \in Tx : owner[t] \notin {s, Nil} =>
           /\ status'[t] = status[t] /\ owner'[t] = owner[t] /\ writes'[t] = writes[t]
           /\ acked'[t] = acked[t] /\ told'[t] = told[t]
    BY <2>3, <2>5, <2>6
  <2> QED BY <2>5, <2>7, <2>8, <2>9, OthersPromise
<1>6. ASSUME NEW s \in Session, ReadInTx(s) PROVE Promises'
  <2>1. tx[s] \in Tx /\ owner[tx[s]] = s BY <1>0, <1>6 DEF ReadInTx, IInv, TypeOK, Handle
  <2>2. RunFails(tx[s]) /\ UNCHANGED <<pc, tx, call, job, tries, cur, acked, told>>
    BY <1>6 DEF ReadInTx, sessionVars
  <2> QED BY <2>1, <2>2, ReadPromise
<1>7. ASSUME NEW s \in Session, AutoRead(s) \/ WorkReturns(s) PROVE Promises'
  <2>1. pc[s] = "work" /\ call[s] # "write" BY <1>7 DEF AutoRead, WorkReturns, InManaged
  <2>2. cur[s] \in Tx /\ owner[cur[s]] = s
    BY <2>1, NilIsNothing DEF IInv, InFlight, Busy
  <2>3. /\ pc' \in {[pc EXCEPT ![s] = "return"], [pc EXCEPT ![s] = "fail"]}
        /\ RunFails(cur[s]) \/ UNCHANGED driverVars
        /\ UNCHANGED <<tx, call, job, tries, cur, acked, told>>
    BY <1>7 DEF AutoRead, WorkReturns
  <2> QED BY <2>1, <2>2, <2>3, ReadPromise DEF Busy
<1>8. ASSUME NEW s \in Session, NEW c \in {"managed", "write", "read"}, NEW x \in Save \cup {Nil},
             EnterDriver(s, c, x)
      PROVE  Promises'
  <2>1. UNCHANGED <<driverVars, tx, cur, acked, told>> BY <1>8 DEF EnterDriver
  <2>2. /\ pc'[s] = "again" /\ call'[s] = c /\ tries'[s] = {}
        /\ \A r \in Session \ {s} : /\ pc'[r] = pc[r] /\ call'[r] = call[r]
                                    /\ job'[r] = job[r] /\ tries'[r] = tries[r]
    BY <1>0, <1>8 DEF EnterDriver, TypeOK
  <2>3. Attempted(s)' BY <2>2 DEF Attempted, Busy
  <2>4. \A t \in Tx : Accounted(t)' BY <2>1, Known DEF driverVars, Accounted, Live, Applied
  <2> QED BY <2>1, <2>2, <2>3, <2>4, OthersPromise DEF driverVars
<1>9. ASSUME NEW s \in Session, Attempt(s) PROVE Promises'
  <2>1. InFlight(s) /\ Attempted(s) BY DEF IInv, Promises
  <2>2. PICK u \in Tx : /\ OpenTx(s, u, "function") /\ TxWork(s, u)
                        /\ cur' = [cur EXCEPT ![s] = u]
                        /\ tries' = [tries EXCEPT ![s] = @ \cup {u}]
    BY <1>9 DEF Attempt
  <2>3. /\ cur'[s] = u /\ tries'[s] = tries[s] \cup {u} /\ pc[s] = "again" /\ pc'[s] = "work"
        /\ \A r \in Session \ {s} : /\ tx'[r] = tx[r] /\ cur'[r] = cur[r] /\ pc'[r] = pc[r]
                                    /\ tries'[r] = tries[r]
    BY <1>0, <1>9, <2>2 DEF Attempt, TxWork, TypeOK
  <2>4. UNCHANGED <<call, job, acked, told>> BY <1>9 DEF Attempt
  <2>5. /\ status'[u] = "open" /\ owner'[u] = s /\ told[u] = "nothing" /\ writes' = writes
        /\ \A t \in Tx \ {u} : status'[t] = status[t] /\ owner'[t] = owner[t]
    BY <1>0, <2>2, Known DEF OpenTx, DriverTypeOK, Accounted
  <2>6. call[s] # "none" /\ tries[s] \subseteq Tx BY <1>0, <2>1, <2>3 DEF InFlight, TypeOK
  <2>7. Attempted(s)' BY <2>1, <2>3, <2>4, <2>5, <2>6 DEF Attempted, Applied, Busy
  <2> QED BY <2>2, <2>3, <2>4, <2>7, OpenPromise DEF Kind
<1>10. ASSUME NEW s \in Session, AutoWrite(s) PROVE Promises'
  <2>1. InFlight(s) /\ Attempted(s) BY DEF IInv, Promises
  <2>2. pc[s] = "work" /\ call[s] = "write" /\ job[s] \in Save
    BY <1>10, <2>1 DEF AutoWrite, InFlight
  <2>3. PICK u \in Tx : u = cur[s] BY <2>1, <2>2 DEF InFlight, Busy
  <2>4. owner[u] = s /\ u \in tries[s] /\ status[u] \in {"open", "failed"}
    BY <2>1, <2>2, <2>3, NilIsNothing DEF InFlight, Attempted, Busy, Live
  <2>5. /\ \/ WorkOk(u, job[s]) /\ pc' = [pc EXCEPT ![s] = "return"]
           \/ WorkStops(u, job[s]) /\ pc' = [pc EXCEPT ![s] = "fail"]
        /\ UNCHANGED <<tx, call, job, tries, cur, told>>
    BY <1>10, <2>3 DEF AutoWrite
  <2>6. /\ owner' = owner
        /\ \A t \in Tx : /\ Live(t)' <=> Live(t)
                         /\ Applied(t)' <=> Applied(t)
                         /\ status'[t] = "unused" <=> status[t] = "unused"
                         /\ status'[t] \in {"unused", "open"} \/ Applied(t)' =>
                              \A y \in acked'[t] : Pieces(y, Statements) \subseteq writes'[t]
        /\ \A t \in Tx \ {u} : /\ status'[t] = status[t] /\ writes'[t] = writes[t]
                               /\ acked'[t] = acked[t]
    BY <2>2, <2>5, StatementKeeps
  <2>7. ASSUME NEW t \in Tx PROVE Accounted(t)'
    <3>1. Accounted(t) BY Known
    <3> QED BY <2>5, <2>6, <3>1 DEF Accounted
  <2>8. /\ pc'[s] \in {"return", "fail"}
        /\ \A r \in Session \ {s} : pc'[r] = pc[r]
    BY <1>0, <2>5, <2>6 DEF TypeOK
  <2>9. Attempted(s)'
    <3>1. tries[s] \subseteq Tx BY <1>0 DEF TypeOK
    <3> QED BY <2>1, <2>2, <2>3, <2>4, <2>5, <2>6, <2>8, <3>1 DEF Attempted
  <2>10. \A t \in Tx : owner[t] \notin {s, Nil} =>
            /\ status'[t] = status[t] /\ owner'[t] = owner[t] /\ writes'[t] = writes[t]
            /\ acked'[t] = acked[t] /\ told'[t] = told[t]
    BY <2>4, <2>5, <2>6
  <2> QED BY <2>5, <2>7, <2>8, <2>9, <2>10, OthersPromise
<1>11. ASSUME NEW s \in Session, DriverCommits(s) \/ DriverRollsBack(s) PROVE Promises'
  <2>1. InFlight(s) /\ Handle(s) /\ Attempted(s) BY DEF IInv, Promises
  <2>2. Busy(s) /\ pc[s] # "work" BY <1>11 DEF DriverCommits, DriverRollsBack, Busy
  <2>3. PICK u \in Tx : u = cur[s] BY <2>1, <2>2 DEF InFlight
  <2>4. owner[u] = s /\ u \in tries[s] /\ status[u] # "unused" /\ told[u] = "nothing"
    BY <2>1, <2>2, <2>3, NilIsNothing DEF InFlight, Attempted, Busy
  <2>5. CommitOk(u) \/ CommitFails(u) \/ RollbackOk(u) \/ RollbackFails(u)
    BY <1>11, <2>3 DEF DriverCommits, DriverRollsBack
  <2>6. /\ owner' = owner /\ ~ Live(u)' /\ status'[u] # "unused" /\ writes' = writes
        /\ Applied(u)' => status[u] = "open" \/ Applied(u)
        /\ \A t \in Tx \ {u} : status'[t] = status[t]
    <3>1. writes' = writes BY <2>5 DEF CommitOk, CommitFails, RollbackOk, RollbackFails
    <3> QED BY <1>0, <2>4, <2>5, <3>1, Ends
  <2>7. \/ /\ Return(s) /\ Answer({u}, "ok") /\ status'[u] = "committed"
        \/ /\ \E p \in {"again", "lost"} : pc' = [pc EXCEPT ![s] = p]
           /\ UNCHANGED <<tx, call, job, cur, told>>
    BY <1>0, <1>11, <2>3 DEF DriverCommits, DriverRollsBack, CommitOk, DriverTypeOK
  <2>8. UNCHANGED <<tries, acked>> BY <1>11 DEF DriverCommits, DriverRollsBack
  <2>9. /\ \A t \in Tx \ {u} : told'[t] = told[t]
        /\ told'[u] = "nothing" \/ (told'[u] = "ok" /\ status'[u] = "committed")
    BY <2>4, <2>7 DEF Answer
  <2>10. ASSUME NEW t \in Tx PROVE Accounted(t)'
    <3>1. Accounted(t) BY Known
    <3>2. CASE t = u BY <2>6, <2>8, <2>9, <3>1, <3>2 DEF Accounted, Live, Applied
    <3>3. CASE t # u BY <2>6, <2>8, <2>9, <3>1, <3>3 DEF Accounted, Live, Applied
    <3> QED BY <3>2, <3>3
  <2>11. \A r \in Session \ {s} : /\ tx'[r] = tx[r] /\ pc'[r] = pc[r] /\ call'[r] = call[r]
                                  /\ job'[r] = job[r] /\ cur'[r] = cur[r]
    BY <1>0, <2>7 DEF Return, TypeOK
  <2>12. Attempted(s)'
    <3>1. CASE Return(s)
      <4>1. pc'[s] = "idle" /\ call'[s] = "none" /\ tx'[s] = Nil
        BY <1>0, <2>1, <2>2, <3>1 DEF Return, TypeOK, InFlight, Handle, Call, Busy
      <4> QED BY <4>1 DEF Attempted, Busy
    <3>2. CASE /\ \E p \in {"again", "lost"} : pc' = [pc EXCEPT ![s] = p]
               /\ UNCHANGED <<tx, call, job, cur, told>>
      <4>1. pc'[s] \in {"again", "lost"} /\ call[s] # "none" /\ tries[s] \subseteq Tx
        BY <1>0, <2>1, <2>2, <3>2 DEF TypeOK, InFlight, Busy
      <4> QED BY <2>1, <2>6, <2>8, <3>2, <4>1 DEF Attempted, Busy
    <3> QED BY <2>7, <3>1, <3>2
  <2>13. \A t \in Tx : owner[t] \notin {s, Nil} =>
            /\ status'[t] = status[t] /\ owner'[t] = owner[t] /\ writes'[t] = writes[t]
            /\ acked'[t] = acked[t] /\ told'[t] = told[t]
    BY <2>4, <2>6, <2>8, <2>9
  <2> QED BY <2>8, <2>10, <2>11, <2>12, <2>13, OthersPromise
<1>12. ASSUME NEW s \in Session, GiveUp(s) PROVE Promises'
  <2>1. InFlight(s) /\ Handle(s) /\ Attempted(s) BY DEF IInv, Promises
  <2>2. /\ pc[s] \in {"again", "lost"} /\ Return(s) /\ Answer(tries[s], "error")
        /\ UNCHANGED <<driverVars, tries, acked>>
    BY <1>12 DEF GiveUp
  <2>3. pc'[s] = "idle" /\ call'[s] = "none" /\ tx'[s] = Nil /\ call[s] # "none"
    BY <1>0, <2>1, <2>2 DEF Return, TypeOK, InFlight, Handle, Call
  <2>4. Attempted(s)' BY <2>3 DEF Attempted, Busy
  <2>5. \A r \in Session \ {s} : /\ tx'[r] = tx[r] /\ pc'[r] = pc[r] /\ call'[r] = call[r]
                                 /\ job'[r] = job[r] /\ cur'[r] = cur[r]
    BY <1>0, <2>2 DEF Return, TypeOK
  <2>6. \A t \in tries[s] : t \in Tx /\ owner[t] = s /\ status[t] # "unused"
    BY <1>0, <2>1, <2>3 DEF Attempted, TypeOK
  <2>7. ASSUME NEW t \in Tx, owner[t] = s, Live(t) PROVE FALSE
    <3>1. t \in {tx[s], cur[s]} /\ t # Nil BY <2>7, LiveOnes, NilIsNothing
    <3>2. call[s] \in {"managed", "write", "read"} BY <1>0, <2>3 DEF TypeOK, Call
    <3>3. t = cur[s] BY <2>1, <3>1, <3>2 DEF Handle
    <3> QED BY <2>1, <2>2, <2>7, <3>1, <3>3 DEF InFlight
  <2>8. ASSUME NEW t \in Tx PROVE Accounted(t)'
    <3>1. Accounted(t) BY Known
    <3>2. told'[t] = IF t \in tries[s] THEN "error" ELSE told[t] BY <2>2 DEF Answer
    <3> QED BY <2>2, <2>6, <2>7, <3>1, <3>2 DEF Accounted, Live, Applied, driverVars
  <2>9. \A t \in Tx : owner[t] \notin {s, Nil} => told'[t] = told[t]
    BY <2>2, <2>6 DEF Answer
  <2> QED BY <2>2, <2>4, <2>5, <2>8, <2>9, OthersPromise DEF driverVars
<1>13. ASSUME NEW s \in Session, StartRead(s) \/ ManagedTransaction(s) PROVE Promises'
  BY <1>8, <1>13 DEF StartRead, ManagedTransaction
<1>14. ASSUME NEW s \in Session, NEW x \in Save, StartWrite(s, x) PROVE Promises'
  BY <1>8, <1>14 DEF StartWrite
<1> QED
  BY <1>1, <1>2, <1>3, <1>4, <1>5, <1>6, <1>7, <1>9, <1>10, <1>11, <1>12, <1>13, <1>14 DEF Next

\* The two invariants together hold throughout.
LEMMA Promised == Spec => [](IInv /\ Promises)
<1> QED BY IInvInit, IInvStep, PromisesInit, PromisesStep, PTL DEF Spec

\* A caller that got nil from Commit, ManagedTransaction or a write outside of a
\* transaction finds every Save that returned nil applied and complete, whatever
\* else failed (sessionv2.go, session.go).
THEOREM AckedStaysApplied == Spec => []AckedIsApplied
<1>1. Promises => AckedIsApplied BY DEF Promises, Accounted, AckedIsApplied
<1> QED BY <1>1, Promised, PTL

-------------------------------------------------------------------------------
(* A write outside of a transaction is all or nothing.                         *)

LEMMA WholeInit == Init => WritesAreWhole
  BY DEF Init, DriverInit, WritesAreWhole, Whole, OwnWrite, Busy, Applied

\* A step of session s that touches at most its own transaction u, or a new one,
\* has only s and u to answer for.
LEMMA OwnWhole ==
    ASSUME IInv, WritesAreWhole, NEW s \in Session, NEW u \in Tx, owner[u] \in {s, Nil},
           \A t \in Tx \ {u} : /\ status'[t] = status[t] /\ writes'[t] = writes[t]
                               /\ auto'[t] = auto[t],
           \A r \in Session \ {s} : /\ tx'[r] = tx[r] /\ pc'[r] = pc[r] /\ call'[r] = call[r]
                                    /\ job'[r] = job[r] /\ cur'[r] = cur[r],
           Whole(u)', OwnWrite(s)'
    PROVE  WritesAreWhole'
<1>1. ASSUME NEW t \in Tx, t # u PROVE Whole(t)'
  <2>1. Whole(t) BY DEF WritesAreWhole
  <2>2. status'[t] = status[t] /\ writes'[t] = writes[t] /\ auto'[t] = auto[t] BY <1>1
  <2> QED BY <2>1, <2>2 DEF Whole, Applied
<1>2. ASSUME NEW r \in Session \ {s} PROVE OwnWrite(r)'
  <2>1. InFlight(r) /\ Handle(r) /\ OwnWrite(r) BY DEF IInv, WritesAreWhole
  <2>2. cur[r] \in Tx \cup {Nil} /\ tx[r] \in Tx \cup {Nil} BY DEF IInv, TypeOK
  <2>3. /\ tx'[r] = tx[r] /\ pc'[r] = pc[r] /\ call'[r] = call[r]
        /\ job'[r] = job[r] /\ cur'[r] = cur[r]
    OBVIOUS
  <2>4. tx[r] # Nil => tx[r] \in Tx \ {u} BY <2>1, <2>2, NilIsNothing DEF Handle
  <2>5. Busy(r) => cur[r] \in Tx \ {u} BY <2>1, <2>2, NilIsNothing DEF InFlight
  <2>6. tx[r] # Nil => auto'[tx[r]] = auto[tx[r]] BY <2>4
  <2>7. Busy(r) => /\ status'[cur[r]] = status[cur[r]] /\ writes'[cur[r]] = writes[cur[r]]
                   /\ auto'[cur[r]] = auto[cur[r]]
    BY <2>5
  <2>8. Busy(r)' <=> Busy(r) BY <2>3 DEF Busy
  <2>9. pc[r] \in {"work", "return"} => Busy(r) BY DEF Busy
  <2> QED BY <2>1, <2>3, <2>6, <2>7, <2>8, <2>9 DEF OwnWrite
<1>3. \A t \in Tx : Whole(t)' BY <1>1
<1>4. \A r \in Session : OwnWrite(r)' BY <1>2
<1> QED BY <1>3, <1>4 DEF WritesAreWhole

\* What is known of the session that makes a step.
LEMMA WholeKnown ==
    ASSUME IInv, WritesAreWhole, NEW s \in Session
    PROVE  /\ TypeOK /\ DriverTypeOK /\ InFlight(s) /\ Handle(s) /\ OwnWrite(s)
           /\ \A t \in Tx : Whole(t) /\ Kept(t)
           /\ tx[s] # Nil => tx[s] \in Tx /\ owner[tx[s]] = s /\ auto[tx[s]] = Nil
           /\ Busy(s) => cur[s] \in Tx /\ owner[cur[s]] = s /\ auto[cur[s]] = job[s]
<1>1. /\ TypeOK /\ DriverTypeOK /\ InFlight(s) /\ Handle(s) /\ OwnWrite(s)
      /\ \A t \in Tx : Whole(t) /\ Kept(t)
  BY DEF IInv, TypeOK, WritesAreWhole
<1>2. tx[s] \in Tx \cup {Nil} BY <1>1 DEF TypeOK
<1> QED BY <1>1, <1>2, NilIsNothing DEF InFlight, Handle, OwnWrite

\* Commit, Rollback or Close of the caller's own transaction, whatever comes of it:
\* no write outside of a transaction runs in that.
LEMMA FinishWhole ==
    ASSUME IInv, WritesAreWhole, NEW s \in Session, tx[s] # Nil, call[s] = "none",
           \/ CommitOk(tx[s]) \/ CommitFails(tx[s])
           \/ RollbackOk(tx[s]) \/ RollbackFails(tx[s]),
           tx' = [tx EXCEPT ![s] = Nil] \/ tx' = tx,
           UNCHANGED <<pc, call, job, cur, auto>>
    PROVE  WritesAreWhole'
<1>1. PICK u \in Tx : u = tx[s] /\ owner[u] = s /\ auto[u] = Nil BY WholeKnown
<1>2. TypeOK /\ DriverTypeOK /\ InFlight(s) /\ OwnWrite(s) /\ Whole(u) /\ Kept(u) BY WholeKnown
<1>3. /\ writes' = writes /\ (status'[u] = "unused" => status[u] = "unused")
      /\ \A t \in Tx \ {u} : status'[t] = status[t]
  <2>1. CommitOk(u) \/ CommitFails(u) \/ RollbackOk(u) \/ RollbackFails(u) BY <1>1
  <2>2. writes' = writes BY <2>1 DEF CommitOk, CommitFails, RollbackOk, RollbackFails
  <2> QED BY <1>2, <2>1, <2>2, Ends
<1>4. Whole(u)' BY <1>1, <1>2, <1>3 DEF Whole
<1>5. \A r \in Session : tx'[r] = tx[r] \/ (r = s /\ tx'[r] = Nil) BY <1>2 DEF TypeOK
<1>6. OwnWrite(s)' BY <1>2, <1>5 DEF OwnWrite, InFlight, Busy
<1> QED BY <1>1, <1>3, <1>4, <1>5, <1>6, OwnWhole

\* A statement in a transaction that no write outside of one owns.
LEMMA StatementWhole ==
    ASSUME IInv, WritesAreWhole, NEW s \in Session, NEW u \in Tx, owner[u] = s, auto[u] = Nil,
           \/ RunFails(u) \/ (\E W \in SUBSET Write : RunOk(u, W)) \/ UNCHANGED driverVars,
           Busy(s)' => Busy(s), call[s] # "write",
           \A r \in Session \ {s} : pc'[r] = pc[r],
           UNCHANGED <<tx, call, job, cur, auto>>
    PROVE  WritesAreWhole'
<1>1. TypeOK /\ DriverTypeOK /\ OwnWrite(s) /\ Whole(u) BY WholeKnown
<1>2. /\ status'[u] = "unused" => status[u] = "unused" /\ writes'[u] = writes[u]
      /\ \A t \in Tx \ {u} : status'[t] = status[t] /\ writes'[t] = writes[t]
  <2>1. CASE RunFails(u) BY <1>1, <2>1 DEF RunFails, DriverTypeOK
  <2>2. CASE \E W \in SUBSET Write : RunOk(u, W) BY <1>1, <2>2 DEF RunOk, DriverTypeOK
  <2>3. CASE UNCHANGED driverVars BY <2>3 DEF driverVars
  <2> QED BY <2>1, <2>2, <2>3
<1>3. Whole(u)' BY <1>1, <1>2 DEF Whole
<1>4. OwnWrite(s)' BY <1>1 DEF OwnWrite, Busy
<1> QED BY <1>2, <1>3, <1>4, OwnWhole

\* Nothing, failing or not, lets another write into the transaction of a write.
LEMMA WholeStep == IInv /\ WritesAreWhole /\ [Next]_vars => WritesAreWhole'
<1> SUFFICES ASSUME IInv, WritesAreWhole, [Next]_vars PROVE WritesAreWhole'
  OBVIOUS
<1>0. TypeOK /\ DriverTypeOK BY DEF IInv, TypeOK
<1>1. CASE UNCHANGED vars
  <2>1. UNCHANGED <<driverVars, sessionVars>> BY <1>1 DEF vars
  <2> QED BY <2>1 DEF driverVars, sessionVars, WritesAreWhole, Whole, OwnWrite, Busy, Applied
<1>2. ASSUME NEW s \in Session, Begin(s) PROVE WritesAreWhole'
  <2>1. PICK u \in Tx : OpenTx(s, u, "explicit") /\ tx' = [tx EXCEPT ![s] = u]
    BY <1>2 DEF Begin
  <2>2. UNCHANGED <<pc, call, job, cur, auto>> BY <1>2 DEF Begin
  <2>3. Whole(u) /\ Kept(u) /\ OwnWrite(s) /\ InFlight(s) BY WholeKnown
  <2>4. /\ owner[u] = Nil /\ auto[u] = Nil /\ status'[u] = "open" /\ writes' = writes
        /\ \A t \in Tx \ {u} : status'[t] = status[t]
    BY <1>0, <2>1, <2>3 DEF OpenTx, Whole, Kept, DriverTypeOK
  <2>5. tx'[s] = u /\ \A r \in Session \ {s} : tx'[r] = tx[r] BY <1>0, <2>1 DEF TypeOK
  <2>6. Whole(u)' BY <2>2, <2>4 DEF Whole, Applied
  <2>7. Busy(s) => cur[s] \in Tx \ {u}
    BY <2>3, <2>4, NilIsNothing DEF InFlight
  <2>8. OwnWrite(s)' BY <2>2, <2>3, <2>4, <2>5, <2>7 DEF OwnWrite, Busy
  <2> QED BY <2>2, <2>4, <2>5, <2>6, <2>8, OwnWhole
<1>3. ASSUME NEW s \in Session, Rollback(s) \/ Commit(s) PROVE WritesAreWhole'
  <2>1. tx[s] \in Tx /\ tx[s] # Nil /\ call[s] = "none"
    BY <1>3, ExplicitIsIdle, NilIsNothing DEF Rollback, Commit
  <2> QED BY <1>3, <2>1, FinishWhole DEF Rollback, Commit
<1>4. ASSUME NEW s \in Session, Close(s) PROVE WritesAreWhole'
  <2>1. InFlight(s) /\ pc[s] = "idle" /\ call[s] = "none" /\ UNCHANGED <<pc, call, job, cur, auto>>
    BY <1>4 DEF Close, IInv, InFlight
  <2>2. CASE tx[s] = Nil
    <3>1. CloseDriverSession(s) /\ UNCHANGED tx BY <1>4, <2>2 DEF Close
    <3>2. \A t \in Tx : ~ (owner[t] = s /\ Live(t))
      BY <2>1, <2>2, LiveOnes, NilIsNothing DEF InFlight
    <3>3. UNCHANGED <<status, writes>> BY <1>0, <3>1, <3>2 DEF CloseDriverSession, DriverTypeOK
    <3> QED BY <2>1, <3>1, <3>3 DEF WritesAreWhole, Whole, OwnWrite, Busy, Applied
  <2>3. CASE tx[s] # Nil
    <3>1. /\ RollbackOk(tx[s]) \/ RollbackFails(tx[s])
          /\ tx' = [tx EXCEPT ![s] = Nil] \/ tx' = tx
      BY <1>4, <2>3 DEF Close
    <3> QED BY <2>1, <2>3, <3>1, FinishWhole
  <2> QED BY <2>2, <2>3
<1>5. ASSUME NEW s \in Session, ReadInTx(s) \/ \E x \in Save : WriteInTx(s, x)
      PROVE  WritesAreWhole'
  <2>1. tx[s] # Nil /\ UNCHANGED <<tx, pc, call, job, cur, auto>>
    BY <1>5 DEF ReadInTx, WriteInTx, sessionVars
  <2>2. PICK u \in Tx : u = tx[s] /\ owner[u] = s /\ auto[u] = Nil BY <2>1, WholeKnown
  <2>3. call[s] # "write" BY <2>1, WholeKnown DEF Handle
  <2>4. RunFails(u) \/ \E W \in SUBSET Write : RunOk(u, W)
    BY <1>5, <2>2, Works DEF ReadInTx, WriteInTx
  <2>5. Busy(s)' => Busy(s) BY <2>1 DEF Busy
  <2> QED BY <2>1, <2>2, <2>3, <2>4, <2>5, StatementWhole
<1>6. ASSUME NEW s \in Session, AutoRead(s) \/ WorkReturns(s) PROVE WritesAreWhole'
  <2>1. pc[s] = "work" /\ call[s] # "write" BY <1>6 DEF AutoRead, WorkReturns, InManaged
  <2>2. Busy(s) BY <2>1 DEF Busy
  <2>3. /\ pc' \in {[pc EXCEPT ![s] = "return"], [pc EXCEPT ![s] = "fail"]}
        /\ RunFails(cur[s]) \/ UNCHANGED driverVars
        /\ UNCHANGED <<tx, call, job, cur, auto>>
    BY <1>6 DEF AutoRead, WorkReturns
  <2>4. PICK u \in Tx : u = cur[s] /\ owner[u] = s /\ auto[u] = job[s] BY <2>2, WholeKnown
  <2>5. auto[u] = Nil BY <2>1, <2>4, WholeKnown DEF OwnWrite
  <2>6. \A r \in Session \ {s} : pc'[r] = pc[r] BY <1>0, <2>3 DEF TypeOK
  <2> QED BY <2>1, <2>2, <2>3, <2>4, <2>5, <2>6, StatementWhole
<1>7. ASSUME NEW s \in Session, NEW c \in {"managed", "write", "read"}, NEW x \in Save \cup {Nil},
             EnterDriver(s, c, x), c # "write" => x = Nil
      PROVE  WritesAreWhole'
  <2>1. UNCHANGED <<driverVars, tx, cur, auto>> BY <1>7 DEF EnterDriver
  <2>2. /\ pc'[s] = "again" /\ call'[s] = c /\ job'[s] = x
        /\ \A r \in Session \ {s} : pc'[r] = pc[r] /\ call'[r] = call[r] /\ job'[r] = job[r]
    BY <1>0, <1>7 DEF EnterDriver, TypeOK
  <2>3. OwnWrite(s)' BY <1>7, <2>1, <2>2, WholeKnown DEF OwnWrite, Busy
  <2>4. \A t \in Tx : Whole(t)' BY <2>1 DEF driverVars, WritesAreWhole, Whole, Applied
  <2>5. ASSUME NEW r \in Session \ {s} PROVE OwnWrite(r)'
    <3>1. OwnWrite(r) BY DEF WritesAreWhole
    <3> QED BY <2>1, <2>2, <3>1 DEF OwnWrite, Busy, driverVars
  <2> QED BY <2>3, <2>4, <2>5 DEF WritesAreWhole
<1>8. ASSUME NEW s \in Session, Attempt(s) PROVE WritesAreWhole'
  <2>1. PICK u \in Tx : /\ OpenTx(s, u, "function") /\ TxWork(s, u)
                        /\ cur' = [cur EXCEPT ![s] = u]
                        /\ auto' = [auto EXCEPT ![u] = job[s]]
    BY <1>8 DEF Attempt
  <2>2. Whole(u) /\ Kept(u) /\ OwnWrite(s) /\ InFlight(s) /\ Handle(s) BY WholeKnown
  <2>3. /\ owner[u] = Nil /\ writes[u] = {} /\ status'[u] = "open" /\ writes' = writes
        /\ \A t \in Tx \ {u} : status'[t] = status[t]
    BY <1>0, <2>1, <2>2 DEF OpenTx, Whole, Kept, DriverTypeOK
  <2>4. /\ pc[s] = "again" /\ pc'[s] = "work" /\ cur'[s] = u /\ auto'[u] = job[s]
        /\ \A r \in Session \ {s} : tx'[r] = tx[r] /\ pc'[r] = pc[r] /\ cur'[r] = cur[r]
        /\ \A t \in Tx \ {u} : auto'[t] = auto[t]
        /\ UNCHANGED <<call, job>>
    BY <1>0, <1>8, <2>1 DEF Attempt, TxWork, TypeOK
  <2>5. tx'[s] # Nil => tx'[s] = u /\ call[s] = "managed"
    BY <1>0, <2>1, <2>2, <2>4 DEF TxWork, Handle, InFlight, TypeOK, Call
  <2>6. Whole(u)' BY <2>3, <2>4 DEF Whole, Applied
  <2>7. OwnWrite(s)'
    <3>1. tx'[s] # Nil => auto'[tx'[s]] = Nil BY <2>2, <2>4, <2>5 DEF OwnWrite
    <3> QED BY <2>2, <2>3, <2>4, <3>1 DEF OwnWrite
  <2> QED BY <2>3, <2>4, <2>6, <2>7, OwnWhole
<1>9. ASSUME NEW s \in Session, AutoWrite(s) PROVE WritesAreWhole'
  <2>1. pc[s] = "work" /\ call[s] = "write" /\ Busy(s) BY <1>9 DEF AutoWrite, Busy
  <2>2. PICK u \in Tx : u = cur[s] /\ owner[u] = s /\ auto[u] = job[s] BY <2>1, WholeKnown
  <2>3. OwnWrite(s) /\ InFlight(s) /\ Handle(s) BY WholeKnown
  <2>4. writes[u] = {} /\ tx[s] = Nil /\ Live(u) BY <2>1, <2>2, <2>3 DEF OwnWrite, InFlight, Handle
  <2>5. /\ \/ WorkOk(u, job[s]) /\ pc' = [pc EXCEPT ![s] = "return"]
           \/ WorkStops(u, job[s]) /\ pc' = [pc EXCEPT ![s] = "fail"]
        /\ UNCHANGED <<tx, call, job, cur, auto>>
    BY <1>9, <2>2 DEF AutoWrite
  <2>6. /\ Live(u)'
        /\ \A t \in Tx \ {u} : status'[t] = status[t] /\ writes'[t] = writes[t]
    BY <1>0, <2>4, <2>5 DEF WorkOk, WorkStops, RunOk, RunFails, DriverTypeOK, Live
  <2>7. WorkOk(u, job[s]) /\ status'[u] = "open" => writes'[u] = Pieces(job[s], Statements)
    <3>1. CASE RunOk(u, Pieces(job[s], Statements))
      BY <1>0, <2>4, <3>1 DEF RunOk, DriverTypeOK
    <3>2. CASE RunFails(u) BY <1>0, <3>2 DEF RunFails, DriverTypeOK
    <3> QED BY <3>1, <3>2 DEF WorkOk
  <2>8. Whole(u)' BY <2>6 DEF Whole, Applied, Live
  <2>9. /\ pc'[s] = "return" => WorkOk(u, job[s])
        /\ pc'[s] \in {"return", "fail"}
        /\ \A r \in Session \ {s} : pc'[r] = pc[r]
    BY <1>0, <2>5 DEF TypeOK
  <2>10. OwnWrite(s)' BY <2>1, <2>2, <2>4, <2>5, <2>7, <2>9 DEF OwnWrite
  <2> QED BY <2>2, <2>5, <2>6, <2>8, <2>9, <2>10, OwnWhole
<1>10. ASSUME NEW s \in Session, DriverCommits(s) \/ DriverRollsBack(s) PROVE WritesAreWhole'
  <2>1. Busy(s) /\ pc[s] \in {"return", "fail"} BY <1>10 DEF DriverCommits, DriverRollsBack, Busy
  <2>2. PICK u \in Tx : u = cur[s] /\ owner[u] = s /\ auto[u] = job[s] BY <2>1, WholeKnown
  <2>3. OwnWrite(s) /\ InFlight(s) /\ Handle(s) /\ Whole(u) BY WholeKnown
  <2>4. CommitOk(u) \/ CommitFails(u) \/ RollbackOk(u) \/ RollbackFails(u)
    BY <1>10, <2>2 DEF DriverCommits, DriverRollsBack
  <2>5. /\ writes' = writes /\ UNCHANGED auto
        /\ \A t \in Tx \ {u} : status'[t] = status[t]
        /\ status'[u] = "unused" => status[u] = "unused"
    <3>1. writes' = writes BY <2>4 DEF CommitOk, CommitFails, RollbackOk, RollbackFails
    <3>2. UNCHANGED auto BY <1>10 DEF DriverCommits, DriverRollsBack
    <3> QED BY <1>0, <2>4, <3>1, <3>2, Ends
  <2>6. Applied(u)' => Applied(u) \/ (pc[s] = "return" /\ status[u] = "open")
    BY <1>0, <1>10, <2>2, <2>4
       DEF DriverRollsBack, DriverCommits, CommitOk, CommitFails, RollbackOk, RollbackFails,
           DriverTypeOK, Applied, Live
  <2>7. pc[s] = "return" /\ status[u] = "open" /\ auto[u] # Nil =>
           writes[u] = Pieces(auto[u], Statements)
    BY <2>2, <2>3 DEF OwnWrite
  <2>8. Whole(u)' BY <2>3, <2>5, <2>6, <2>7 DEF Whole
  <2>9. \/ Return(s)
        \/ /\ \E p \in {"again", "lost"} : pc' = [pc EXCEPT ![s] = p]
           /\ UNCHANGED <<tx, call, job, cur>>
    BY <1>10 DEF DriverCommits, DriverRollsBack
  <2>10. /\ \A r \in Session \ {s} : /\ tx'[r] = tx[r] /\ pc'[r] = pc[r] /\ call'[r] = call[r]
                                     /\ job'[r] = job[r] /\ cur'[r] = cur[r]
         /\ OwnWrite(s)'
    <3>1. CASE Return(s)
      <4>1. call[s] # "none" BY <2>1, <2>3 DEF InFlight
      <4> QED BY <1>0, <2>3, <3>1, <4>1 DEF Return, TypeOK, Call, Handle, OwnWrite, Busy
    <3>2. CASE /\ \E p \in {"again", "lost"} : pc' = [pc EXCEPT ![s] = p]
               /\ UNCHANGED <<tx, call, job, cur>>
      BY <1>0, <2>3, <2>5, <3>2 DEF TypeOK, OwnWrite, Busy
    <3> QED BY <2>9, <3>1, <3>2
  <2> QED BY <2>2, <2>5, <2>8, <2>10, OwnWhole
<1>11. ASSUME NEW s \in Session, GiveUp(s) PROVE WritesAreWhole'
  <2>1. pc[s] \in {"again", "lost"} /\ Return(s) /\ UNCHANGED <<driverVars, auto>>
    BY <1>11 DEF GiveUp
  <2>2. InFlight(s) /\ Handle(s) /\ OwnWrite(s) BY WholeKnown
  <2>3. /\ pc'[s] = "idle" /\ call'[s] = "none" /\ tx'[s] = Nil /\ job'[s] = Nil
        /\ \A r \in Session \ {s} : /\ tx'[r] = tx[r] /\ pc'[r] = pc[r] /\ call'[r] = call[r]
                                    /\ job'[r] = job[r] /\ cur'[r] = cur[r]
    BY <1>0, <2>1, <2>2 DEF Return, TypeOK, InFlight, Handle, Call
  <2>4. OwnWrite(s)' BY <2>3 DEF OwnWrite, Busy
  <2>5. ASSUME NEW r \in Session \ {s} PROVE OwnWrite(r)'
    <3>1. OwnWrite(r) BY DEF WritesAreWhole
    <3> QED BY <2>1, <2>3, <3>1 DEF OwnWrite, Busy, driverVars
  <2>6. \A t \in Tx : Whole(t)' BY <2>1 DEF driverVars, WritesAreWhole, Whole, Applied
  <2> QED BY <2>4, <2>5, <2>6 DEF WritesAreWhole
<1>12. ASSUME NEW s \in Session, StartRead(s) \/ ManagedTransaction(s) PROVE WritesAreWhole'
  BY <1>7, <1>12 DEF StartRead, ManagedTransaction
<1>13. ASSUME NEW s \in Session, NEW x \in Save, StartWrite(s, x) PROVE WritesAreWhole'
  BY <1>7, <1>13 DEF StartWrite
<1> QED
  BY <1>1, <1>2, <1>3, <1>4, <1>5, <1>6, <1>8, <1>9, <1>10, <1>11, <1>12, <1>13 DEF Next

\* Whichever attempt of a write outside of a transaction was ever committed, its
\* answer lost or not, holds all of that write's statements and nothing else:
\* runWrite hands every error of its statements to the driver, which commits only
\* what returned nil, and a transaction whose failure nobody noticed is not committed.
THEOREM AutoStaysAtomic == Spec => []AutoIsAtomic
<1>1. WritesAreWhole => AutoIsAtomic BY DEF WritesAreWhole, Whole, AutoIsAtomic
<1>2. Spec => []WritesAreWhole
  <2>1. Spec => [](IInv /\ WritesAreWhole)
    BY IInvInit, IInvStep, WholeInit, WholeStep, PTL DEF Spec
  <2> QED BY <2>1, PTL
<1> QED BY <1>1, <1>2, PTL

-------------------------------------------------------------------------------
(* The sessions of GogmSession implement AcidTransactions: hidden behind      *)
(* handles, retries and failed calls, every transaction starts, performs,     *)
(* is decided once, and its caller is told nothing that is not so.            *)

\* The abstract phase of every transaction.
Phases == [t \in Tx |-> Phase(t)]

\* The phase of a transaction, status by status.
LEMMA PhaseOf ==
    ASSUME NEW t \in Tx, status[t] \in Status
    PROVE  /\ status[t] = "unused" => Phase(t) = "idle"
           /\ status[t] = "open" => Phase(t) = "active"
           /\ Applied(t) => Phase(t) = "committed"
           /\ status[t] \in {"failed", "rolledback", "lostDropped"} => Phase(t) = "aborted"
  BY DEF Phase, Applied, Status

\* The same in the next state.
LEMMA PhaseOfNext ==
    ASSUME NEW t \in Tx, status'[t] \in Status
    PROVE  /\ status'[t] = "unused" => Phase(t)' = "idle"
           /\ status'[t] = "open" => Phase(t)' = "active"
           /\ status'[t] \in {"committed", "lostApplied"} => Phase(t)' = "committed"
           /\ status'[t] \in {"failed", "rolledback", "lostDropped"} => Phase(t)' = "aborted"
  BY DEF Phase, Applied, Status

\* A step that changes the status of one transaction changes that phase only.
LEMMA OnePhase ==
    ASSUME NEW u \in Tx, \A t \in Tx \ {u} : status'[t] = status[t]
    PROVE  Phases' = [Phases EXCEPT ![u] = Phase(u)']
<1>1. \A t \in Tx \ {u} : Phase(t)' = Phase(t) BY DEF Phase, Applied
<1> QED BY <1>1 DEF Phases

\* The driver's decision, with what the caller is told at once.
LEMMA Decided ==
    ASSUME DriverTypeOK, DriverTypeOK', NEW u \in Tx, NEW a \in Told,
           status[u] = "open", \A t \in Tx \ {u} : status'[t] = status[t],
           status'[u] \notin {"unused", "open"},
           a = "ok" => Applied(u)', a = "rolledback" => ~ Applied(u)',
           told' = [told EXCEPT ![u] = a], writes' = writes
    PROVE  Acid!Next
<1>1. Phases[u] = "active" BY PhaseOf DEF DriverTypeOK, Phases
<1>2. /\ Phase(u)' \in {"committed", "aborted"}
      /\ Phase(u)' = "committed" <=> Applied(u)'
  BY PhaseOfNext DEF DriverTypeOK, Status, Applied
<1>3. Phases' = [Phases EXCEPT ![u] = Phase(u)'] BY OnePhase
<1>4. a \in Acid!Truthful(Phase(u)') BY <1>2 DEF Acid!Truthful, Told
<1>5. Acid!Decide(u, Phase(u)', a) BY <1>1, <1>2, <1>3, <1>4 DEF Acid!Decide, Phases
<1>6. Phase(u)' \in Acid!Phase /\ a \in Acid!Told BY <1>2 DEF Acid!Phase, Acid!Told, Told
<1> QED BY <1>5, <1>6 DEF Acid!Next

\* A caller learns what became of transactions that are over.
LEMMA Announced ==
    ASSUME DriverTypeOK, NEW T \in SUBSET Tx, NEW a \in Told,
           \A t \in T : /\ status[t] \notin {"unused", "open"} /\ told[t] \in {"nothing", "error"}
                        /\ a # "ok" /\ (a = "rolledback" => ~ Applied(t)),
           Phases' = Phases, UNCHANGED writes, Answer(T, a)
    PROVE  Acid!Next
<1>1. \A t \in T : /\ Phases[t] \in {"committed", "aborted"}
                   /\ Phases[t] = "aborted" \/ a # "rolledback"
  BY PhaseOf DEF DriverTypeOK, Phases, Status, Applied
<1>2. \A t \in T : a \in Acid!Truthful(Phases[t]) BY <1>1 DEF Acid!Truthful, Told
<1>3. Acid!Tell(T, a) BY <1>1, <1>2 DEF Acid!Tell, Phases, Answer
<1> QED BY <1>3 DEF Acid!Next, Acid!Told, Told

\* Commit and Rollback of a transaction, with the answer to the caller, if any.
LEMMA Ended ==
    ASSUME DriverTypeOK, DriverTypeOK', told \in [Tx -> Told], NEW u \in Tx, NEW a \in Told,
           status[u] # "unused", told[u] \in {"nothing", "error"},
           CommitOk(u) \/ CommitFails(u) \/ RollbackOk(u) \/ RollbackFails(u),
           Answer({u}, a), a = "ok" => CommitOk(u), a = "rolledback" => RollbackOk(u)
    PROVE  Acid!Next
<1>1. /\ writes' = writes /\ ~ Live(u)' /\ status'[u] # "unused"
      /\ \A t \in Tx \ {u} : status'[t] = status[t]
  <2>1. writes' = writes BY DEF CommitOk, CommitFails, RollbackOk, RollbackFails
  <2> QED BY <2>1, Ends
<1>2. told' = [told EXCEPT ![u] = a] BY DEF Answer
<1>3. (CommitOk(u) => Applied(u)') /\ (RollbackOk(u) => ~ Applied(u)')
  BY DEF CommitOk, RollbackOk, DriverTypeOK, Applied
<1>4. CASE status[u] = "open" BY <1>1, <1>2, <1>3, <1>4, Decided DEF Live
<1>5. CASE status[u] # "open"
  <2>1. ~ CommitOk(u) /\ a # "ok" BY <1>5 DEF CommitOk
  <2>2. Phase(u)' = Phase(u)
    BY <1>5, <2>1, PhaseOf, PhaseOfNext
       DEF CommitFails, RollbackOk, RollbackFails, DriverTypeOK, Status, Live, Applied
  <2>3. Phases' = Phases BY <1>1, <2>2, OnePhase DEF Phases
  <2>4. a = "rolledback" => ~ Applied(u) BY DEF RollbackOk, Live, Applied
  <2> QED BY <1>1, <1>5, <2>1, <2>3, <2>4, Announced
<1> QED BY <1>4, <1>5

\* A statement adds to its transaction, or fails it.
LEMMA Performed ==
    ASSUME DriverTypeOK, DriverTypeOK', told \in [Tx -> Told], NEW u \in Tx,
           status[u] = "open" => told[u] = "nothing",
           RunFails(u) \/ \E W \in SUBSET Write : RunOk(u, W), told' = told
    PROVE  Acid!Next \/ UNCHANGED Acid!vars
<1>1. CASE RunFails(u) /\ status[u] = "open"
  <2>1. /\ status'[u] = "failed" /\ writes' = writes
        /\ \A t \in Tx \ {u} : status'[t] = status[t]
    BY <1>1 DEF RunFails, DriverTypeOK
  <2>2. told' = [told EXCEPT ![u] = "nothing"] BY <1>1
  <2> QED BY <1>1, <2>1, <2>2, Decided DEF Told
<1>2. CASE RunFails(u) /\ status[u] # "open"
  BY <1>2 DEF RunFails, DriverTypeOK, Phase, Applied, Acid!vars
<1>3. CASE \E W \in SUBSET Write : RunOk(u, W)
  <2>1. PICK W \in SUBSET Write : RunOk(u, W) BY <1>3
  <2>2. Phases' = Phases BY <2>1 DEF RunOk, Phases, Phase, Applied
  <2>3. Phases[u] = "active" BY <2>1, PhaseOf DEF RunOk, DriverTypeOK, Phases
  <2>4. Acid!Perform(u, W) BY <2>1, <2>2, <2>3 DEF RunOk, Acid!Perform, Phases
  <2> QED BY <2>4 DEF Acid!Next
<1> QED BY <1>1, <1>2, <1>3

\* BeginTransaction.
LEMMA Started ==
    ASSUME DriverTypeOK, DriverTypeOK', NEW s \in Session, NEW u \in Tx, NEW k \in Kind,
           OpenTx(s, u, k), told' = told
    PROVE  Acid!Next
<1>1. /\ status[u] = "unused" /\ status'[u] = "open" /\ writes' = writes
      /\ \A t \in Tx \ {u} : status'[t] = status[t]
  BY DEF OpenTx, DriverTypeOK
<1>2. Phases[u] = "idle" /\ Phase(u)' = "active"
  BY <1>1, PhaseOf, PhaseOfNext DEF DriverTypeOK, Phases
<1>3. Acid!Start(u) BY <1>1, <1>2, OnePhase DEF Acid!Start, Phases
<1> QED BY <1>3 DEF Acid!Next

\* Steps that neither call the driver nor return to the caller are hidden.
LEMMA Hidden ==
    ASSUME UNCHANGED <<status, writes, told>>
    PROVE  UNCHANGED Acid!vars
  BY DEF Phase, Applied, Acid!vars

\* Initially no transaction exists in either.
LEMMA AcidInit == Init => Acid!Init
<1> SUFFICES ASSUME Init PROVE Acid!Init
  OBVIOUS
<1>1. \A t \in Tx : Phase(t) = "idle" BY PhaseOf DEF Init, DriverInit, Status
<1> QED BY <1>1 DEF Init, DriverInit, Acid!Init

\* Every step of a session is a step of the abstract transactions, or hidden.
LEMMA AcidStep == IInv /\ Promises /\ [Next]_vars => [Acid!Next]_(Acid!vars)
<1> SUFFICES ASSUME IInv, Promises, [Next]_vars PROVE Acid!Next \/ UNCHANGED Acid!vars
  OBVIOUS
<1>0. TypeOK /\ DriverTypeOK /\ DriverTypeOK' /\ told \in [Tx -> Told]
  BY TypeStep DEF IInv, TypeOK
<1>1. CASE UNCHANGED vars BY <1>1, Hidden DEF vars, driverVars, sessionVars
<1>2. ASSUME NEW s \in Session, Begin(s) \/ Attempt(s) PROVE Acid!Next
  <2>1. \E u \in Tx, k \in Kind : OpenTx(s, u, k) BY <1>2 DEF Begin, Attempt, Kind
  <2>2. told' = told BY <1>2 DEF Begin, Attempt
  <2> QED BY <1>0, <2>1, <2>2, Started
<1>3. ASSUME NEW s \in Session,
             \/ Rollback(s) \/ Commit(s)
             \/ Close(s) /\ tx[s] # Nil
      PROVE  Acid!Next
  <2>1. InFlight(s) /\ Handle(s) /\ Attempted(s) BY DEF IInv, Promises
  <2>2. tx[s] \in Tx /\ tx[s] # Nil /\ call[s] = "none"
    BY <1>0, <1>3, <2>1, ExplicitIsIdle, NilIsNothing
       DEF Rollback, Commit, Close, TypeOK, InFlight
  <2>3. status[tx[s]] # "unused" /\ told[tx[s]] \in {"nothing", "error"}
    BY <2>1, <2>2, Known, NilIsNothing DEF Handle, Kept, Attempted
  <2>4. /\ CommitOk(tx[s]) \/ CommitFails(tx[s]) \/ RollbackOk(tx[s]) \/ RollbackFails(tx[s])
        /\ \E a \in Told : /\ Answer({tx[s]}, a)
                           /\ a = "ok" => CommitOk(tx[s])
                           /\ a = "rolledback" => RollbackOk(tx[s])
    BY <1>3, <2>2 DEF Rollback, Commit, Close, Told
  <2> QED BY <1>0, <2>2, <2>3, <2>4, Ended
<1>4. ASSUME NEW s \in Session, Close(s), tx[s] = Nil PROVE UNCHANGED Acid!vars
  <2>1. CloseDriverSession(s) /\ UNCHANGED told /\ cur[s] = Nil
    BY <1>4 DEF Close, IInv, InFlight
  <2>2. \A t \in Tx : ~ (owner[t] = s /\ Live(t)) BY <1>4, <2>1, LiveOnes, NilIsNothing
  <2>3. UNCHANGED <<status, writes>>
    BY <1>0, <2>1, <2>2 DEF CloseDriverSession, DriverTypeOK
  <2> QED BY <2>1, <2>3, Hidden
<1>5. ASSUME NEW s \in Session,
             ReadInTx(s) \/ AutoWrite(s) \/ AutoRead(s) \/ \E x \in Save : WriteInTx(s, x)
      PROVE  Acid!Next \/ UNCHANGED Acid!vars
  <2>1. told' = told
    BY <1>5 DEF ReadInTx, AutoWrite, AutoRead, WriteInTx, sessionVars
  <2>2. pc[s] = "work" => cur[s] \in Tx BY DEF IInv, InFlight, Busy
  <2>3. call[s] = "write" => job[s] \in Save BY DEF IInv, InFlight
  <2>4. \/ UNCHANGED driverVars
        \/ \E u \in Tx : RunFails(u) \/ \E W \in SUBSET Write : RunOk(u, W)
    <3>1. CASE ReadInTx(s) BY <1>0, <3>1 DEF ReadInTx, TypeOK
    <3>2. CASE AutoRead(s) BY <2>2, <3>2 DEF AutoRead
    <3>3. CASE AutoWrite(s) BY <2>2, <2>3, <3>3, Works DEF AutoWrite
    <3>4. CASE \E x \in Save : WriteInTx(s, x)
      <4>1. tx[s] \in Tx BY <1>0, <3>4 DEF WriteInTx, TypeOK
      <4> QED BY <3>4, <4>1, Works DEF WriteInTx
    <3> QED BY <1>5, <3>1, <3>2, <3>3, <3>4
  <2>5. \A u \in Tx : status[u] = "open" => told[u] = "nothing"
    BY Known DEF Accounted, Live
  <2>6. CASE UNCHANGED driverVars BY <2>1, <2>6, Hidden DEF driverVars
  <2>7. CASE \E u \in Tx : RunFails(u) \/ \E W \in SUBSET Write : RunOk(u, W)
    <3>1. PICK u \in Tx : RunFails(u) \/ \E W \in SUBSET Write : RunOk(u, W) BY <2>7
    <3> QED BY <1>0, <2>1, <2>5, <3>1, Performed
  <2> QED BY <2>4, <2>6, <2>7
<1>6. ASSUME NEW s \in Session, DriverCommits(s) \/ DriverRollsBack(s) PROVE Acid!Next
  <2>1. InFlight(s) /\ Attempted(s) BY DEF IInv, Promises
  <2>2. Busy(s) BY <1>6 DEF DriverCommits, DriverRollsBack, Busy
  <2>3. /\ cur[s] \in Tx /\ status[cur[s]] # "unused" /\ told[cur[s]] = "nothing"
    BY <2>1, <2>2 DEF InFlight, Attempted, Busy
  <2>4. told' = told \/ (CommitOk(cur[s]) /\ Answer({cur[s]}, "ok"))
    BY <1>6 DEF DriverCommits, DriverRollsBack
  <2>5. \E a \in Told : /\ Answer({cur[s]}, a)
                        /\ a = "ok" => CommitOk(cur[s])
                        /\ a # "rolledback"
    <3>1. CASE told' = told
      <4>1. Answer({cur[s]}, "nothing") BY <1>0, <2>3, <3>1 DEF Answer
      <4> QED BY <4>1 DEF Told
    <3>2. CASE CommitOk(cur[s]) /\ Answer({cur[s]}, "ok") BY <3>2 DEF Told
    <3> QED BY <2>4, <3>1, <3>2
  <2>6. \/ CommitOk(cur[s]) \/ CommitFails(cur[s])
        \/ RollbackOk(cur[s]) \/ RollbackFails(cur[s])
    BY <1>6 DEF DriverCommits, DriverRollsBack
  <2> QED BY <1>0, <2>3, <2>5, <2>6, Ended
<1>7. ASSUME NEW s \in Session, GiveUp(s) PROVE Acid!Next
  <2>1. InFlight(s) /\ Handle(s) /\ Attempted(s) BY DEF IInv, Promises
  <2>2. pc[s] \in {"again", "lost"} /\ Answer(tries[s], "error") /\ UNCHANGED driverVars
    BY <1>7 DEF GiveUp
  <2>3. call[s] \in {"managed", "write", "read"} BY <1>0, <2>1, <2>2 DEF InFlight, TypeOK, Call
  <2>4. \A t \in tries[s] : t \in Tx /\ owner[t] = s /\ status[t] # "unused" /\ told[t] = "nothing"
    BY <1>0, <2>1, <2>3 DEF Attempted, TypeOK
  <2>5. ASSUME NEW t \in tries[s], status[t] = "open" PROVE FALSE
    <3>1. t \in {tx[s], cur[s]} /\ t # Nil
      BY <2>4, <2>5, LiveOnes, NilIsNothing DEF Live
    <3>2. t = cur[s] BY <2>1, <2>3, <3>1 DEF Handle
    <3> QED BY <2>1, <2>2, <2>5, <3>1, <3>2 DEF InFlight, Live
  <2>6. Phases' = Phases BY <2>2 DEF driverVars, Phases, Phase, Applied
  <2>7. tries[s] \in SUBSET Tx BY <1>0 DEF TypeOK
  <2> QED BY <1>0, <2>2, <2>4, <2>5, <2>6, <2>7, Announced DEF driverVars, Told
<1>8. ASSUME NEW s \in Session,
             \/ StartRead(s) \/ ManagedTransaction(s) \/ WorkReturns(s)
             \/ \E x \in Save : StartWrite(s, x)
      PROVE  UNCHANGED Acid!vars
  BY <1>8, Hidden DEF StartRead, ManagedTransaction, StartWrite, EnterDriver, WorkReturns, driverVars
<1> QED BY <1>1, <1>2, <1>3, <1>4, <1>5, <1>6, <1>7, <1>8 DEF Next

\* GoGM's sessions implement the ACID transactions its README promises: for any
\* number of sessions and retries, a transaction takes effect at one point or not at
\* all, and every caller is told the truth about it.
THEOREM SessionsAreAcid == Spec => AcidSpec
<1> QED BY AcidInit, AcidStep, Promised, PTL DEF Spec, AcidSpec, Acid!Spec

Facts == INSTANCE AcidTransactions_proofs WITH phase <- [t \in Tx |-> Phase(t)], data <- writes

\* Whoever was told by a session that a transaction is committed, or rolled back,
\* was told so truly, and it stays so (Commit, Rollback and Close of sessionv2.go).
THEOREM SessionsAreHonest == Spec => []Acid!Honest
<1>1. Facts!Spec <=> Acid!Spec
  <2>1. Facts!Init <=> Acid!Init BY DEF Facts!Init, Acid!Init
  <2>2. [Facts!Next]_(Facts!vars) <=> [Acid!Next]_(Acid!vars)
    BY DEF Facts!Next, Acid!Next, Facts!vars, Acid!vars, Facts!Start, Acid!Start,
           Facts!Perform, Acid!Perform, Facts!Decide, Acid!Decide, Facts!Tell, Acid!Tell,
           Facts!Truthful, Acid!Truthful, Facts!Phase, Acid!Phase, Facts!Told, Acid!Told
  <2> QED BY <2>1, <2>2, PTL DEF Facts!Spec, Acid!Spec
<1>2. Facts!Honest <=> Acid!Honest BY DEF Facts!Honest, Acid!Honest
<1> QED BY <1>1, <1>2, SessionsAreAcid, Facts!CallersAreToldTheTruth, PTL DEF AcidSpec
===============================================================================
