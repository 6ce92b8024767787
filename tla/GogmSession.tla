------------------------------ MODULE GogmSession ------------------------------
(***************************************************************************)
(* SessionV2Impl (sessionv2.go) and the deprecated Session (session.go):   *)
(* explicit transactions, the transaction that every write or read outside *)
(* of one is wrapped in, and ManagedTransaction with the driver's retries. *)
(* A session is used by one goroutine; sessions interleave.  The actions   *)
(* of a session call into Neo4jDriver.  What the statements of a Save do   *)
(* is SaveWork's concern: here a Save is a token, written one numbered     *)
(* piece per statement.                                                    *)
(***************************************************************************)
EXTENDS Neo4jDriver, Integers, FiniteSets

CONSTANTS V2,          \* the sessions that are SessionV2Impl; the others are Session
          Save,        \* what calls can write: one token per Save, Delete or Query
          Statements,  \* statements of one such call (createNodes, removeRelations, relateNodes)
          MaxAttempts  \* bound: attempts the driver makes before it gives up retrying

ASSUME BoundsAreNat == Statements \in Nat \ {0} /\ MaxAttempts \in Nat \ {0}
ASSUME V2Sessions == V2 \subseteq Session
ASSUME WritesAreNumbered == Write = Save \X (1..Statements)

VARIABLES tx,       \* the field s.tx
          closed,   \* Close has closed s.neoSess
          pc,       \* where the session's goroutine is
          call,     \* the call in flight: "managed", "write" or "read"
          job,      \* the token of a "write" call
          tries,    \* the transactions the driver opened for the call in flight
          cur,      \* the newest of them
          auto,     \* history: per transaction, the token of the "write" call it was opened for
          acked,    \* per transaction: the tokens whose Save returned nil in it
          told      \* per transaction: what its caller was told of it

sessionVars == <<tx, closed, pc, call, job, tries, cur, auto, acked, told>>
vars == <<driverVars, sessionVars>>

\* "work": the driver runs the work function; "return", "fail": it returned nil,
\* or an error; "again": the driver decides about a retry; "lost": about a
\* commit whose outcome is unknown, which it does not retry.
Pc   == {"idle", "work", "return", "fail", "again", "lost"}
Call == {"none", "managed", "write", "read"}
Told == {"nothing", "ok", "rolledback", "error"}

Init == /\ DriverInit
        /\ tx       = [s \in Session |-> Nil]
        /\ closed   = [s \in Session |-> FALSE]
        /\ pc       = [s \in Session |-> "idle"]
        /\ call     = [s \in Session |-> "none"]
        /\ job      = [s \in Session |-> Nil]
        /\ tries    = [s \in Session |-> {}]
        /\ cur      = [s \in Session |-> Nil]
        /\ auto     = [t \in Tx |-> Nil]
        /\ acked    = [t \in Tx |-> {}]
        /\ told     = [t \in Tx |-> "nothing"]

TypeOK == /\ DriverTypeOK
          /\ tx \in [Session -> Tx \cup {Nil}]
          /\ closed \in [Session -> BOOLEAN]
          /\ pc \in [Session -> Pc]
          /\ call \in [Session -> Call]
          /\ job \in [Session -> Save \cup {Nil}]
          /\ tries \in [Session -> SUBSET Tx]
          /\ cur \in [Session -> Tx \cup {Nil}]
          /\ auto \in [Tx -> Save \cup {Nil}]
          /\ acked \in [Tx -> SUBSET Save]
          /\ told \in [Tx -> Told]

-------------------------------------------------------------------------------
\* The caller may call: between calls, or from within the work of a ManagedTransaction.
InManaged(s) == pc[s] = "work" /\ call[s] = "managed"
CanCall(s)   == ~ closed[s] /\ (pc[s] = "idle" \/ InManaged(s))

Answer(T, a) == told' = [t \in Tx |-> IF t \in T THEN a ELSE told[t]]

\* The writes of the first n statements of a call with token x.
Pieces(x, n) == {x} \X (1..n)

\* A call that only returns an error, Begin with a transaction pending or Commit
\* of none for instance, changes nothing: it is a stuttering step.

Begin(s) == /\ CanCall(s)
            /\ tx[s] = Nil
            /\ \E t \in Tx : /\ OpenTx(s, t, "explicit")
                             /\ tx' = [tx EXCEPT ![s] = t]
            /\ UNCHANGED <<closed, pc, call, job, tries, cur, auto, acked, told>>

\* The driver refuses Commit, Rollback and Close on the transaction it passes to
\* a work function, so inside a ManagedTransaction these calls only return an error.
HasExplicit(s) == CanCall(s) /\ tx[s] # Nil /\ kind[tx[s]] = "explicit"

\* Faulty: the field is cleared and nil returned, tx.Rollback is never called.
RollbackForgets(s) ==
    /\ HasExplicit(s)
    /\ tx' = [tx EXCEPT ![s] = Nil]
    /\ Answer({tx[s]}, "rolledback")
    /\ UNCHANGED <<driverVars, closed, pc, call, job, tries, cur, auto, acked>>

\* tx.Rollback, then tx.Close; the field is cleared only when both succeed.
Rollback(s) ==
    /\ HasExplicit(s)
    /\ \/ /\ RollbackOk(tx[s])
          /\ \/ /\ tx' = [tx EXCEPT ![s] = Nil]
                /\ Answer({tx[s]}, "rolledback")
             \/ /\ s \in V2   \* tx.Close failed
                /\ Answer({tx[s]}, "error")
                /\ UNCHANGED tx
       \/ /\ RollbackFails(tx[s])
          /\ Answer({tx[s]}, "error")
          /\ UNCHANGED tx
    /\ UNCHANGED <<closed, pc, call, job, tries, cur, auto, acked>>

\* Faulty: the error of tx.Commit is dropped.
CommitIgnoresError(s) ==
    /\ HasExplicit(s)
    /\ CommitOk(tx[s]) \/ CommitFails(tx[s])
    /\ tx' = [tx EXCEPT ![s] = Nil]
    /\ Answer({tx[s]}, "ok")
    /\ UNCHANGED <<closed, pc, call, job, tries, cur, auto, acked>>

\* tx.Commit, then tx.Close; the field is cleared only when both succeed.
Commit(s) ==
    /\ HasExplicit(s)
    /\ \/ /\ CommitOk(tx[s])
          /\ \/ /\ tx' = [tx EXCEPT ![s] = Nil]
                /\ Answer({tx[s]}, "ok")
             \/ /\ s \in V2   \* tx.Close failed
                /\ Answer({tx[s]}, "error")
                /\ UNCHANGED tx
       \/ /\ CommitFails(tx[s])
          /\ Answer({tx[s]}, "error")
          /\ UNCHANGED tx
    /\ UNCHANGED <<closed, pc, call, job, tries, cur, auto, acked>>

\* A pending transaction is rolled back first; when that fails neoSess stays open.
Close(s) ==
    /\ CanCall(s) /\ pc[s] = "idle"
    /\ \/ /\ tx[s] = Nil
          /\ CloseDriverSession(s)
          /\ closed' = [closed EXCEPT ![s] = TRUE]
          /\ UNCHANGED <<tx, told>>
       \/ /\ tx[s] # Nil
          /\ RollbackOk(tx[s])
          /\ tx' = [tx EXCEPT ![s] = Nil]
          /\ Answer({tx[s]}, "rolledback")
          /\ closed' = [closed EXCEPT ![s] = TRUE]
       \/ /\ tx[s] # Nil
          /\ RollbackFails(tx[s])
          /\ Answer({tx[s]}, "error")
          /\ UNCHANGED <<tx, closed>>
    /\ UNCHANGED <<pc, call, job, tries, cur, auto, acked>>

\* Faulty: the error of a later statement is dropped and the Save returns nil.
WorkOkTooSoon(t, x) == /\ \E n \in 0..Statements : RunOk(t, Pieces(x, n))
                       /\ acked' = [acked EXCEPT ![t] = @ \cup {x}]

\* The statements of a write in transaction t return nil: all of them are done, or
\* the result of one broke off and with it the transaction, which nobody notices
\* (decode and parseResult, and so createNodes, drop the error of a stream).
WorkOk(t, x)    == /\ \/ RunOk(t, Pieces(x, Statements))
                      \/ status[t] = "open" /\ RunFails(t)
                   /\ acked' = [acked EXCEPT ![t] = @ \cup {x}]

\* Or an error: of GoGM's own after some of them, or of a statement that fails
\* and with it the transaction.
WorkStops(t, x) == /\ \/ \E n \in 0..Statements : RunOk(t, Pieces(x, n))
                      \/ RunFails(t)
                   /\ UNCHANGED acked

\* runWrite with s.tx set: the work runs in it and its error is passed on.
WriteInTx(s, x) == /\ CanCall(s)
                   /\ tx[s] # Nil
                   /\ WorkOk(tx[s], x) \/ WorkStops(tx[s], x)
                   /\ UNCHANGED <<tx, closed, pc, call, job, tries, cur, auto, told>>

\* runReadOnly with s.tx set; decode changes the caller's objects only.
ReadInTx(s) == /\ CanCall(s)
               /\ tx[s] # Nil
               /\ RunFails(tx[s])
               /\ UNCHANGED sessionVars

\* Faulty: the check for a pending transaction is missing.
NoPendingUnchecked(s) == s \in Session

NoPending(s) == tx[s] = Nil

\* Read-, WriteTransaction are entered: the driver is about to make its first attempt.
EnterDriver(s, c, x) == /\ CanCall(s)
                        /\ pc[s] = "idle"
                        /\ NoPending(s)
                        /\ pc' = [pc EXCEPT ![s] = "again"]
                        /\ call' = [call EXCEPT ![s] = c]
                        /\ job' = [job EXCEPT ![s] = x]
                        /\ tries' = [tries EXCEPT ![s] = {}]
                        /\ UNCHANGED <<driverVars, tx, closed, cur, auto, acked, told>>

StartWrite(s, x) == EnterDriver(s, "write", x)

StartRead(s) == EnterDriver(s, "read", Nil)

ManagedTransaction(s) == s \in V2 /\ EnterDriver(s, "managed", Nil)

\* Faulty: only a nil s.tx is set, so a retry keeps the handle of the attempt before;
\* and: the driver's session is stored where its transaction belongs.
TxWorkOnce(s, t)  == tx' = IF call[s] = "managed" /\ tx[s] = Nil THEN [tx EXCEPT ![s] = t] ELSE tx
TxWorkWrong(s, t) == tx' = IF call[s] = "managed" THEN [tx EXCEPT ![s] = s] ELSE tx

\* What the work function does before the caller's work: txWork points the
\* session at the transaction of this attempt; saveDepth's leaves s.tx nil.
TxWork(s, t) == tx' = IF call[s] = "managed" THEN [tx EXCEPT ![s] = t] ELSE tx

Attempt(s) == /\ pc[s] = "again"
              /\ Cardinality(tries[s]) < MaxAttempts
              /\ \E t \in Tx : /\ OpenTx(s, t, "function")
                               /\ TxWork(s, t)
                               /\ cur' = [cur EXCEPT ![s] = t]
                               /\ tries' = [tries EXCEPT ![s] = @ \cup {t}]
                               /\ auto' = [auto EXCEPT ![t] = job[s]]
              /\ pc' = [pc EXCEPT ![s] = "work"]
              /\ UNCHANGED <<closed, call, job, acked, told>>

\* Faulty: the work function returns nil whatever saveDepth returned.
AutoWriteSwallows(s) == /\ pc[s] = "work" /\ call[s] = "write"
                        /\ WorkOk(cur[s], job[s]) \/ WorkStops(cur[s], job[s])
                        /\ pc' = [pc EXCEPT ![s] = "return"]
                        /\ UNCHANGED <<tx, closed, call, job, tries, cur, auto, told>>

\* The work of a write outside a transaction; nil lets the driver commit.
AutoWrite(s) == /\ pc[s] = "work" /\ call[s] = "write"
                /\ \/ /\ WorkOk(cur[s], job[s])
                      /\ pc' = [pc EXCEPT ![s] = "return"]
                   \/ /\ WorkStops(cur[s], job[s])
                      /\ pc' = [pc EXCEPT ![s] = "fail"]
                /\ UNCHANGED <<tx, closed, call, job, tries, cur, auto, told>>

AutoRead(s) == /\ pc[s] = "work" /\ call[s] = "read"
               /\ \/ /\ pc' = [pc EXCEPT ![s] = "return"]
                     /\ UNCHANGED driverVars
                  \/ /\ pc' = [pc EXCEPT ![s] = "fail"]
                     /\ RunFails(cur[s]) \/ UNCHANGED driverVars   \* Run or decode
               /\ UNCHANGED <<tx, closed, call, job, tries, cur, auto, acked, told>>

\* The caller's work ends; whatever its calls returned, it may return nil or an error.
WorkReturns(s) == /\ InManaged(s)
                  /\ \E r \in {"return", "fail"} : pc' = [pc EXCEPT ![s] = r]
                  /\ UNCHANGED <<driverVars, tx, closed, call, job, tries, cur, auto, acked, told>>

\* The call returns to the caller: the deferred clearTx of ManagedTransaction,
\* nothing for the others, which never set s.tx.
Return(s) == /\ tx' = IF call[s] = "managed" THEN [tx EXCEPT ![s] = Nil] ELSE tx
             /\ pc' = [pc EXCEPT ![s] = "idle"]
             /\ call' = [call EXCEPT ![s] = "none"]
             /\ job' = [job EXCEPT ![s] = Nil]
             /\ cur' = [cur EXCEPT ![s] = Nil]

DriverCommits(s) ==
    /\ pc[s] = "return"
    /\ \/ /\ CommitOk(cur[s])
          /\ Return(s)
          /\ Answer({cur[s]}, "ok")
       \/ /\ CommitFails(cur[s])
          /\ \E p \in IF status'[cur[s]] = "lostApplied" THEN {"lost"} ELSE {"again", "lost"} :
                pc' = [pc EXCEPT ![s] = p]
          /\ UNCHANGED <<tx, call, job, cur, told>>
    /\ UNCHANGED <<closed, tries, auto, acked>>

DriverRollsBack(s) == /\ pc[s] = "fail"
                      /\ RollbackOk(cur[s]) \/ RollbackFails(cur[s])
                      /\ pc' = [pc EXCEPT ![s] = "again"]
                      /\ UNCHANGED <<tx, closed, call, job, tries, cur, auto, acked, told>>

\* The error is not retryable, or the driver's retry time is over.
GiveUp(s) == /\ pc[s] \in {"again", "lost"}
             /\ Return(s)
             /\ Answer(tries[s], "error")
             /\ UNCHANGED <<driverVars, closed, tries, auto, acked>>

Next == \E s \in Session :
          \/ Begin(s) \/ Rollback(s) \/ Commit(s) \/ Close(s)
          \/ ReadInTx(s) \/ StartRead(s) \/ ManagedTransaction(s)
          \/ \E x \in Save : WriteInTx(s, x) \/ StartWrite(s, x)
          \/ Attempt(s) \/ AutoWrite(s) \/ AutoRead(s) \/ WorkReturns(s)
          \/ DriverCommits(s) \/ DriverRollsBack(s) \/ GiveUp(s)

Spec == Init /\ [][Next]_vars

-------------------------------------------------------------------------------
(***************************************************************************)
(* Properties                                                              *)
(***************************************************************************)

\* No orphan: every transaction the server still holds open is one its session
\* can still finish, through s.tx or as the attempt of the call in flight; a
\* closed session holds none.  (Begin, ManagedTransaction and Close all replace
\* or clear s.tx.)
NoOrphan == \A t \in Tx : Live(t) =>
               /\ ~ closed[owner[t]]
               /\ t = tx[owner[t]] \/ t = cur[owner[t]]

\* Work handed to ManagedTransaction always writes into the transaction of the
\* attempt that runs it, also after the driver retried, and between calls s.tx
\* is never a transaction the driver owns.
HandleIsCurrent == \A s \in Session :
                      /\ InManaged(s) => tx[s] = cur[s] /\ status[cur[s]] \in {"open", "failed"}
                      /\ pc[s] = "idle" /\ tx[s] # Nil => kind[tx[s]] = "explicit"

\* A caller that was told nil by Commit, ManagedTransaction or a write outside a
\* transaction finds every Save that returned nil in it applied, complete.
AckedIsApplied == \A t \in Tx : told[t] = "ok" =>
                     /\ Applied(t)
                     /\ \A x \in acked[t] : Pieces(x, Statements) \subseteq writes[t]

\* A write outside a transaction is all or nothing: whichever of its attempts the
\* server ever applied, its answer lost or not, the writes of that transaction are
\* all those of the call and no others, also long after the call returned.
AutoIsAtomic == \A t \in Tx : auto[t] # Nil /\ Applied(t) => writes[t] = Pieces(auto[t], Statements)

\* Close "closes session" (interfacev2.go): a session between calls can be closed,
\* so its s.tx is nil or a transaction that can still be rolled back.  A failed
\* Commit or Rollback leaves it holding one that is over, and no Begin, Commit,
\* Rollback, Save or Close succeeds on it again.
StaysClosable == \A s \in Session :
                    ~ closed[s] /\ pc[s] = "idle" => tx[s] = Nil \/ Live(tx[s])

Phase(t) == CASE status[t] = "unused" -> "idle"
              [] status[t] = "open"   -> "active"
              [] Applied(t)           -> "committed"
              [] OTHER                -> "aborted"

\* The sessions implement the transactions promised to callers.
Acid == INSTANCE AcidTransactions WITH phase <- [t \in Tx |-> Phase(t)], data <- writes
AcidSpec == Acid!Spec

-------------------------------------------------------------------------------
(* The inductive invariant.  TypeOK is not inductive (a write in flight could   *)
(* have no token), and neither is NoOrphan: that no step loses a transaction    *)
(* rests on how pc, call, cur and s.tx go together.                             *)

Busy(s) == pc[s] \in {"work", "return", "fail"}

\* The call in flight, its token and its attempt.
InFlight(s) == /\ pc[s] = "idle" <=> call[s] = "none"
               /\ pc[s] = "idle" => cur[s] = Nil
               /\ call[s] = "write" => job[s] \in Save
               /\ Busy(s) => cur[s] \in Tx
               /\ cur[s] # Nil => owner[cur[s]] = s /\ kind[cur[s]] = "function"
               /\ pc[s] = "work" => Live(cur[s])
               /\ pc[s] \in {"again", "lost"} /\ cur[s] # Nil => ~ Live(cur[s])

\* What s.tx may be: the caller's own transaction between calls, that of the
\* newest attempt during a ManagedTransaction, nil during any other call.
Handle(s) == /\ tx[s] # Nil => owner[tx[s]] = s
             /\ call[s] = "none" /\ tx[s] # Nil => kind[tx[s]] = "explicit"
             /\ call[s] \in {"write", "read"} => tx[s] = Nil
             /\ call[s] = "managed" => tx[s] = cur[s]
             /\ closed[s] => pc[s] = "idle" /\ tx[s] = Nil

\* The transactions a session is answerable for: the live ones it owns.
Kept(t) == /\ status[t] = "unused" => owner[t] = Nil
           /\ Live(t) => /\ owner[t] \in Session
                         /\ t = tx[owner[t]] \/ t = cur[owner[t]]

IInv == /\ TypeOK
        /\ \A s \in Session : InFlight(s) /\ Handle(s)
        /\ \A t \in Tx : Kept(t)

-------------------------------------------------------------------------------
(* The invariant that what callers are told is true rests on: it adds to IInv   *)
(* what is known of a transaction while nobody was told of it.                  *)

Accounted(t) == /\ status[t] = "unused" \/ Live(t) => told[t] = "nothing"
                /\ told[t] = "ok" => Applied(t)
                /\ status[t] \in {"unused", "open"} \/ Applied(t) =>
                      \A x \in acked[t] : Pieces(x, Statements) \subseteq writes[t]

\* Of the caller's own transaction only errors were told, of the attempts of a
\* call in flight nothing.
Attempted(s) ==
    /\ call[s] = "none" /\ tx[s] # Nil => told[tx[s]] \in {"nothing", "error"}
    /\ Busy(s) => cur[s] \in tries[s]
    /\ call[s] # "none" =>
          \A t \in tries[s] : status[t] # "unused" /\ owner[t] = s /\ told[t] = "nothing"

Promises == (\A t \in Tx : Accounted(t)) /\ (\A s \in Session : Attempted(s))

-------------------------------------------------------------------------------
(* What AutoIsAtomic rests on: the transaction of a write is written only by     *)
(* that write, and reaches Commit open only when its work returned nil.          *)

Whole(t) == /\ status[t] = "unused" => writes[t] = {} /\ auto[t] = Nil
            /\ auto[t] # Nil /\ Applied(t) => writes[t] = Pieces(auto[t], Statements)

OwnWrite(s) == /\ call[s] # "write" => job[s] = Nil
               /\ tx[s] # Nil => auto[tx[s]] = Nil
               /\ Busy(s) => auto[cur[s]] = job[s]
               /\ call[s] = "write" /\ pc[s] = "work" => writes[cur[s]] = {}
               /\ call[s] = "write" /\ pc[s] = "return" /\ status[cur[s]] = "open" =>
                     writes[cur[s]] = Pieces(job[s], Statements)

WritesAreWhole == (\A t \in Tx : Whole(t)) /\ (\A s \in Session : OwnWrite(s))
===============================================================================
