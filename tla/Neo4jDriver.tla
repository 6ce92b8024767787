------------------------------ MODULE Neo4jDriver ------------------------------
(***************************************************************************)
(* The part of neo4j-go-driver v5 that GoGM's sessions call, as src/ uses  *)
(* it (external: the driver is not in this repository).  A transaction     *)
(* handle is a member of Tx.  Operators ending in a result constrain only  *)
(* the driver's variables; GogmSession conjoins them with what the session *)
(* does with the result.                                                   *)
(***************************************************************************)
CONSTANTS Session,  \* neo4j.Session values, one per GoGM session
          Tx,       \* neo4j.Transaction handles, each used once
          Write,    \* the single writes a statement can make
          Nil       \* Go's nil

ASSUME NilIsNothing == Nil \notin Session /\ Nil \notin Tx

VARIABLES status,   \* where each transaction is
          owner,    \* the session a used transaction belongs to
          kind,     \* "explicit" (BeginTransaction) or "function" (Read/WriteTransaction)
          writes    \* the writes each transaction has made

driverVars == <<status, owner, kind, writes>>

\* "failed": a statement failed, the server has already rolled back.
\* "lostApplied", "lostDropped": Commit or Rollback returned an error; the
\* server had, or had not, applied the transaction.
Status == {"unused", "open", "failed", "committed", "rolledback",
           "lostApplied", "lostDropped"}
Kind   == {"explicit", "function"}

Live(t)    == status[t] \in {"open", "failed"}
Applied(t) == status[t] \in {"committed", "lostApplied"}

DriverInit == /\ status = [t \in Tx |-> "unused"]
              /\ owner = [t \in Tx |-> Nil]
              /\ kind = [t \in Tx |-> "explicit"]
              /\ writes = [t \in Tx |-> {}]

\* A session holds one transaction at a time: a second one is a usage error.
CanOpen(s) == \A t \in Tx : Live(t) => owner[t] # s

OpenTx(s, t, k) == /\ status[t] = "unused"
                   /\ CanOpen(s)
                   /\ status' = [status EXCEPT ![t] = "open"]
                   /\ owner' = [owner EXCEPT ![t] = s]
                   /\ kind' = [kind EXCEPT ![t] = k]
                   /\ UNCHANGED writes

\* Transaction.Run: the statement's writes are added ...
RunOk(t, W) == /\ status[t] = "open"
               /\ writes' = [writes EXCEPT ![t] = @ \cup W]
               /\ UNCHANGED <<status, owner, kind>>

\* ... or it fails; the first failure fails the transaction, a finished one stays as it is.
RunFails(t) == /\ status' = [status EXCEPT ![t] = IF @ = "open" THEN "failed" ELSE @]
               /\ UNCHANGED <<owner, kind, writes>>

CommitOk(t) == /\ status[t] = "open"
               /\ status' = [status EXCEPT ![t] = "committed"]
               /\ UNCHANGED <<owner, kind, writes>>

\* A failed Commit ends a live transaction; on an open one the server may have
\* applied it before the connection was lost.
CommitFails(t) == /\ \/ /\ status[t] = "open"
                        /\ \E r \in {"lostApplied", "lostDropped"} :
                              status' = [status EXCEPT ![t] = r]
                     \/ /\ status[t] = "failed"
                        /\ status' = [status EXCEPT ![t] = "lostDropped"]
                     \/ /\ ~ Live(t)
                        /\ UNCHANGED status
                  /\ UNCHANGED <<owner, kind, writes>>

RollbackOk(t) == /\ Live(t)
                 /\ status' = [status EXCEPT ![t] = "rolledback"]
                 /\ UNCHANGED <<owner, kind, writes>>

\* Rolling back a finished transaction is an error as well.
RollbackFails(t) == /\ \/ /\ status[t] = "open"
                          /\ status' = [status EXCEPT ![t] = "lostDropped"]
                       \/ /\ ~ Live(t)
                          /\ UNCHANGED status
                    /\ UNCHANGED <<owner, kind, writes>>

\* Session.Close discards a transaction that is still live.
CloseDriverSession(s) ==
    /\ status' = [t \in Tx |-> IF owner[t] = s /\ Live(t) THEN "rolledback" ELSE status[t]]
    /\ UNCHANGED <<owner, kind, writes>>

DriverTypeOK == /\ status \in [Tx -> Status]
                /\ owner \in [Tx -> Session \cup {Nil}]
                /\ kind \in [Tx -> Kind]
                /\ writes \in [Tx -> SUBSET Write]
=============================================================================
