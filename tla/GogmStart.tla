------------------------------- MODULE GogmStart -------------------------------
(***************************************************************************)
(* Start-up: New and NewContext (gogm.go), the goroutine that creates the  *)
(* driver, and index management (index.go, index_v3.go, index_v4.go).      *)
(* Each process starts one Gogm instance: replicas of one program, with    *)
(* the same mapped types, against the databases of one server.             *)
(* A managed transaction of index management takes effect as one step, or  *)
(* not at all.  A rule, <<label, fields>>, stands for a constraint or an   *)
(* index.  Not modelled: the text of the statements, logging.              *)
(***************************************************************************)
EXTENDS Schema

CONSTANTS Proc,        \* the processes that call New
          Conf,        \* what they may call it with
          Db,          \* the databases of the server
          DefaultDb,   \* the one used when the configuration names none
          Tagged,      \* the mapped types: label -> [unique, index], sets of fields
          Before       \* what the databases may hold before: [constraints, indexes], sets of rules

Strategies == {"assert", "validate", "ignore"}

\* given: no argument is nil or empty; keys: the pkStrategy is complete; ca: the CA
\* file loads; ctx: what NewContext's context can do; decls: the relationship fields.
ASSUME ConfIsTyped ==
    \A c \in Conf : /\ c.given \in BOOLEAN /\ c.host \in BOOLEAN /\ c.port \in Int
                    /\ c.keys \in BOOLEAN /\ c.ca \in BOOLEAN
                    /\ c.index \in Strategies \cup {"unknown"}
                    /\ c.load \in {"path", "schema", "unknown"}
                    /\ c.ctx \in {"background", "cancel", "deadline"}
                    /\ c.dbs \in Seq(Db)
ASSUME DefaultIsDb == DefaultDb \in Db
ASSUME BeforeIsTyped ==
    \A b \in Before : b = [d \in Db |-> [constraints |-> b[d].constraints, indexes |-> b[d].indexes]]

\* Per pk or unique field a constraint, per struct with index fields one index of them all.
Unique    == UNION {{<<l, {f}>> : f \in Tagged[l].unique} : l \in DOMAIN Tagged}
Composite == {<<l, Tagged[l].index>> : l \in {k \in DOMAIN Tagged : Tagged[k].index # {}}}

\* Assumed: nobody else has put a constraint on the fields of a composite index.
ASSUME ForeignRules == \A b \in Before : \A d \in Db : b[d].constraints \cap Composite = {}

VARIABLES conf,     \* the arguments of each process's New
          pc,       \* where its New is
          routine,  \* where its initDriverRoutine is
          out,      \* what that is about to send: "ok" or "error"
          done,     \* doneChan
          g,        \* the fields driver and boltMajorVersion of its Gogm
          expired,  \* its context is done
          at,       \* the index into TargetDbs
          listed,   \* the constraints db.constraints() returned, until they are dropped
          server,   \* the major version of the server's protocol
          before,   \* what the databases held before (history)
          remote    \* what they hold: constraints, and the indexes that are not a constraint's

callVars   == <<pc, at, listed>>
driverVars == <<routine, out, done, g>>
vars == <<conf, callVars, driverVars, expired, server, before, remote>>

Returned == {"started", "closed"}
Indexing == {"list", "drop", "create", "verify"}
Pc       == {"new", "dial", "wait", "failed"} \cup Indexing \cup Returned
Routine  == {"none", "create", "connect", "test", "send", "ended"}

Init == /\ conf \in [Proc -> Conf]
        /\ pc       = [p \in Proc |-> "new"]
        /\ routine  = [p \in Proc |-> "none"]
        /\ out      = [p \in Proc |-> "ok"]
        /\ done     = [p \in Proc |-> <<>>]
        /\ g        = [p \in Proc |-> [driver |-> FALSE, version |-> 0]]
        /\ expired  = [p \in Proc |-> FALSE]
        /\ at       = [p \in Proc |-> 1]
        /\ listed   = [p \in Proc |-> {}]
        /\ server \in {3, 4}
        /\ before \in Before
        /\ remote   = before

Go(p, l) == pc' = [pc EXCEPT ![p] = l]

-------------------------------------------------------------------------------
\* Config.validate and PrimaryKeyStrategy.validate; what they default is set in TargetDbs.
Accepted(c) == /\ c.given
               /\ c.host /\ c.port > 0
               /\ c.index \in Strategies
               /\ c.load \in {"path", "schema"}
               /\ c.keys

\* NewContext up to initDriver: validate, parseOgmTypes with Validate of the edges.
NewContext(p) ==
    /\ pc[p] = "new"
    /\ Go(p, IF Accepted(conf[p]) /\ Validate(conf[p].decls) THEN "dial" ELSE "failed")
    /\ UNCHANGED <<conf, at, listed, driverVars, expired, server, before, remote>>

\* initDriver: load the CA file, start the goroutine, wait for it.
InitDriver(p) ==
    /\ pc[p] = "dial"
    /\ \/ ~ conf[p].ca /\ Go(p, "failed") /\ UNCHANGED routine
       \/ conf[p].ca /\ Go(p, "wait") /\ routine' = [routine EXCEPT ![p] = "create"]
    /\ UNCHANGED <<conf, at, listed, out, done, g, expired, server, before, remote>>

RoutineFrame == UNCHANGED <<conf, callVars, done, expired, server, before, remote>>

RoutineGo(p, r, o) == /\ routine' = [routine EXCEPT ![p] = r]
                      /\ out' = [out EXCEPT ![p] = o]

\* neo4j.NewDriver
CreateDriver(p) == /\ routine[p] = "create"
                   /\ RoutineGo(p, "connect", "ok") \/ RoutineGo(p, "send", "error")
                   /\ UNCHANGED g /\ RoutineFrame

\* Faulty: the goroutine ends without sending its error.
ConnectDropsError(p) ==
    /\ routine[p] = "connect"
    /\ \/ RoutineGo(p, "test", "ok") /\ g' = [g EXCEPT ![p].driver = TRUE]
       \/ RoutineGo(p, "ended", "error") /\ UNCHANGED g
    /\ RoutineFrame

\* VerifyConnectivity, then g.driver is set.
Connect(p) ==
    /\ routine[p] = "connect"
    /\ \/ RoutineGo(p, "test", "ok") /\ g' = [g EXCEPT ![p].driver = TRUE]
       \/ RoutineGo(p, "send", "error") /\ UNCHANGED g
    /\ RoutineFrame

\* The query that tells the server's version.
TestQuery(p) ==
    /\ routine[p] = "test"
    /\ \/ RoutineGo(p, "send", "ok") /\ g' = [g EXCEPT ![p].version = server]
       \/ RoutineGo(p, "send", "error") /\ UNCHANGED g
    /\ RoutineFrame

\* Faulty: the channel has no buffer.
SendUnbuffered(p) ==
    /\ routine[p] = "send"
    /\ pc[p] = "wait"
    /\ done' = [done EXCEPT ![p] = Append(@, out[p])]
    /\ routine' = [routine EXCEPT ![p] = "ended"]
    /\ UNCHANGED <<conf, callVars, out, g, expired, server, before, remote>>

\* doneChan holds one value, so the send does not wait for a receiver.
Send(p) ==
    /\ routine[p] = "send"
    /\ Len(done[p]) < 1
    /\ done' = [done EXCEPT ![p] = Append(@, out[p])]
    /\ routine' = [routine EXCEPT ![p] = "ended"]
    /\ UNCHANGED <<conf, callVars, out, g, expired, server, before, remote>>

\* Which step initIndex takes first.
FirstStep(c) == CASE c.index = "assert"   -> "list"
                  [] c.index = "validate" -> "verify"
                  [] OTHER                -> "started"

\* Faulty: the error the goroutine sent is dropped.
ReceiveDropsError(p) ==
    /\ pc[p] = "wait" /\ done[p] # <<>>
    /\ done' = [done EXCEPT ![p] = Tail(@)]
    /\ Go(p, FirstStep(conf[p]))
    /\ UNCHANGED <<conf, at, listed, routine, out, g, expired, server, before, remote>>

\* initDriver returns what the goroutine sent; initIndex begins.
Receive(p) ==
    /\ pc[p] = "wait" /\ done[p] # <<>>
    /\ done' = [done EXCEPT ![p] = Tail(@)]
    /\ Go(p, IF Head(done[p]) = "ok" THEN FirstStep(conf[p]) ELSE "failed")
    /\ UNCHANGED <<conf, at, listed, routine, out, g, expired, server, before, remote>>

\* Faulty: the wait is only given up when the context is cancelled.
TimeOutOnCancel(p) ==
    /\ pc[p] = "wait" /\ conf[p].ctx = "cancel" /\ expired[p]
    /\ Go(p, "failed")
    /\ UNCHANGED <<conf, at, listed, driverVars, expired, server, before, remote>>

\* Only a context with a deadline is looked at while waiting; the goroutine runs on.
TimeOut(p) ==
    /\ pc[p] = "wait" /\ conf[p].ctx = "deadline" /\ expired[p]
    /\ Go(p, "failed")
    /\ UNCHANGED <<conf, at, listed, driverVars, expired, server, before, remote>>

\* The environment: the context is cancelled or its deadline passes.  Before the wait
\* nothing looks at it; after it this shows only as a failed call (CallFails).
Expire(p) ==
    /\ pc[p] = "wait"
    /\ conf[p].ctx # "background" /\ ~ expired[p]
    /\ expired' = [expired EXCEPT ![p] = TRUE]
    /\ UNCHANGED <<conf, callVars, driverVars, server, before, remote>>

-------------------------------------------------------------------------------
\* The databases index management goes through: TargetDbs, before version 4 only one.
TargetDbs(p) == IF g[p].version < 4 \/ conf[p].dbs = <<>> THEN <<DefaultDb>> ELSE conf[p].dbs
Target(p)    == TargetDbs(p)[at[p]]

\* Faulty: one database too many.
AdvancePastEnd(p, here, l) ==
    IF at[p] <= Len(TargetDbs(p)) THEN at' = [at EXCEPT ![p] = at[p] + 1] /\ Go(p, here)
                                  ELSE at' = [at EXCEPT ![p] = 1] /\ Go(p, l)

\* The loops of index.go: on to the next database, after the last one to step l.
Advance(p, here, l) ==
    IF at[p] < Len(TargetDbs(p)) THEN at' = [at EXCEPT ![p] = at[p] + 1] /\ Go(p, here)
                                 ELSE at' = [at EXCEPT ![p] = 1] /\ Go(p, l)

IndexFrame == UNCHANGED <<conf, driverVars, expired, server, before>>

\* The variables of a loop are gone when it is left.
Forget(p) == listed' = [listed EXCEPT ![p] = {}]
Fail(p)   == Go(p, "failed") /\ at' = [at EXCEPT ![p] = 1] /\ Forget(p)

\* dropAllIndexesAndConstraintsV4, db.constraints(): without constraints nothing is
\* dropped, no index either.
ListConstraints(p) ==
    /\ pc[p] = "list" /\ g[p].version >= 4
    /\ IF remote[Target(p)].constraints = {}
       THEN Advance(p, "list", "create") /\ UNCHANGED listed
       ELSE /\ listed' = [listed EXCEPT ![p] = remote[Target(p)].constraints]
            /\ Go(p, "drop") /\ UNCHANGED at
    /\ IndexFrame /\ UNCHANGED remote

\* What its transaction needs: a constraint made since the list keeps an index that
\* the database refuses to drop, and when the constraints and with them their indexes
\* are gone, resultToStringArrV4 takes an empty db.indexes() for an error.
Droppable(p) == /\ remote[Target(p)].constraints \subseteq listed[p]
                /\ remote[Target(p)].indexes # {}

\* Faulty: the indexes are left.
DropLeavesIndexes(p) ==
    /\ pc[p] = "drop" /\ Droppable(p)
    /\ remote' = [remote EXCEPT ![Target(p)].constraints = {}]
    /\ Advance(p, "list", "create") /\ Forget(p)
    /\ IndexFrame

\* The transaction: drop the constraints listed, then every index there is, of the
\* mapped types or not.
DropTransaction(p) ==
    /\ pc[p] = "drop" /\ Droppable(p)
    /\ remote' = [remote EXCEPT ![Target(p)] = [constraints |-> {}, indexes |-> {}]]
    /\ Advance(p, "list", "create") /\ Forget(p)
    /\ IndexFrame

\* Or it fails and is rolled back.
DropRefused(p) ==
    /\ pc[p] = "drop" /\ ~ Droppable(p)
    /\ Fail(p) /\ IndexFrame /\ UNCHANGED remote

\* dropAllIndexesAndConstraintsV3, one transaction.  With a constraint it always fails:
\* having dropped an index it calls tx.Commit, which the driver refuses in a managed
\* transaction, and having found none resultToStringArrV3 returns an error.
DropAllV3(p) ==
    /\ pc[p] = "list" /\ g[p].version < 4
    /\ IF remote[Target(p)].constraints = {}
       THEN Advance(p, "list", "create") /\ UNCHANGED listed
       ELSE Fail(p)
    /\ IndexFrame /\ UNCHANGED remote

\* Faulty: the indexes of several fields are left out.
CreateConstraints(d) == remote' = [remote EXCEPT ![d].constraints = @ \cup Unique]

CreateAll(d) == remote' = [remote EXCEPT ![d] = [constraints |-> remote[d].constraints \cup Unique,
                                                 indexes     |-> remote[d].indexes \cup Composite]]

\* createAllIndexesAndConstraintsV4, one transaction of CREATE ... IF NOT EXISTS.
CreateTransaction(p) ==
    /\ pc[p] = "create" /\ g[p].version >= 4
    /\ remote[Target(p)].indexes \cap Unique = {}
    /\ CreateAll(Target(p)) /\ Advance(p, "create", "verify")
    /\ IndexFrame /\ UNCHANGED listed

\* A constraint on the rule of an index that is there is refused; and the transaction
\* of createAllIndexesAndConstraintsV3 always ends in a refused tx.Commit.
CreateRefused(p) ==
    /\ pc[p] = "create"
    /\ g[p].version < 4 \/ remote[Target(p)].indexes \cap Unique # {}
    /\ Fail(p) /\ IndexFrame /\ UNCHANGED remote

\* verifyAllIndexesAndConstraints: a database without a constraint is an error (an
\* empty result), one with a constraint has an index.  Which rules there are is not
\* looked at: arrayOperations.Difference reports no failure for two slices of strings.
Verify(p) ==
    /\ pc[p] = "verify"
    /\ IF remote[Target(p)].constraints = {}
       THEN Fail(p)
       ELSE Advance(p, "verify", "started") /\ UNCHANGED listed
    /\ IndexFrame /\ UNCHANGED remote

\* Any call of index management may fail: New returns the error, what the
\* transactions before it did stays.
CallFails(p) ==
    /\ pc[p] \in Indexing
    /\ Fail(p) /\ IndexFrame /\ UNCHANGED remote

\* Close closes the driver; a second call closes it again.
Close(p) ==
    /\ pc[p] \in Returned /\ g[p].driver
    /\ Go(p, "closed")
    /\ IndexFrame /\ UNCHANGED <<at, listed, remote>>

-------------------------------------------------------------------------------
\* What only waits for the scheduler, and what waits for the server's answer.
Local(p)    == NewContext(p) \/ InitDriver(p) \/ Send(p) \/ Receive(p) \/ TimeOut(p)
Answered(p) == \/ CreateDriver(p) \/ Connect(p) \/ TestQuery(p)
               \/ ListConstraints(p) \/ DropTransaction(p) \/ DropRefused(p) \/ DropAllV3(p)
               \/ CreateTransaction(p) \/ CreateRefused(p) \/ Verify(p)

Next == \E p \in Proc : Local(p) \/ Answered(p) \/ CallFails(p) \/ Expire(p) \/ Close(p)

\* Goroutines are scheduled and deadlines pass.  The server need not answer, and
\* nobody need cancel a context.  No process can take these steps for ever, so one
\* fairness condition serves its two goroutines and its clock.
Fairness == \A p \in Proc : WF_vars(Local(p) \/ (conf[p].ctx = "deadline" /\ Expire(p)))

Spec == Init /\ [][Next]_vars /\ Fairness

-------------------------------------------------------------------------------
Found == UNION {{b[d] : d \in Db} : b \in Before}
Rules == [constraints : SUBSET (Unique \cup UNION {r.constraints : r \in Found}),
          indexes     : SUBSET (Composite \cup UNION {r.indexes : r \in Found})]

\* The types of the state; at is an index into TargetDbs.
TypeOK == /\ conf \in [Proc -> Conf]
          /\ pc \in [Proc -> Pc]
          /\ routine \in [Proc -> Routine]
          /\ out \in [Proc -> {"ok", "error"}]
          /\ done \in [Proc -> {<<>>, <<"ok">>, <<"error">>}]
          /\ g \in [Proc -> [driver : BOOLEAN, version : {0, 3, 4}]]
          /\ expired \in [Proc -> BOOLEAN]
          /\ at \in [Proc -> Nat \ {0}]
          /\ \A p \in Proc : pc[p] \in Indexing => at[p] <= Len(TargetDbs(p))
          /\ listed \in [Proc -> SUBSET (Unique \cup UNION {r.constraints : r \in Found})]
          /\ server \in {3, 4}
          /\ before \in [Db -> Rules]
          /\ remote \in [Db -> Rules]

\* Past the wait New works on a finished driver: the goroutine of initDriverRoutine
\* has ended, so what it sets without a lock, driver and boltMajorVersion, is final.
StartedIsSettled ==
    \A p \in Proc : pc[p] \in Indexing \cup Returned =>
        /\ routine[p] = "ended" /\ done[p] = <<>>
        /\ g[p] = [driver |-> TRUE, version |-> server]

AllReturned  == \A p \in Proc : pc[p] \in Returned
Asserting(p) == conf[p].index = "assert"

HasRules(d) == Unique \subseteq remote[d].constraints /\ Composite \subseteq remote[d].indexes

\* ASSERT_INDEX: when every New has returned without an error, the databases of each
\* that asserts have all the rules, however the drops and creates interleaved.
AssertSets ==
    AllReturned => \A p \in Proc : Asserting(p) =>
                      \A i \in 1..Len(TargetDbs(p)) : HasRules(TargetDbs(p)[i])

\* "deletes existing indexes/constraints for the given nodes" (config.go): such a
\* database has no outdated rule of a mapped type, if it held a constraint before;
\* without one the early return of the drop spares the old indexes.  (The code drops
\* the rules of every other label too, which this does not ask of it.)
Mapped(R) == {r \in R : r[1] \in DOMAIN Tagged}

AssertReplaces ==
    AllReturned => \A p \in Proc : Asserting(p) =>
                      \A i \in 1..Len(TargetDbs(p)) :
                         LET d == TargetDbs(p)[i]
                         IN  before[d].constraints # {} =>
                                /\ Mapped(remote[d].constraints) = Unique
                                /\ Mapped(remote[d].indexes) = Composite

\* The goroutine is not leaked: having its answer it ends, though New timed out.
SendEnds == \A p \in Proc : routine[p] = "send" ~> routine[p] = "ended"

\* initDriver keeps a deadline: it does not wait for ever on a server that does not
\* answer the goroutine.  (New as a whole may: QueryRaw, which index management calls,
\* does not look at its context, and needs NewReturns' assumption.)
DriverWaitEnds == \A p \in Proc : pc[p] = "wait" /\ conf[p].ctx = "deadline" ~> pc[p] # "wait"

\* New returns, with an instance or an error, if the server answers every call.
NewReturns == (\A p \in Proc : WF_vars(Answered(p)))
                 => \A p \in Proc : <>(pc[p] \in Returned \cup {"failed"})
===============================================================================
