---------------------------- MODULE GogmStart_proofs ----------------------------
(***************************************************************************)
(* Theorems about start-up, for any number of processes, any databases,    *)
(* configurations and mapped types.                                        *)
(***************************************************************************)
EXTENDS GogmStart, TLAPS

Settled(p) == g[p] = [driver |-> TRUE, version |-> server]

\* What New, its goroutine, the channel between them and the fields of the Gogm have
\* to do with each other.
InStep(p) ==
    /\ pc[p] \in {"new", "dial"} => routine[p] = "none"
    /\ pc[p] \in {"new", "dial", "wait"} => at[p] = 1
    /\ routine[p] # "ended" => done[p] = <<>>
    /\ routine[p] = "test" => g[p].driver
    /\ routine[p] = "send" /\ out[p] = "ok" => Settled(p)
    /\ done[p] = <<"ok">> => Settled(p)
    /\ pc[p] \in Indexing \cup Returned => routine[p] = "ended" /\ done[p] = <<>> /\ Settled(p)

StartInv == TypeOK /\ \A p \in Proc : InStep(p)

\* The databases of a process are a sequence of databases, never an empty one.
LEMMA TargetsTyped ==
    ASSUME TypeOK, NEW p \in Proc
    PROVE  /\ TargetDbs(p) \in Seq(Db) /\ Len(TargetDbs(p)) \in Nat \ {0}
           /\ at[p] \in Nat \ {0}
           /\ at[p] <= Len(TargetDbs(p)) => Target(p) \in Db
<1>1. conf[p].dbs \in Seq(Db)
  BY ConfIsTyped DEF TypeOK
<1>2. conf[p].dbs # <<>> => Len(conf[p].dbs) \in Nat \ {0}
  BY <1>1
<1>3. <<DefaultDb>> \in Seq(Db) /\ Len(<<DefaultDb>>) = 1
  BY DefaultIsDb
<1>4. TargetDbs(p) \in Seq(Db) /\ Len(TargetDbs(p)) \in Nat \ {0}
  BY <1>1, <1>2, <1>3 DEF TargetDbs
<1>5. at[p] \in Nat \ {0}
  BY DEF TypeOK
<1> QED BY <1>4, <1>5 DEF Target

\* Dropping, and adding what is mapped, leaves rules that were there or are mapped.
LEMMA RulesTyped ==
    ASSUME NEW r \in Rules
    PROVE  /\ [constraints |-> r.constraints \cup Unique, indexes |-> r.indexes \cup Composite] \in Rules
           /\ [constraints |-> {}, indexes |-> {}] \in Rules
BY DEF Rules

\* The two values doneChan can hold.
LEMMA OneValue ==
    /\ Tail(<<"ok">>) = <<>> /\ Head(<<"ok">>) = "ok" /\ <<"ok">> # <<>>
    /\ Tail(<<"error">>) = <<>> /\ Head(<<"error">>) = "error" /\ <<"error">> # <<>>
OBVIOUS

LEMMA StartInit ==
    ASSUME Init PROVE StartInv
<1>1. before \in [Db -> Rules]
  <2>1. ASSUME NEW d \in Db PROVE before[d] \in Rules
    <3>1. before[d] \in Found /\ before[d] = [constraints |-> before[d].constraints, indexes |-> before[d].indexes]
      BY BeforeIsTyped DEF Init, Found
    <3> QED BY <3>1 DEF Rules
  <2>2. before = [d \in Db |-> before[d]]
    BY BeforeIsTyped DEF Init
  <2> QED BY <2>1, <2>2
<1>2. g \in [Proc -> [driver : BOOLEAN, version : {0, 3, 4}]]
  BY DEF Init
<1>3. TypeOK
  BY <1>1, <1>2 DEF Init, TypeOK, Pc, Routine, Indexing, Returned
<1>4. \A p \in Proc : InStep(p)
  BY DEF Init, InStep, Indexing, Returned
<1> QED BY <1>3, <1>4 DEF StartInv

\* What no action changes in one case or another; a database index stays one.
LEMMA Frames ==
    ASSUME TypeOK, UNCHANGED <<conf, g>>
    PROVE  \A q \in Proc : TargetDbs(q)' = TargetDbs(q)
BY DEF TargetDbs

Instance == [driver : BOOLEAN, version : {0, 3, 4}]

\* What the goroutine sets of its Gogm, and what it leaves.
LEMMA Fields ==
    ASSUME g \in [Proc -> Instance], NEW p \in Proc, NEW v \in {0, 3, 4}
    PROVE  /\ [g EXCEPT ![p].driver = TRUE] \in [Proc -> Instance]
           /\ [g EXCEPT ![p].driver = TRUE][p].driver
           /\ [g EXCEPT ![p].version = v] = [g EXCEPT ![p] = [driver |-> g[p].driver, version |-> v]]
           /\ [g EXCEPT ![p].version = v] \in [Proc -> Instance]
<1>1. g[p] \in Instance
  OBVIOUS
<1>2. [g[p] EXCEPT !.driver = TRUE] \in Instance /\ [g[p] EXCEPT !.driver = TRUE].driver
  BY <1>1 DEF Instance
<1>3. [g[p] EXCEPT !.version = v] = [driver |-> g[p].driver, version |-> v]
  BY <1>1 DEF Instance
<1>4. [driver |-> g[p].driver, version |-> v] \in Instance
  BY <1>1 DEF Instance
<1>5. /\ [g EXCEPT ![p].driver = TRUE] = [g EXCEPT ![p] = [g[p] EXCEPT !.driver = TRUE]]
      /\ [g EXCEPT ![p].version = v] = [g EXCEPT ![p] = [g[p] EXCEPT !.version = v]]
  OBVIOUS
<1> QED BY <1>2, <1>3, <1>4, <1>5

\* The goroutine's steps leave New where it is.
LEMMA RoutineStep ==
    ASSUME StartInv, NEW p \in Proc, CreateDriver(p) \/ Connect(p) \/ TestQuery(p) \/ Send(p)
    PROVE  StartInv'
<1> USE DEF StartInv
<1>1. routine[p] \in {"create", "connect", "test", "send"} /\ pc[p] \notin Indexing \cup Returned
  BY DEF InStep, CreateDriver, Connect, TestQuery, Send
<1>2. /\ routine' \in [Proc -> Routine] /\ out' \in [Proc -> {"ok", "error"}]
      /\ done' \in [Proc -> {<<>>, <<"ok">>, <<"error">>}]
  <2>1. CASE CreateDriver(p) \/ Connect(p) \/ TestQuery(p)
    BY <2>1 DEF TypeOK, Routine, RoutineGo, RoutineFrame, CreateDriver, Connect, TestQuery
  <2>2. CASE Send(p)
    <3>1. done[p] = <<>> /\ out[p] \in {"ok", "error"}
      BY <2>2 DEF TypeOK, InStep, Send
    <3>2. Append(done[p], out[p]) \in {<<"ok">>, <<"error">>}
      BY <3>1
    <3> QED BY <2>2, <3>2 DEF TypeOK, Routine, Send
  <2> QED BY <2>1, <2>2
<1>3. /\ g' \in [Proc -> Instance]
      /\ \A q \in Proc \ {p} : g'[q] = g[q]
      /\ Connect(p) => (routine'[p] = "test" => g'[p].driver)
      /\ TestQuery(p) => (out'[p] = "ok" => g'[p] = [driver |-> TRUE, version |-> server])
  <2>1. CASE Connect(p)
    <3>1. g[p].driver \in BOOLEAN /\ g \in [Proc -> Instance] /\ routine \in [Proc -> Routine] /\ ~ TestQuery(p)
      BY <2>1 DEF TypeOK, Instance, Connect, TestQuery
    <3>2. CASE RoutineGo(p, "test", "ok") /\ g' = [g EXCEPT ![p].driver = TRUE]
      <4>1. g' \in [Proc -> Instance] /\ g'[p].driver
        BY <3>1, <3>2, Fields
      <4> QED BY <3>1, <3>2, <4>1
    <3>3. CASE RoutineGo(p, "send", "error") /\ UNCHANGED g
      BY <3>1, <3>3 DEF RoutineGo
    <3> QED BY <2>1, <3>2, <3>3 DEF Connect
  <2>2. CASE TestQuery(p)
    <3>1. g[p].driver = TRUE /\ server \in {3, 4} /\ g \in [Proc -> Instance]
      BY <2>2 DEF TypeOK, InStep, TestQuery, Instance
    <3>2. CASE RoutineGo(p, "send", "ok") /\ g' = [g EXCEPT ![p].version = server]
      <4>1. g' = [g EXCEPT ![p] = [driver |-> TRUE, version |-> server]] /\ g' \in [Proc -> Instance]
        BY <3>1, <3>2, Fields
      <4> QED BY <2>2, <3>1, <4>1 DEF Connect, TestQuery
    <3>3. CASE RoutineGo(p, "send", "error") /\ UNCHANGED g
      BY <2>2, <3>1, <3>3 DEF TypeOK, Connect, TestQuery, RoutineGo
    <3> QED BY <2>2, <3>2, <3>3 DEF TestQuery
  <2>3. CASE CreateDriver(p) \/ Send(p)
    BY <2>3 DEF TypeOK, Instance, CreateDriver, Send, Connect, TestQuery
  <2> QED BY <2>1, <2>2, <2>3
<1>4. \A q \in Proc : pc[q] \in Indexing => TargetDbs(q)' = TargetDbs(q)
  <2>1. ASSUME NEW q \in Proc, pc[q] \in Indexing PROVE g'[q] = g[q] /\ conf' = conf
    BY <1>1, <2>1 DEF TypeOK, CreateDriver, Connect, TestQuery, Send, RoutineFrame
  <2> QED BY <2>1 DEF TargetDbs
<1>5. UNCHANGED <<conf, pc, at, listed, expired, server, before, remote>>
  BY DEF CreateDriver, Connect, TestQuery, Send, RoutineFrame, callVars
<1>6. TypeOK'
  BY <1>2, <1>3, <1>4, <1>5 DEF TypeOK, Instance
<1>7. ASSUME NEW q \in Proc PROVE InStep(q)'
  <2>1. CASE q # p
    <3>1. routine'[q] = routine[q] /\ out'[q] = out[q] /\ done'[q] = done[q] /\ g'[q] = g[q]
      BY <1>3, <2>1 DEF TypeOK, CreateDriver, Connect, TestQuery, Send, RoutineGo, RoutineFrame
    <3> QED BY <1>5, <2>1, <3>1 DEF InStep, Settled
  <2>2. CASE q = p /\ CreateDriver(p)
    BY <1>1, <1>5, <2>2 DEF TypeOK, InStep, Settled, CreateDriver, RoutineGo, RoutineFrame
  <2>3. CASE q = p /\ Connect(p)
    <3>1. /\ routine'[p] \in {"test", "send"} /\ (routine'[p] = "send" => out'[p] = "error")
          /\ done' = done /\ done[p] = <<>>
      BY <2>3 DEF TypeOK, InStep, Connect, RoutineGo, RoutineFrame
    <3>2. routine'[p] = "test" => g'[p].driver
      BY <1>3, <2>3
    <3>3. pc'[p] \notin {"new", "dial"} \cup Indexing \cup Returned
      BY <1>1, <1>5, <2>3 DEF InStep, Connect
    <3> QED BY <1>5, <2>3, <3>1, <3>2, <3>3 DEF InStep
  <2>4. CASE q = p /\ TestQuery(p)
    BY <1>1, <1>3, <1>5, <2>4 DEF TypeOK, InStep, Settled, TestQuery, RoutineGo, RoutineFrame
  <2>5. CASE q = p /\ Send(p)
    <3>1. done[p] = <<>> /\ out[p] \in {"ok", "error"} /\ (out[p] = "ok" => Settled(p))
      BY <2>5 DEF TypeOK, InStep, Send
    <3>2. done'[p] = <<out[p]>> /\ routine'[p] = "ended" /\ UNCHANGED <<g, server>>
      BY <2>5, <3>1 DEF TypeOK, Send
    <3>3. done'[p] = <<"ok">> => Settled(p)'
      BY <3>1, <3>2 DEF Settled
    <3> QED BY <1>1, <1>5, <2>5, <3>2, <3>3 DEF InStep
  <2> QED BY <2>1, <2>2, <2>3, <2>4, <2>5
<1> QED BY <1>6, <1>7

\* New's steps until the index management begins.
LEMMA CallStep ==
    ASSUME StartInv, NEW p \in Proc, NewContext(p) \/ InitDriver(p) \/ Receive(p) \/ TimeOut(p) \/ Expire(p)
    PROVE  StartInv'
<1> USE DEF StartInv
<1>1. /\ UNCHANGED <<conf, at, listed, g, server, before, remote, out>>
      /\ pc[p] \in {"new", "dial", "wait"}
      /\ expired' \in [Proc -> BOOLEAN]
  BY DEF TypeOK, NewContext, InitDriver, Receive, TimeOut, Expire, callVars, driverVars
<1>2. \A q \in Proc \ {p} : pc'[q] = pc[q] /\ routine'[q] = routine[q] /\ done'[q] = done[q]
  BY DEF TypeOK, NewContext, InitDriver, Receive, TimeOut, Expire, Go, driverVars, callVars
<1>3. /\ pc' \in [Proc -> Pc] /\ routine' \in [Proc -> Routine]
      /\ done' \in [Proc -> {<<>>, <<"ok">>, <<"error">>}]
  <2>1. CASE Receive(p)
    <3>1. done[p] \in {<<"ok">>, <<"error">>} /\ FirstStep(conf[p]) \in Pc
      BY <2>1 DEF TypeOK, Receive, FirstStep, Pc, Indexing, Returned
    <3> QED BY <2>1, <3>1, OneValue DEF TypeOK, Receive, Go, Pc
  <2>2. CASE NewContext(p) \/ InitDriver(p) \/ TimeOut(p) \/ Expire(p)
    BY <2>2 DEF TypeOK, Pc, Routine, NewContext, InitDriver, TimeOut, Expire, Go, driverVars, callVars
  <2> QED BY <2>1, <2>2
<1>4. at[p] = 1
  BY <1>1 DEF InStep
<1>5. TypeOK'
  <2>1. \A q \in Proc : TargetDbs(q)' = TargetDbs(q)
    BY <1>1 DEF TargetDbs
  <2>2. ASSUME NEW q \in Proc, pc'[q] \in Indexing PROVE at'[q] <= Len(TargetDbs(q))'
    <3>1. CASE q = p
      BY <1>1, <1>4, <2>1, <3>1, TargetsTyped
    <3>2. CASE q # p
      BY <1>1, <1>2, <2>1, <2>2, <3>2 DEF TypeOK
    <3> QED BY <3>1, <3>2
  <2> QED BY <1>1, <1>3, <2>2 DEF TypeOK
<1>6. ASSUME NEW q \in Proc PROVE InStep(q)'
  <2>1. CASE q # p
    BY <1>1, <1>2, <2>1 DEF InStep, Settled
  <2>2. CASE q = p /\ NewContext(p)
    BY <1>1, <2>2 DEF TypeOK, InStep, Settled, NewContext, Go, driverVars, Indexing, Returned
  <2>3. CASE q = p /\ InitDriver(p)
    BY <1>1, <2>3 DEF TypeOK, InStep, Settled, InitDriver, Go, Indexing, Returned
  <2>4. CASE q = p /\ Receive(p)
    <3>0. done[p] \in {<<"ok">>, <<"error">>}
      BY <2>4 DEF TypeOK, Receive
    <3>1. routine[p] = "ended" /\ Tail(done[p]) = <<>> /\ (Head(done[p]) = "ok" => Settled(p))
      BY <2>4, <3>0, OneValue DEF InStep
    <3>2. done'[p] = <<>> /\ routine' = routine
      BY <2>4, <3>1 DEF TypeOK, Receive
    <3>3. pc'[p] \in {"failed", "list", "verify", "started"} /\ (pc'[p] # "failed" => Head(done[p]) = "ok")
      BY <2>4 DEF TypeOK, Receive, Go, FirstStep
    <3> QED BY <1>1, <2>4, <3>1, <3>2, <3>3 DEF InStep, Settled, Indexing, Returned
  <2>5. CASE q = p /\ (TimeOut(p) \/ Expire(p))
    BY <1>1, <2>5 DEF TypeOK, InStep, Settled, TimeOut, Expire, Go, driverVars, callVars, Indexing, Returned
  <2> QED BY <2>1, <2>2, <2>3, <2>4, <2>5
<1> QED BY <1>5, <1>6

IndexStep(p) == \/ ListConstraints(p) \/ DropTransaction(p) \/ DropRefused(p) \/ DropAllV3(p)
                \/ CreateTransaction(p) \/ CreateRefused(p) \/ Verify(p) \/ CallFails(p) \/ Close(p)

\* A step of the loops over the databases stays within them.
LEMMA Advances ==
    ASSUME TypeOK, NEW p \in Proc, NEW here \in Indexing, NEW l \in Indexing \cup {"started"},
           pc[p] \in Indexing, Advance(p, here, l)
    PROVE  /\ at' \in [Proc -> Nat \ {0}] /\ pc' \in [Proc -> Pc]
           /\ pc'[p] \in {here, l} /\ at'[p] <= Len(TargetDbs(p))
           /\ \A q \in Proc \ {p} : pc'[q] = pc[q] /\ at'[q] = at[q]
<1>1. here \in Pc /\ l \in Pc /\ pc \in [Proc -> Pc] /\ at \in [Proc -> Nat \ {0}]
  BY DEF TypeOK, Pc, Indexing, Returned
<1>2. Len(TargetDbs(p)) \in Nat \ {0} /\ at[p] <= Len(TargetDbs(p))
  BY TargetsTyped DEF TypeOK
<1>3. CASE at[p] < Len(TargetDbs(p))
  BY <1>1, <1>2, <1>3 DEF Advance, Go
<1>4. CASE ~ at[p] < Len(TargetDbs(p))
  BY <1>1, <1>2, <1>4 DEF Advance, Go
<1> QED BY <1>3, <1>4

\* One loop step of one process, as it changes where the process is.
LEMMA IndexMoves ==
    ASSUME TypeOK, NEW p \in Proc, IndexStep(p)
    PROVE  /\ at' \in [Proc -> Nat \ {0}] /\ pc' \in [Proc -> Pc]
           /\ pc[p] \in Indexing \cup Returned /\ pc'[p] \in Indexing \cup Returned \cup {"failed"}
           /\ pc'[p] \in Indexing => at'[p] <= Len(TargetDbs(p))
           /\ \A q \in Proc \ {p} : pc'[q] = pc[q] /\ at'[q] = at[q]
<1>0. ASSUME Fail(p)
      PROVE  /\ at' \in [Proc -> Nat \ {0}] /\ pc' \in [Proc -> Pc] /\ pc'[p] = "failed"
             /\ \A q \in Proc \ {p} : pc'[q] = pc[q] /\ at'[q] = at[q]
  <2>1. pc' = [pc EXCEPT ![p] = "failed"] /\ at' = [at EXCEPT ![p] = 1] /\ "failed" \in Pc /\ 1 \in Nat \ {0}
    BY <1>0 DEF Fail, Go, Pc
  <2>2. pc \in [Proc -> Pc] /\ at \in [Proc -> Nat \ {0}]
    BY DEF TypeOK
  <2> QED BY <2>1, <2>2
<1> USE DEF Indexing, Returned
<1>1. CASE ListConstraints(p)
  <2>1. CASE remote[Target(p)].constraints = {}
    BY <1>1, <2>1, Advances DEF ListConstraints
  <2>2. CASE remote[Target(p)].constraints # {}
    BY <1>1, <2>2 DEF TypeOK, ListConstraints, Go, Pc
  <2> QED BY <2>1, <2>2
<1>2. CASE DropTransaction(p)
  BY <1>2, Advances DEF DropTransaction
<1>3. CASE DropRefused(p) \/ CreateRefused(p) \/ CallFails(p)
  BY <1>0, <1>3 DEF DropRefused, CreateRefused, CallFails
<1>4. CASE DropAllV3(p)
  <2>1. CASE remote[Target(p)].constraints = {}
    BY <1>4, <2>1, Advances DEF DropAllV3
  <2>2. CASE remote[Target(p)].constraints # {}
    BY <1>0, <1>4, <2>2 DEF DropAllV3
  <2> QED BY <2>1, <2>2
<1>5. CASE CreateTransaction(p)
  BY <1>5, Advances DEF CreateTransaction
<1>6. CASE Verify(p)
  <2>1. CASE remote[Target(p)].constraints = {}
    BY <1>0, <1>6, <2>1 DEF Verify
  <2>2. CASE remote[Target(p)].constraints # {}
    BY <1>6, <2>2, Advances DEF Verify
  <2> QED BY <2>1, <2>2
<1>7. CASE Close(p)
  BY <1>7 DEF TypeOK, Close, Go, Pc
<1> QED BY <1>1, <1>2, <1>3, <1>4, <1>5, <1>6, <1>7 DEF IndexStep

\* And as it changes what it has listed and what the databases hold.
LEMMA IndexData ==
    ASSUME TypeOK, NEW p \in Proc, IndexStep(p)
    PROVE  /\ listed' \in [Proc -> SUBSET (Unique \cup UNION {r.constraints : r \in Found})]
           /\ remote' \in [Db -> Rules]
<1>1. CASE pc[p] \in Indexing
  <2>1. Target(p) \in Db /\ remote \in [Db -> Rules] /\ remote[Target(p)] \in Rules
    BY <1>1, TargetsTyped DEF TypeOK
  <2>2. remote[Target(p)].constraints \subseteq Unique \cup UNION {r.constraints : r \in Found}
    BY <2>1 DEF Rules
  <2>3. listed' \in [Proc -> SUBSET (Unique \cup UNION {r.constraints : r \in Found})]
    BY <1>1, <2>2 DEF TypeOK, IndexStep, ListConstraints, DropTransaction, DropRefused, DropAllV3,
                      CreateTransaction, CreateRefused, Verify, CallFails, Close, Fail, Forget
  <2>4. \A r \in Rules : [remote EXCEPT ![Target(p)] = r] \in [Db -> Rules]
    BY <2>1
  <2>5. \/ UNCHANGED remote
        \/ remote' = [remote EXCEPT ![Target(p)] = [constraints |-> {}, indexes |-> {}]]
        \/ remote' = [remote EXCEPT ![Target(p)] = [constraints |-> remote[Target(p)].constraints \cup Unique,
                                                    indexes     |-> remote[Target(p)].indexes \cup Composite]]
    BY DEF IndexStep, ListConstraints, DropTransaction, DropRefused, DropAllV3,
           CreateTransaction, CreateRefused, Verify, CallFails, Close, CreateAll
  <2>6. remote' \in [Db -> Rules]
    BY <2>1, <2>4, <2>5, RulesTyped
  <2> QED BY <2>3, <2>6
<1>2. CASE pc[p] \notin Indexing
  BY <1>2 DEF TypeOK, IndexStep, ListConstraints, DropTransaction, DropRefused, DropAllV3,
              CreateTransaction, CreateRefused, Verify, CallFails, Close, Indexing
<1> QED BY <1>1, <1>2

LEMMA IndexMgmtStep ==
    ASSUME StartInv, NEW p \in Proc, IndexStep(p)
    PROVE  StartInv'
<1> USE DEF StartInv
<1>1. UNCHANGED <<conf, routine, out, done, g, expired, server, before>>
  BY DEF IndexStep, ListConstraints, DropTransaction, DropRefused, DropAllV3, CreateTransaction,
         CreateRefused, Verify, CallFails, Close, IndexFrame, driverVars
<1>2. \A q \in Proc : TargetDbs(q)' = TargetDbs(q)
  BY <1>1 DEF TargetDbs
<1>3. TypeOK'
  <2>1. \A q \in Proc : pc'[q] \in Indexing => at'[q] <= Len(TargetDbs(q))'
    BY <1>2, IndexMoves DEF TypeOK
  <2>2. /\ at' \in [Proc -> Nat \ {0}] /\ pc' \in [Proc -> Pc] /\ remote' \in [Db -> Rules]
        /\ listed' \in [Proc -> SUBSET (Unique \cup UNION {r.constraints : r \in Found})]
    BY IndexMoves, IndexData
  <2> QED BY <1>1, <2>1, <2>2 DEF TypeOK
<1>4. ASSUME NEW q \in Proc PROVE InStep(q)'
  <2>1. CASE q # p
    BY <1>1, <2>1, IndexMoves DEF InStep, Settled
  <2>2. CASE q = p
    BY <1>1, <2>2, IndexMoves DEF InStep, Settled, Indexing, Returned
  <2> QED BY <2>1, <2>2
<1> QED BY <1>3, <1>4

LEMMA StartStep ==
    ASSUME StartInv, [Next]_vars
    PROVE  StartInv'
<1>1. CASE UNCHANGED vars
  BY <1>1 DEF StartInv, TypeOK, InStep, Settled, TargetDbs, vars, callVars, driverVars
<1>2. ASSUME NEW p \in Proc, Local(p) \/ Answered(p) \/ CallFails(p) \/ Expire(p) \/ Close(p)
      PROVE  StartInv'
  BY <1>2, RoutineStep, CallStep, IndexMgmtStep DEF Local, Answered, IndexStep
<1> QED BY <1>1, <1>2 DEF Next

\* The inductive invariant: New, its goroutine and the channel keep step.
THEOREM StartInvariant == Spec => []StartInv
BY StartInit, StartStep, PTL DEF Spec

\* The state of start-up has its types, for any number of processes.
THEOREM StartTypeCorrect == Spec => []TypeOK
BY StartInvariant, PTL DEF StartInv

\* New works on a finished driver past its wait: the goroutine has ended, and what it
\* set of the Gogm without a lock does not change any more.
THEOREM StartIsSettled == Spec => []StartedIsSettled
<1>1. StartInv => StartedIsSettled
  BY DEF StartInv, InStep, Settled, StartedIsSettled
<1> QED BY <1>1, StartInvariant, PTL

-------------------------------------------------------------------------------
Targets(p) == 1..Len(TargetDbs(p))

\* Process q still has the rules of database d to create, or has failed; process p has
\* created them.
Owes(q, d) == \/ pc[q] = "failed"
              \/ \E i \in Targets(q) : /\ TargetDbs(q)[i] = d
                                       /\ \/ pc[q] \in {"list", "drop"}
                                          \/ pc[q] = "create" /\ i >= at[q]
Did(p, d)  == /\ Asserting(p)
              /\ \E i \in Targets(p) : /\ TargetDbs(p)[i] = d
                                       /\ \/ pc[p] \in {"verify", "started", "closed"}
                                          \/ pc[p] = "create" /\ i < at[p]

\* Who takes the rules of a database away is to create them again.
SetsInv == \A p \in Proc, d \in Db : Did(p, d) => HasRules(d) \/ \E q \in Proc : Owes(q, d)

\* What a step of process p may do to the rules without breaking that.
Keeps(p, d) == /\ HasRules(d) => HasRules(d)' \/ Owes(p, d)'
               /\ Owes(p, d) => HasRules(d)' \/ Owes(p, d)'
               /\ Did(p, d)' => HasRules(d)' \/ Did(p, d) \/ Owes(p, d)'

\* The other processes do not notice where a process is.
LEMMA OthersStay ==
    ASSUME StartInv, NEW p \in Proc, Local(p) \/ Answered(p) \/ CallFails(p) \/ Expire(p) \/ Close(p),
           NEW q \in Proc \ {p}
    PROVE  /\ UNCHANGED <<conf, before>> /\ pc'[q] = pc[q] /\ at'[q] = at[q] /\ TargetDbs(q)' = TargetDbs(q)
<1>1. CASE IndexStep(p)
  <2>1. UNCHANGED <<conf, g, before>>
    BY <1>1 DEF IndexStep, ListConstraints, DropTransaction, DropRefused, DropAllV3, CreateTransaction,
                CreateRefused, Verify, CallFails, Close, IndexFrame, driverVars
  <2> QED BY <1>1, <2>1, IndexMoves DEF StartInv, TargetDbs
<1>2. CASE NewContext(p) \/ InitDriver(p) \/ Receive(p) \/ TimeOut(p) \/ Expire(p)
  <2>1. UNCHANGED <<conf, g, before, at>> /\ pc'[q] = pc[q]
    BY <1>2 DEF StartInv, TypeOK, NewContext, InitDriver, Receive, TimeOut, Expire, Go, driverVars, callVars
  <2> QED BY <2>1 DEF TargetDbs
<1>3. CASE CreateDriver(p) \/ Connect(p) \/ TestQuery(p) \/ Send(p)
  <2>1. UNCHANGED <<conf, before, at, pc>> /\ g'[q] = g[q]
    BY <1>3 DEF StartInv, TypeOK, CreateDriver, Connect, TestQuery, Send, RoutineFrame, callVars
  <2> QED BY <2>1 DEF TargetDbs
<1> QED BY <1>1, <1>2, <1>3 DEF Local, Answered, IndexStep

LEMMA KeepsSuffices ==
    ASSUME StartInv, SetsInv, NEW p \in Proc,
           Local(p) \/ Answered(p) \/ CallFails(p) \/ Expire(p) \/ Close(p),
           \A d \in Db : Keeps(p, d)
    PROVE  SetsInv'
<1>1. ASSUME NEW q \in Proc \ {p}, NEW d \in Db PROVE (Did(q, d)' <=> Did(q, d)) /\ (Owes(q, d)' <=> Owes(q, d))
  BY OthersStay DEF Did, Owes, Targets, Asserting
<1>2. SUFFICES ASSUME NEW q \in Proc, NEW d \in Db, Did(q, d)'
               PROVE  HasRules(d)' \/ \E r \in Proc : Owes(r, d)'
  BY DEF SetsInv
<1>3. Did(q, d) \/ HasRules(d)' \/ Owes(p, d)'
  BY <1>1, <1>2 DEF Keeps
<1>4. ASSUME Did(q, d) PROVE HasRules(d)' \/ \E r \in Proc : Owes(r, d)'
  <2>1. CASE HasRules(d)
    BY <2>1 DEF Keeps
  <2>2. CASE \E r \in Proc : Owes(r, d)
    BY <1>1, <2>2 DEF Keeps
  <2> QED BY <1>4, <2>1, <2>2 DEF SetsInv
<1> QED BY <1>3, <1>4

\* A process that fails owes everything.
LEMMA KeepsWhenFailed ==
    ASSUME NEW p \in Proc, NEW d \in Db, pc'[p] = "failed"
    PROVE  Keeps(p, d)
BY DEF Keeps, Owes

\* Before the index management there is nothing to keep.
LEMMA KeepsBefore ==
    ASSUME StartInv, NEW p \in Proc, NEW d \in Db,
           \/ CreateDriver(p) \/ Connect(p) \/ TestQuery(p) \/ Send(p)
           \/ NewContext(p) \/ InitDriver(p) \/ Receive(p) \/ TimeOut(p) \/ Expire(p)
    PROVE  Keeps(p, d)
<1>1. UNCHANGED <<remote, conf>>
  BY DEF CreateDriver, Connect, TestQuery, Send, RoutineFrame, NewContext, InitDriver, Receive, TimeOut, Expire
<1>2. HasRules(d)' <=> HasRules(d)
  BY <1>1 DEF HasRules
<1>3. pc[p] \in {"new", "dial", "wait", "failed"}
  <2>1. pc[p] \in Pc
    BY DEF StartInv, TypeOK
  <2>2. CASE CreateDriver(p) \/ Connect(p) \/ TestQuery(p) \/ Send(p)
    BY <2>1, <2>2 DEF StartInv, InStep, CreateDriver, Connect, TestQuery, Send, Pc
  <2>3. CASE NewContext(p) \/ InitDriver(p) \/ Receive(p) \/ TimeOut(p) \/ Expire(p)
    BY <2>3 DEF NewContext, InitDriver, Receive, TimeOut, Expire
  <2> QED BY <2>2, <2>3
<1>4. \/ pc'[p] \in {"new", "dial", "wait", "failed", "list"}
      \/ pc'[p] \in {"verify", "started"} /\ ~ Asserting(p)'
  <2>1. CASE CreateDriver(p) \/ Connect(p) \/ TestQuery(p) \/ Send(p)
    BY <1>3, <2>1 DEF CreateDriver, Connect, TestQuery, Send, RoutineFrame, callVars
  <2>2. CASE NewContext(p) \/ InitDriver(p) \/ TimeOut(p) \/ Expire(p)
    BY <1>3, <2>2 DEF StartInv, TypeOK, NewContext, InitDriver, TimeOut, Expire, Go, callVars
  <2>3. CASE Receive(p)
    BY <1>1, <2>3 DEF StartInv, TypeOK, Receive, Go, FirstStep, Asserting
  <2> QED BY <2>1, <2>2, <2>3
<1>5. Owes(p, d) => pc[p] = "failed"
  BY <1>3 DEF Owes
<1>6. pc[p] = "failed" => pc'[p] = "failed"
  BY <1>3 DEF CreateDriver, Connect, TestQuery, Send, RoutineFrame, callVars,
              NewContext, InitDriver, Receive, TimeOut, Expire
<1>7. ~ Did(p, d)'
  BY <1>4 DEF Did
<1> QED BY <1>2, <1>5, <1>6, <1>7 DEF Keeps, Owes

\* What the loops over the databases leave as it is.
LEMMA LoopFrame ==
    ASSUME StartInv, NEW p \in Proc, IndexStep(p)
    PROVE  /\ TargetDbs(p)' = TargetDbs(p) /\ Targets(p)' = Targets(p) /\ (Asserting(p)' <=> Asserting(p))
           /\ Len(TargetDbs(p)) \in Nat \ {0} /\ at[p] \in Nat \ {0}
           /\ pc[p] \in Indexing => at[p] \in Targets(p) /\ TargetDbs(p)[at[p]] = Target(p) /\ Target(p) \in Db
<1>1. UNCHANGED <<conf, g>>
  BY DEF IndexStep, ListConstraints, DropTransaction, DropRefused, DropAllV3, CreateTransaction,
         CreateRefused, Verify, CallFails, Close, IndexFrame, driverVars
<1>2. Len(TargetDbs(p)) \in Nat \ {0} /\ at[p] \in Nat \ {0}
  BY TargetsTyped DEF StartInv
<1>3. ASSUME pc[p] \in Indexing PROVE at[p] \in Targets(p) /\ Target(p) \in Db
  BY <1>2, <1>3, TargetsTyped DEF StartInv, TypeOK, Targets
<1> QED BY <1>1, <1>2, <1>3 DEF TargetDbs, Targets, Target, Asserting

\* Listing and dropping: a process at it has every database yet to do.
LEMMA KeepsDrop ==
    ASSUME StartInv, NEW p \in Proc, NEW d \in Db, ListConstraints(p) \/ DropTransaction(p) \/ DropAllV3(p)
    PROVE  Keeps(p, d)
<1>0. IndexStep(p) /\ pc[p] \in {"list", "drop"} /\ pc[p] \in Indexing
  BY DEF IndexStep, ListConstraints, DropTransaction, DropAllV3, Indexing
<1>1. \/ pc'[p] = "failed"
      \/ pc'[p] \in {"list", "drop"}
      \/ pc'[p] = "create" /\ at'[p] = 1
  BY DEF StartInv, TypeOK, ListConstraints, DropTransaction, DropAllV3, Fail, Go, Advance
<1>2. ASSUME pc'[p] # "failed", NEW i \in Targets(p), TargetDbs(p)[i] = d PROVE Owes(p, d)'
  <2>1. i \in Nat /\ i >= 1 /\ i \in Targets(p)'
    BY <1>0, LoopFrame DEF Targets
  <2>2. (TargetDbs(p)[i])' = d
    BY <1>0, <1>2, LoopFrame
  <2>3. pc'[p] \in {"list", "drop"} \/ (pc'[p] = "create" /\ i >= at'[p])
    BY <1>1, <1>2, <2>1
  <2> QED BY <2>1, <2>2, <2>3 DEF Owes
<1>3. ASSUME pc'[p] # "failed" PROVE Owes(p, d) => Owes(p, d)'
  BY <1>0, <1>2, <1>3 DEF Owes
<1>4. ~ Did(p, d)' \/ pc'[p] = "failed"
  BY <1>0, <1>1, LoopFrame DEF Did, Targets
<1>5. ASSUME pc'[p] # "failed" PROVE HasRules(d) => HasRules(d)' \/ Owes(p, d)'
  <2>1. CASE d = Target(p)
    BY <1>0, <1>2, <1>5, <2>1, LoopFrame
  <2>2. CASE d # Target(p)
    <3>1. remote'[d] = remote[d]
      BY <1>0, <2>2, LoopFrame DEF StartInv, TypeOK, ListConstraints, DropTransaction, DropAllV3
    <3> QED BY <3>1 DEF HasRules
  <2> QED BY <2>1, <2>2
<1> QED BY <1>3, <1>4, <1>5, KeepsWhenFailed DEF Keeps

\* Creating: the database done with has its rules, no database loses one.
LEMMA KeepsCreate ==
    ASSUME StartInv, NEW p \in Proc, NEW d \in Db, CreateTransaction(p)
    PROVE  Keeps(p, d)
<1>0. IndexStep(p) /\ pc[p] = "create" /\ pc[p] \in Indexing
  BY DEF IndexStep, CreateTransaction, Indexing
<1>1. /\ remote'[Target(p)] = [constraints |-> remote[Target(p)].constraints \cup Unique,
                               indexes     |-> remote[Target(p)].indexes \cup Composite]
      /\ d # Target(p) => remote'[d] = remote[d]
  BY <1>0, LoopFrame DEF StartInv, TypeOK, CreateTransaction, CreateAll
<1>2. (d = Target(p) => HasRules(d)') /\ (HasRules(d) => HasRules(d)')
  BY <1>1 DEF HasRules
<1>3. \/ at[p] < Len(TargetDbs(p)) /\ pc'[p] = "create" /\ at'[p] = at[p] + 1
      \/ at[p] = Len(TargetDbs(p)) /\ pc'[p] = "verify"
  BY <1>0, LoopFrame DEF StartInv, TypeOK, CreateTransaction, Advance, Go, Targets
<1>4. Owes(p, d) => HasRules(d)' \/ Owes(p, d)'
  <2>1. ASSUME Owes(p, d), d # Target(p) PROVE Owes(p, d)'
    <3>1. PICK i \in Targets(p) : TargetDbs(p)[i] = d /\ i >= at[p]
      BY <1>0, <2>1 DEF Owes
    <3>2. i # at[p] /\ i \in Nat /\ i <= Len(TargetDbs(p))
      BY <1>0, <2>1, <3>1, LoopFrame DEF Targets
    <3>3. pc'[p] = "create" /\ i >= at'[p]
      BY <1>0, <1>3, <3>1, <3>2, LoopFrame
    <3> QED BY <1>0, <3>1, <3>3, LoopFrame DEF Owes
  <2> QED BY <1>2, <2>1
<1>5. Did(p, d)' => HasRules(d)' \/ Did(p, d)
  <2>1. ASSUME Did(p, d)', d # Target(p) PROVE Did(p, d)
    <3>1. PICK i \in Targets(p) : TargetDbs(p)[i] = d /\ (pc'[p] = "create" => i < at'[p])
      BY <1>0, <1>3, <2>1, LoopFrame DEF Did
    <3>2. i # at[p] /\ i \in Nat /\ i <= Len(TargetDbs(p))
      BY <1>0, <2>1, <3>1, LoopFrame DEF Targets
    <3>3. i < at[p]
      BY <1>0, <1>3, <3>1, <3>2, LoopFrame
    <3> QED BY <1>0, <2>1, <3>1, <3>3, LoopFrame DEF Did
  <2> QED BY <1>2, <2>1
<1> QED BY <1>2, <1>4, <1>5 DEF Keeps

\* Verifying and closing change neither the rules nor what is done.
LEMMA KeepsAfter ==
    ASSUME StartInv, NEW p \in Proc, NEW d \in Db, Verify(p) \/ Close(p)
    PROVE  Keeps(p, d)
<1>1. IndexStep(p) /\ UNCHANGED remote /\ pc[p] \in {"verify", "started", "closed"}
  BY DEF IndexStep, Verify, Close, Returned
<1>2. pc'[p] \in {"verify", "started", "closed", "failed"}
  BY DEF StartInv, TypeOK, Verify, Close, Advance, Fail, Go
<1>3. ASSUME pc'[p] # "failed"
      PROVE  ~ Owes(p, d) /\ (Did(p, d)' => Did(p, d)) /\ (HasRules(d)' <=> HasRules(d))
  BY <1>1, <1>2, <1>3, LoopFrame DEF Owes, Did, HasRules
<1> QED BY <1>3, KeepsWhenFailed DEF Keeps

\* The invariant of the databases, with that of the processes.
LEMMA SetsStep ==
    ASSUME StartInv, SetsInv, [Next]_vars
    PROVE  SetsInv'
<1>1. CASE UNCHANGED vars
  BY <1>1 DEF SetsInv, Did, Owes, HasRules, Targets, TargetDbs, Asserting, vars, callVars, driverVars
<1>2. ASSUME NEW p \in Proc, Local(p) \/ Answered(p) \/ CallFails(p) \/ Expire(p) \/ Close(p)
      PROVE  SetsInv'
  <2>1. ASSUME NEW d \in Db PROVE Keeps(p, d)
    <3>1. CASE DropRefused(p) \/ CreateRefused(p) \/ CallFails(p)
      BY <3>1, KeepsWhenFailed DEF StartInv, TypeOK, DropRefused, CreateRefused, CallFails, Fail, Go
    <3> QED BY <1>2, <3>1, KeepsBefore, KeepsDrop, KeepsCreate, KeepsAfter DEF Local, Answered
  <2> QED BY <1>2, <2>1, KeepsSuffices
<1> QED BY <1>1, <1>2 DEF Next

\* ASSERT_INDEX sets the rules: when every New has returned without an error, each
\* database of each that asserts has all of them, whatever the others dropped meanwhile.
THEOREM StartAssertSets == Spec => []AssertSets
<1>1. Init => SetsInv
  BY DEF Init, SetsInv, Did
<1>2. StartInv /\ SetsInv => AssertSets
  <2>1. ASSUME StartInv, SetsInv, AllReturned, NEW p \in Proc, Asserting(p), NEW i \in 1..Len(TargetDbs(p))
        PROVE  HasRules(TargetDbs(p)[i])
    <3>1. TargetDbs(p)[i] \in Db /\ i \in Targets(p)
      BY <2>1, TargetsTyped DEF StartInv, Targets
    <3>2. Did(p, TargetDbs(p)[i])
      BY <2>1, <3>1 DEF Did, AllReturned, Returned
    <3>3. ~ \E q \in Proc : Owes(q, TargetDbs(p)[i])
      BY <2>1 DEF Owes, AllReturned, Returned
    <3> QED BY <2>1, <3>1, <3>2, <3>3 DEF SetsInv
  <2> QED BY <2>1 DEF AssertSets
<1>3. StartInv /\ SetsInv /\ [Next]_vars => SetsInv'
  BY SetsStep
<1> QED BY <1>1, <1>2, <1>3, StartInvariant, PTL DEF Spec

-------------------------------------------------------------------------------
\* Database d has rules that are not mapped; process p has come past dropping them.
Extra(d)   == ~ (remote[d].constraints \subseteq Unique /\ remote[d].indexes \subseteq Composite)
Past(p, d) == /\ Asserting(p)
              /\ \E i \in Targets(p) : /\ TargetDbs(p)[i] = d
                                       /\ \/ pc[p] \in {"create", "verify", "started", "closed"}
                                          \/ pc[p] \in {"list", "drop"} /\ i < at[p]

\* As long as old rules are there a constraint is, so whoever lists sees one and drops.
ReplacesInv == \A d \in Db : before[d].constraints # {} =>
                  /\ Extra(d) => remote[d].constraints # {}
                  /\ \A p \in Proc : Past(p, d) => ~ Extra(d)

\* What a step of process p may do to the other rules without breaking that.
Clears(p, d) == /\ Extra(d)' => Extra(d)
                /\ Extra(d)' /\ remote[d].constraints # {} => remote'[d].constraints # {}
                /\ Past(p, d)' => \/ Past(p, d) \/ ~ Extra(d)'
                                  \/ Extra(d) /\ remote[d].constraints = {}

LEMMA ClearsSuffices ==
    ASSUME StartInv, ReplacesInv, NEW p \in Proc,
           Local(p) \/ Answered(p) \/ CallFails(p) \/ Expire(p) \/ Close(p),
           \A d \in Db : Clears(p, d), UNCHANGED before
    PROVE  ReplacesInv'
<1>1. ASSUME NEW q \in Proc \ {p}, NEW d \in Db PROVE Past(q, d)' <=> Past(q, d)
  BY OthersStay DEF Past, Targets, Asserting
<1>2. ASSUME NEW d \in Db, before[d].constraints # {}
      PROVE  /\ Extra(d)' => remote'[d].constraints # {}
             /\ \A q \in Proc : Past(q, d)' => ~ Extra(d)'
  <2>1. Extra(d) => remote[d].constraints # {}
    BY <1>2 DEF ReplacesInv
  <2>2. \A q \in Proc : Past(q, d) => ~ Extra(d)
    BY <1>2 DEF ReplacesInv
  <2>3. Clears(p, d)
    OBVIOUS
  <2> QED BY <1>1, <2>1, <2>2, <2>3 DEF Clears
<1> QED BY <1>2 DEF ReplacesInv

\* Steps that change neither the rules nor how far the process has come.
LEMMA ClearsStill ==
    ASSUME NEW p \in Proc, NEW d \in Db, UNCHANGED remote, Past(p, d)' => Past(p, d)
    PROVE  Clears(p, d)
<1>1. Extra(d)' <=> Extra(d)
  BY DEF Extra
<1> QED BY <1>1 DEF Clears

LEMMA ClearsBefore ==
    ASSUME StartInv, NEW p \in Proc, NEW d \in Db,
           \/ CreateDriver(p) \/ Connect(p) \/ TestQuery(p) \/ Send(p)
           \/ NewContext(p) \/ InitDriver(p) \/ Receive(p) \/ TimeOut(p) \/ Expire(p)
    PROVE  Clears(p, d)
<1>1. UNCHANGED remote
  BY DEF CreateDriver, Connect, TestQuery, Send, RoutineFrame, NewContext, InitDriver, Receive, TimeOut, Expire
<1>2. ~ Past(p, d)'
  <2>1. CASE CreateDriver(p) \/ Connect(p) \/ TestQuery(p) \/ Send(p)
    <3>1. pc'[p] = pc[p] /\ pc[p] \notin Indexing \cup Returned
      BY <2>1 DEF StartInv, InStep, CreateDriver, Connect, TestQuery, Send, RoutineFrame, callVars
    <3> QED BY <3>1 DEF Past, Indexing, Returned
  <2>2. CASE NewContext(p) \/ InitDriver(p) \/ TimeOut(p) \/ Expire(p)
    <3>1. pc'[p] \in {"dial", "wait", "failed"}
      BY <2>2 DEF StartInv, TypeOK, NewContext, InitDriver, TimeOut, Expire, Go, callVars
    <3> QED BY <3>1 DEF Past
  <2>3. CASE Receive(p)
    <3>1. pc'[p] \in {"failed", "list"} \/ ~ Asserting(p)'
      BY <2>3 DEF StartInv, TypeOK, Receive, Go, FirstStep, Asserting
    <3>2. at'[p] = 1 /\ \A i \in Targets(p)' : i \in Nat /\ ~ i < 1
      BY <2>3 DEF StartInv, InStep, Receive, Targets
    <3> QED BY <3>1, <3>2 DEF Past
  <2> QED BY <2>1, <2>2, <2>3
<1> QED BY <1>1, <1>2, ClearsStill

\* A step of the loops brings its process past the database at hand and no other.
LEMMA PastTarget ==
    ASSUME StartInv, NEW p \in Proc, NEW d \in Db, d # Target(p), pc[p] \in {"list", "drop"},
           ListConstraints(p) \/ DropTransaction(p) \/ DropAllV3(p), Past(p, d)'
    PROVE  Past(p, d)
<1>0. IndexStep(p) /\ pc[p] \in Indexing
  BY DEF IndexStep, Indexing
<1>1. PICK i \in Targets(p) : /\ TargetDbs(p)[i] = d
                              /\ \/ pc'[p] \in {"create", "verify", "started", "closed"}
                                 \/ pc'[p] \in {"list", "drop"} /\ i < at'[p]
  BY <1>0, LoopFrame DEF Past
<1>2. i # at[p] /\ i \in Nat /\ i <= Len(TargetDbs(p))
  BY <1>0, <1>1, LoopFrame DEF Targets
<1>3. \/ at[p] < Len(TargetDbs(p)) /\ pc'[p] = "list" /\ at'[p] = at[p] + 1
      \/ at[p] = Len(TargetDbs(p)) /\ pc'[p] = "create"
      \/ pc'[p] = "drop" /\ at'[p] = at[p]
      \/ pc'[p] = "failed"
  BY <1>0, LoopFrame DEF StartInv, TypeOK, ListConstraints, DropTransaction, DropAllV3, Fail, Advance, Go, Targets
<1>4. i < at[p]
  BY <1>0, <1>1, <1>2, <1>3, LoopFrame
<1>5. Asserting(p)
  BY <1>0, LoopFrame DEF Past
<1> QED BY <1>1, <1>4, <1>5 DEF Past

LEMMA ClearsDrop ==
    ASSUME StartInv, NEW p \in Proc, NEW d \in Db, ListConstraints(p) \/ DropTransaction(p) \/ DropAllV3(p)
    PROVE  Clears(p, d)
<1>0. IndexStep(p) /\ pc[p] \in {"list", "drop"} /\ pc[p] \in Indexing
  BY DEF IndexStep, ListConstraints, DropTransaction, DropAllV3, Indexing
<1>1. CASE d # Target(p)
  <2>1. remote'[d] = remote[d]
    BY <1>0, <1>1, LoopFrame DEF StartInv, TypeOK, ListConstraints, DropTransaction, DropAllV3
  <2>2. Extra(d)' <=> Extra(d)
    BY <2>1 DEF Extra
  <2> QED BY <1>0, <1>1, <2>1, <2>2, PastTarget DEF Clears
<1>2. CASE d = Target(p)
  <2>1. remote[d] = remote[Target(p)] /\ remote \in [Db -> Rules] /\ remote[d] \in Rules
    BY <1>2 DEF StartInv, TypeOK
  <2>2. CASE ListConstraints(p)
    <3>1. UNCHANGED remote /\ (Extra(d)' <=> Extra(d))
      BY <2>2 DEF ListConstraints, Extra
    <3>2. CASE remote[d].constraints = {}
      BY <3>1, <3>2 DEF Clears
    <3>3. CASE remote[d].constraints # {}
      <4>1. pc[p] = "list" /\ pc'[p] = "drop" /\ at' = at
        BY <1>2, <2>2, <3>3 DEF StartInv, TypeOK, ListConstraints, Go
      <4>2. Past(p, d)' => Past(p, d)
        BY <1>0, <4>1, LoopFrame DEF Past
      <4> QED BY <3>1, <4>2 DEF Clears
    <3> QED BY <3>2, <3>3
  <2>3. CASE DropTransaction(p)
    <3>1. remote'[d] = [constraints |-> {}, indexes |-> {}]
      BY <1>2, <2>1, <2>3 DEF DropTransaction
    <3> QED BY <3>1 DEF Clears, Extra
  <2>4. CASE DropAllV3(p)
    <3>0. UNCHANGED remote /\ (Extra(d)' <=> Extra(d))
      BY <2>4 DEF DropAllV3, Extra
    <3>1. CASE remote[d].constraints = {}
      BY <3>0, <3>1 DEF Clears
    <3>2. CASE remote[d].constraints # {}
      <4>1. UNCHANGED remote /\ pc'[p] = "failed"
        BY <1>2, <2>4, <3>2 DEF StartInv, TypeOK, DropAllV3, Fail, Go
      <4> QED BY <4>1, ClearsStill DEF Past
    <3> QED BY <3>1, <3>2
  <2> QED BY <2>2, <2>3, <2>4
<1> QED BY <1>1, <1>2

LEMMA ClearsAfter ==
    ASSUME StartInv, NEW p \in Proc, NEW d \in Db,
           DropRefused(p) \/ CreateTransaction(p) \/ CreateRefused(p) \/ Verify(p) \/ CallFails(p) \/ Close(p)
    PROVE  Clears(p, d)
<1>0. IndexStep(p)
  BY DEF IndexStep
<1>1. CASE DropRefused(p) \/ CreateRefused(p) \/ CallFails(p)
  <2>1. UNCHANGED remote /\ pc'[p] = "failed"
    BY <1>1 DEF StartInv, TypeOK, DropRefused, CreateRefused, CallFails, Fail, Go
  <2> QED BY <2>1, ClearsStill DEF Past
<1>2. CASE Verify(p) \/ Close(p)
  <2>1. UNCHANGED remote /\ pc[p] \in {"verify", "started", "closed"}
        /\ pc'[p] \in {"verify", "started", "closed", "failed"}
    BY <1>2 DEF StartInv, TypeOK, Verify, Close, Advance, Fail, Go, Returned
  <2>2. Past(p, d)' => Past(p, d)
    BY <1>0, <2>1, LoopFrame DEF Past
  <2> QED BY <2>1, <2>2, ClearsStill
<1>3. CASE CreateTransaction(p)
  <2>1. pc[p] = "create" /\ pc'[p] \in {"create", "verify"}
    BY <1>3 DEF StartInv, TypeOK, CreateTransaction, Advance, Go
  <2>2. Past(p, d)' => Past(p, d)
    BY <1>0, <2>1, LoopFrame DEF Past
  <2>3. remote'[d] = remote[d] \/ remote'[d] = [constraints |-> remote[d].constraints \cup Unique,
                                                indexes     |-> remote[d].indexes \cup Composite]
    BY <1>3 DEF StartInv, TypeOK, CreateTransaction, CreateAll
  <2>4. /\ Extra(d)' => Extra(d)
        /\ remote[d].constraints # {} => remote'[d].constraints # {}
    BY <2>3 DEF Extra
  <2> QED BY <2>2, <2>4 DEF Clears
<1> QED BY <1>1, <1>2, <1>3

LEMMA ReplacesStep ==
    ASSUME StartInv, ReplacesInv, [Next]_vars
    PROVE  ReplacesInv'
<1>1. CASE UNCHANGED vars
  BY <1>1 DEF ReplacesInv, Past, Extra, Targets, TargetDbs, Asserting, vars, callVars, driverVars
<1>2. ASSUME NEW p \in Proc, Local(p) \/ Answered(p) \/ CallFails(p) \/ Expire(p) \/ Close(p)
      PROVE  ReplacesInv'
  <2>1. \A d \in Db : Clears(p, d)
    BY <1>2, ClearsBefore, ClearsDrop, ClearsAfter DEF Local, Answered
  <2>2. UNCHANGED before
    BY <1>2 DEF Local, Answered, CreateDriver, Connect, TestQuery, Send, RoutineFrame,
                NewContext, InitDriver, Receive, TimeOut, Expire, ListConstraints, DropTransaction, DropRefused,
                DropAllV3, CreateTransaction, CreateRefused, Verify, CallFails, Close, IndexFrame
  <2> QED BY <1>2, <2>1, <2>2, ClearsSuffices
<1> QED BY <1>1, <1>2 DEF Next

\* The rules of the mapped types are about mapped labels.
LEMMA RulesAreMapped == Mapped(Unique) = Unique /\ Mapped(Composite) = Composite
<1>1. ASSUME NEW r \in Unique PROVE r[1] \in DOMAIN Tagged
  BY DEF Unique
<1>2. ASSUME NEW r \in Composite PROVE r[1] \in DOMAIN Tagged
  BY DEF Composite
<1> QED BY <1>1, <1>2 DEF Mapped

\* ASSERT_INDEX replaces the rules of the given nodes (config.go): when every New has
\* returned without an error, a database of each that asserts has of mapped labels the
\* rules of the mapped types and no outdated one, if it held a constraint before.
THEOREM StartAssertReplaces == Spec => []AssertReplaces
<1>1. Init => ReplacesInv
  BY DEF Init, ReplacesInv, Past
<1>2. StartInv /\ ReplacesInv /\ AssertSets => AssertReplaces
  <2>1. ASSUME StartInv, ReplacesInv, AssertSets, AllReturned, NEW p \in Proc, Asserting(p),
               NEW i \in 1..Len(TargetDbs(p)), NEW d, d = TargetDbs(p)[i], before[d].constraints # {}
        PROVE  Mapped(remote[d].constraints) = Unique /\ Mapped(remote[d].indexes) = Composite
    <3>1. d \in Db /\ i \in Targets(p)
      BY <2>1, TargetsTyped DEF StartInv, Targets
    <3>2. Past(p, d)
      BY <2>1, <3>1 DEF Past, AllReturned, Returned
    <3>3. ~ Extra(d) /\ HasRules(d)
      BY <2>1, <3>1, <3>2 DEF ReplacesInv, AssertSets
    <3>4. remote[d].constraints = Unique /\ remote[d].indexes = Composite
      BY <2>1, <3>1, <3>3 DEF Extra, HasRules, StartInv, TypeOK
    <3> QED BY <3>4, RulesAreMapped
  <2> QED BY <2>1 DEF AssertReplaces
<1>3. StartInv /\ ReplacesInv /\ [Next]_vars => ReplacesInv'
  BY ReplacesStep
<1> QED BY <1>1, <1>2, <1>3, StartInvariant, StartAssertSets, PTL DEF Spec
===============================================================================
