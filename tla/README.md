# A verification project for GoGM

GoGM is an object graph mapper between Go structs and Neo4j. This project models
its start-up and index management, its schema, its sessions, and its save and load
paths in TLA+, checks them with TLC on small instances
and proves the main invariants with TLAPS for all of them. Everything is
translated from the Go source; the Neo4j driver and database are external and
modelled from the way the source calls them.

## The system

| component | state it keeps | operations | what is hard about it |
|---|---|---|---|
| Session V2 (`sessionv2.go`) | `s.tx`, the driver session, config | Begin, Commit, Rollback, Save, Delete, Load, Query, ManagedTransaction, Close | the driver reruns work; failures leave `s.tx` set; three ways into a transaction |
| Session, deprecated (`session.go`) | the same | the same without ManagedTransaction | the same |
| Save (`save.go`, `util.go`) | `Id` and `LoadMap` in the caller's objects; nodes and relationships in Neo4j | SaveDepth: parse, create, walk, compare, remove, relate | two walks of a cyclic graph, several statements, objects changed before the commit |
| Delete (`delete.go`) | none | delete by id, by UUID | objects keep `Id` and `LoadMap` |
| Link functions (generated, `testing_/linking.go`) | reference fields of two objects | link, unlink | comparison by UUID |
| Start-up (`gogm.go`) | driver, schema, bolt version | New, init, Copy, Close | a goroutine that outlives the call it serves; deadlines |
| Indexes (`index*.go`) | the database's constraints and indexes | drop, create, verify per database | replicas that start at once; partial failure over databases |
| Load strategies (`load_strategy.go`) and pagination | none | schema, filter and page to query | what a pattern matches besides what was asked for |
| Decoder (`decoder.go`) | relationships to relate, ids for the LoadMaps | rows to objects | rows missing, cut by a page or read twice; the next Save deletes by the LoadMaps |
| Schema (`decorator.go`, `relationConfigs` in `util.go`) | decorator and relation configs | parse, validate, look up | ends of a relationship must match |
| Config, keys, logging, errors | none | checks of single values | boundaries only |
| `gogmcli` | none | parse Go, pair relationships, print code | pairing of ends |

Interaction: a caller edits its objects and calls a session. The session runs
the work function of `saveDepth` or `deleteByIds` in `s.tx` if it is set, else
hands it to the driver, which opens a transaction, runs the work, commits, and
may start over. The work function changes the caller's objects and the graph;
only the graph is undone by a rollback. `ManagedTransaction` stores the driver's
transaction in `s.tx` while the caller's work runs, and calls the same methods
of the same session in turn.

`New` starts a goroutine that creates the driver and waits for it up to its
context's deadline; then index management runs sessions of its own on each target
database. A load builds a query by one of two strategies, runs it in `s.tx` or in
a read transaction that the driver may run again, and `decode` turns the rows into
objects while the stream is read.

What makes each part correct: a session never loses a transaction, never works
in the wrong one and never misreports an outcome; a Save that returns nil leaves
the graph and the LoadMaps as the objects say, and touches nothing else; an
object is stored at most once; a load returns what was asked for, in the fields
it was saved from, with LoadMaps that make no Save delete what nobody removed; a
New that returns nil left a settled driver and complete rules. The hazards
behind these, with lines, are listed in `PROJECT.json`.

## Modules

* `AcidTransactions`: the abstract promise to callers. A transaction is decided
  in one step, and what the caller is told about it is true. No sessions.
* `Neo4jDriver` (external): transaction handles; every call may succeed or fail,
  and a failed Commit may or may not have been applied.
* `GogmSession` extends it: one action per method of the two session types. `tx`
  is `s.tx`; `pc`, `call`, `cur`, `tries` are the goroutine inside a driver retry
  loop; `acked` and `told` record what callers were told, `auto` the write that a
  transaction was opened for. A call that only returns an error is a stuttering step.
  A write may return nil in a transaction that a broken result stream has ended
  (`WorkOk`): nobody looks at the error of a stream, only the Commit fails. What a Save writes is a token in
  numbered pieces, one per statement, so that a half-done Save is visible.
  `Acid` instantiates `AcidTransactions`: `phase` is read off the transaction's
  status, `data` is `writes`.
* `Neo4jGraph`: the Cypher statements of `save.go` and `delete.go` as operators
  on a graph of nodes and typed relationships.
* `SaveWork`: `saveDepth` as the set of its outcomes on given objects and graph:
  `Parsed` and `Relations` (`parseStruct`), `Visits` and `CurRels`
  (`generateCurRels`, over every order of Go's maps), `Dels` (`calculateDels`),
  `Removed`, `RelRows`, and a failure at every statement. One outcome holds the
  changed objects, the graph and how it ended: "nil"; "error", its own in a live
  transaction; "failed", an error in a transaction that is over; "lost", nil in such
  a one. A result of `createNodes` that breaks off (`HalfCreated`, `LastBroken`) leaves
  some objects without an id; after the last of its results nothing notices, the walk
  goes on (`AfterBroken`), and the loop over LoadMaps replaces those of some objects
  before it finds one that the walk missed (`Unmapped`).
* `ObjectStore`: a caller's objects beside the database through edits, saves,
  driver attempts, explicit transactions and deletes. `task` is the Save in the
  driver's retry loop, with the LoadMaps it began with.
* `SaveTraversal`: the two walks of a Save side by side, on any object graph.
* `Schema`: relationship fields as records, in the order they are parsed. `Validate`
  is `relationConfigs.Validate`, `GetConfig` is `getConfig` (a lone config is taken
  whatever its direction, of several the first that fits), `SavedAs` the direction
  in which `processStruct` stores a field, `OppositeOf` and `Generates` the pairing
  of `gogmcli`. No state; `GogmStart` and `Loading` extend it.
* `GogmStart`: per process a call of `New` (`pc`), the goroutine of
  `initDriverRoutine` (`routine`), the channel between them (`done`), the fields both
  touch (`g`); and what the databases hold (`remote`). Each step of index
  management is one call or one managed transaction; the steps of several processes
  interleave. What the transaction of a drop needs is `Droppable`. `CallFails` is the failure of any such call.
* `Loading`: one call of a load or of `Query`. `Paths`, `PathRows`, `Expand`,
  `SchemaRows` are the rows that the two strategies ask for, `Pages` any part that
  SKIP and LIMIT may leave (a path is a row of its own, whatever others hold the same
  nodes), `CutShort` what a broken stream leaves; `Sort` (which overwrites the caller's
  object with its first conversion, `Fresh`), `Relate`
  (one relationship, in any order of Go's map) and `Finish` are `decode`;
  `Interrupted` is the driver's retry onto the same response object.
* `MCGogmSession`, `MCObjectStore`, `MCSaveTraversal`, `MCGogmStart`, `MCLoading`:
  bounded instances.
* `Recursion`: induction and recursive definitions over data, as lemmas.
* `AcidTransactions_proofs`, `GogmSession_proofs`, `SaveWork_proofs`,
  `SaveTraversal_proofs`, `ObjectStore_proofs`, `GogmStart_proofs`,
  `Loading_proofs`: theorems.

The definitions commented as faulty, placed before the definition they vary,
are plausible mistakes; each property is violated once its definition is
replaced by one of them.

## Runs

| run | instance | shows |
|---|---|---|
| `sessions` | a SessionV2Impl beside a Session, 2 transactions, a token of 2 pieces, 2 attempts | `TypeOK`, `NoOrphan`, `HandleIsCurrent`, `AckedIsApplied`, `AutoIsAtomic`, the inductive invariant `IInv`, and that `AcidTransactions` is implemented |
| `close_after_failure` | the SessionV2Impl alone | `StaysClosable` is violated |
| `pair` | 2 objects of 2 labels, a slice field on either end of one relationship, depths 0 to 2, 3 edits, 2 attempts | `SaveMirrors`, `SaveRemoves`, `SaveFrame`, `IdMeansStored`, `OneNodePerObject`, and the inductive invariant `StoreInv` |
| `retry_loses_node` | the same, linked with the link functions only | `SavedIsStored` is violated |
| `retry_keeps_link` | the same | `RetriedSaveRemoves` is violated |
| `load_map_ahead` | the same | `LoadMapIsLoaded` is violated |
| `unlink_then_save` | 3 objects, depth 3, 1 attempt | `UnlinkSaves` is violated |
| `walks_agree` | every graph of 4 objects, depths 0, 1, 3 | `WalkCovers`, `WalkStaysWithin` |
| `walks_disagree` | the same, depth 2 | `WalkCovers` is violated |
| `start_up` | 2 replicas, 2 databases, 7 configurations, protocol versions 3 and 4, 5 states the databases may be found in | `StartedIsSettled`, `AssertSets`, `AssertReplaces`, and with fairness `SendEnds`, `DriverWaitEnds`, `NewReturns` |
| `loading` | 4 nodes of 3 labels, one of them unmapped; 8 schemas; every set of up to 2 relationships; depths 0 to 2; by id, filter, page, own statement, in a transaction or not; one broken stream, one retry | `LoadMapIsHeld`, `LoadedWhereSaved`, `GeneratedSchemasLoad`, `SchemaWithinPath`, `StrategiesAgree`, `MatchesReturned` |
| `load_all_filter` | the same, one call with a filter | `ReturnsMatches` is violated |

Bounds. Two transactions are an attempt and a retry, or an attempt and a
transaction before or after it, of one session or of two, which is every way `s.tx`
can go stale; two pieces are a Save that can stop half way. What holds for these is
proved for any number. With two objects a Save meets new, stored, linked, unlinked,
one-sided and deleted neighbours, and three edits are enough for link, save,
unlink, save. Two labels let `createNodes` fail between them. The walks differ
only when there is a detour and a short way to the same object and one more
object behind it: four objects, and a depth below the longest path. `MaxEdits`
and `MaxAttempts` are bounds of the models. Two replicas are enough for a rule
to be dropped by one between the list and the create of the other, two databases
for a failure after the first. Two relationships are enough for a path that
comes back to its label, a pointer that two of them lead to, a page that holds
one of them, and the wrong label of `expand` at depth 2; a fourth node, of an
unmapped label, for the failure that it causes. The stream breaks before the
second row at the latest and the driver retries once (`CutShort`, `again`): a
second retry starts from the same state. The schemas hold one of every kind that
`getConfig`, `Validate` and `gogmcli` treat differently. Transactions and tokens
are interchangeable in `MCGogmSession` and objects in `MCSaveTraversal`: no
action or property tells them apart. Deadlock is not checked: a closed session,
a caller out of edits and a finished walk really stop.

Fairness. `GogmStart` assumes it of what waits for nothing but the scheduler or the
clock: both goroutines of a process take the steps they can take, and a deadline
passes. It assumes nothing of the server, which may never answer, and nothing of a
context that can only be cancelled. `SendEnds` and `DriverWaitEnds` hold under that.
`DriverWaitEnds` is about the wait for the driver and not about all of New, which
index management can hold up past its deadline; `NewReturns` states its own premise,
that every call is answered. The other
modules state no fairness and no liveness: their code waits for nothing but the
driver, and the driver's retries end by a time limit outside it.

## What the violated properties say

* `SavedIsStored`: `createNodes` writes `o.Id` before the commit. If that attempt
  fails, the retry takes the object for stored, updates no node and returns nil.
* `RetriedSaveRemoves`: saving an object that was unlinked replaces its LoadMap, then
  fails at the statement that deletes. The driver's retry compares the new LoadMap with
  the fields, finds nothing to delete and returns nil; the relationship stays, and no
  later Save of that object removes it. `SaveRemoves` is what remains true: it excepts the objects whose
  LoadMap an attempt that failed has replaced.
* `StaysClosable`: a failed Commit, Rollback or tx.Close leaves a finished
  transaction in `s.tx`; Close then only returns the rollback's error and leaves
  the driver session open.
* `LoadMapIsLoaded`: an object at the last level of a Save gets a LoadMap naming
  relationships that the Save does not store.
* `UnlinkSaves`: link, save, unlink both ends, save one end: the relationship is
  gone. Save the other end: it expects to delete it again and fails.
* `WalkCovers`: with a path `d -> c -> b -> a` and an edge `d -> b`, a Save of `d`
  at depth 2 fails if the walk goes by `c` first, and succeeds otherwise. In the
  instance both are in one slice field, so its order decides; with several fields it
  is the order of a Go map.
* `ReturnsMatches`: `LoadAllDepthFilter` by paths puts the filter on the first node
  of a path; `decode` returns every node of the label on it, so neighbours come too.

## What the models show besides

* In a transaction of the session a load whose rows broke off returns nil with
  objects missing: `decode` does not ask `result.Err()`. `MatchesReturned` excepts
  this case. Outside of one only the driver's refusal to commit reports it, and
  when no row came the caller reads `ErrNotFound` first.
* A pointer field that several relationships lead to holds one of them while its
  LoadMap lists all: loading and saving deletes the others. `LoadMapIsHeld` excepts it.
* `LoadAll` by paths asks for no label, and fails when a node within the depth has
  one that is not mapped; loading by the id of a node of another type returns a
  neighbour of the right type if there is one.
* `Validate` counts directions per relationship name, whatever types they join:
  it accepts schemas whose relationships are saved and cannot be loaded
  (`GeneratedSchemasLoad` needs `Distinct` and `Generates`).
* `expand` follows the fields of the label it came from. `StrategiesAgree` therefore
  holds for a single type only.
* `gogmcli` skips a field without a direction, though the default is outgoing.
* Index management of protocol version 3 commits inside a managed transaction:
  every creation fails, and so does every drop from a database with a constraint,
  by that Commit or by the empty list of indexes. From version 4 on, a database with
  indexes but no constraint keeps its old indexes; one with constraints and no index
  but theirs makes ASSERT_INDEX fail, since the list of indexes is then empty and
  `resultToStringArrV4` takes that for an error (a program without index fields
  asserts once and never again); an index on a unique field makes start-up fail too.
* `src/config.go:78` says that ASSERT_INDEX "deletes existing indexes/constraints for
  the given nodes". The code deletes those of every label (`DropTransaction`).
  `AssertReplaces` asks only for what the comment promises, of the mapped labels.
* VALIDATE_INDEX "validates whether the indexes/constraints exist" (`src/config.go:77`).
  The code fails on a database without any constraint, whose empty list is an error;
  where there is one, it never looks at which rules there are.
* A New that times out returns while its goroutine goes on; the driver is then
  never closed. A context that is only cancelled is not looked at while waiting, and
  in index management neither is a deadline: `QueryRaw` does not use its context, and
  New hangs as long as the server does.
* In an explicit transaction a Save can return nil though the transaction is already
  over, because the stream of its last statement broke off; only the Commit fails.

## Proofs

Every invariant and every action property of the passing runs is proved, for all
values of the constants that meet the assumptions below (`WalkCovers` under the one
condition named there). Liveness is left to TLC.

`GogmSession_proofs` proves `Spec => []IInv` for any sets of sessions,
transactions and tokens and any bounds, and from it `TypeOK`, `NoOrphan` and
`HandleIsCurrent`. `NoOrphan` is not inductive: that no step loses a live
transaction rests on what `s.tx` and the newest attempt may be at each point of
a call, which `InFlight`, `Handle` and `Kept` say. The proof shows once
(`OwnStep`) that a step of one session leaves what the invariant says of the
others alone, and then goes through the actions. It then adds `Promises`, what is
known of a transaction while nobody was told of it: an attempt of a call in
flight is unannounced, an explicit transaction was at most reported as failed, a
write's attempt returns nil only when its last statement ran. With `IInv` it is
inductive, and `AckedIsApplied` is part of it. `AutoIsAtomic` needs `WritesAreWhole`
too: nobody but its write writes into the transaction of a write (`OwnWrite`), and it
comes to its Commit open only when all statements ran; `Whole` then holds in the very
step that commits and, as nothing writes into a transaction that is over, ever after. Last comes
`Spec => AcidSpec`. Each driver call maps to one abstract step: `Started`,
`Performed`, `Ended` (a commit or rollback decides an open transaction, and of one
that is over only tells the caller) and `Announced` (the error that a call gives
up with concerns all its attempts, none of which is still open, by `LiveOnes`).
All else is hidden. `AcidTransactions_proofs` shows that the abstract transactions
are `Honest`, and the sessions inherit it.

`Recursion` makes recursive functions provable. The library's induction theorems take
an operator, which the provers here cannot instantiate, so its lemmas take sets
and functions instead: `Induction` the set of numbers a property is true of,
`FixedPoint` a function `F` from functions to functions, the right-hand side of a
recursive definition, with a rank that falls at each call (`Recursive`). A recursive
definition is a choice of a solution, and `FixedPoint` shows that there is one;
`Levels` and `LevelsOfNat` are its special case of a definition by depth.

`SaveWork_proofs` unfolds the two walks of a Save with it. `ParsedIs` gives the
objects of `parseStruct` level by level. `WalkInduction` is the induction over
`generateCurRels`, by the levels left and the objects not seen: it visits nothing
beyond the depth (`VisitsWithin`), goes on from whatever it visits above the last
level (`VisitsGoOn`), and reaches everything when no path without repetition is
longer than the depth (`VisitsCover`). `SaveTraversal_proofs` draws
`WalkStaysWithin`, for any graph and depth, and `WalkCovers` under the condition
that the depth is at most 1 or lets a path pass through all objects. The run
`walks_disagree` shows that the condition is needed; `SmallGraphsAreCovered` asks it
of the objects within reach only.

`ObjectStore_proofs` proves `StoreInv`: the types, that a Save in the driver's
hands is outside of an explicit transaction, `IdMeansStored`, that an id belongs to
its object, that every node in either graph is the one its object still holds the
id of, and that relationships join nodes of the graph. From it follow `TypeOK`,
`IdMeansStored` and `OneNodePerObject`, for object graphs of any shape and any
depth. The lemma `Outcomes` reduces a whole Save to what matters of it there (new
objects get a fresh id; nodes are added, never taken away). The other three
properties need more of it: `Endings` tells the four ways a Save can end (`Half`
created or with a broken stream, `Early` and `Late` failures, `Whole`), by the shapes
that `Shapes` and `ShapesAfterCreate` give its outcomes. `SaveFrame` is true of each.
`SaveMirrors` is about `Whole`, whose LoadMaps are those of the objects that
`generateCurRels` visited, so that `VisitsTargets` is needed; it outlasts the commit as
long as the objects and the graph are left alone. `SaveRemoves` is about a
whole call, from the LoadMaps it began with: where a failed attempt has not replaced
them, `Whole` calculates its deletions from just these. It needs that ids are told apart and that a node still to be created has no relationships, which is why
`StoreInv` says so.

`GogmStart_proofs` proves `StartInv` for any number of processes, databases,
rules and configurations. `StartedIsSettled` needs that an answer is in the
channel only when its goroutine has ended, and that "ok" was sent with both
fields set. `AssertSets` is about all processes at once: a process may well find
its rules dropped by another, and what is inductive is that whoever takes the
rules of a database away has yet to create them there (`SetsInv`), so that they
are there when nobody is left. `AssertReplaces` rests on `ReplacesInv`: as long
as an old rule is in a database that held a constraint, a constraint is, so no
process that is yet to list takes the early return; the types' own rules are all of
mapped labels (`RulesAreMapped`).

`Loading_proofs` proves `HeldInv`: at each step of `decode` the noted ids of a node
are what its field holds, but for a pointer field that several relationships led
to, in which it is one of them. The objects are made afresh by every run, which is
what a retry rests on. `LoadMapIsHeld` follows for any schema, database, strategy,
page and cut of the rows: whatever the rows are, the ids and the fields come from
the same ones.

It then proves `ReadInv`, for what the rows are: those that the call asks for, all
of them when the stream did not break and there is no page, each beginning with a
node that was asked for. `TypeOK` and `MatchesReturned` follow. `PathsAre` and
`ExpansionIs` unfold the two strategies by their depth. For `SchemaWithinPath`,
`ExpansionWithin` finds a path, no longer than the way, to every relationship that
the schema strategy comes to: the way may take a relationship twice and a path may
not, but then the path already held both its ends (`OneFurther`). For
`StrategiesAgree`, `PathsWithin` goes along a path, over fields that face each other
(`FollowedFromBoth`).

`GeneratedSchemasLoad` and `LoadedWhereSaved` rest on `ConfigIsOwn`: in a schema whose
fields `getConfig` can tell apart it finds a field by its own direction, though it
asks for none when there is only one. `SavedConfigs` applies it at both ends of a
relationship. `LoadedInv` says that what is related so far is in both fields, and that
nothing is taken out again.

Assumptions: those on the constants, which TLC evaluates in the runs, and that every
call either returns or fails as `Neo4jDriver` and `Neo4jGraph` say. Most only type the
constants. Those that say more:

* `ObjectsAreFinite`, `NodesAreFinite`: a caller has finitely many objects, a database
  finitely many nodes.
* `FieldsAreNamed`: no two fields of a Go struct have the same name.
* `OneIsByKey`: a load of one object is by its id or primary key, which at most one
  node has. Nothing in GoGM checks that a key is unique; uniqueness is the database's
  constraint.
* `SchemasAreMapped`: the fields of a schema join mapped types. The code does not check
  this: `Validate` (`util.go:280`) and `parseOgmTypes` (`gogm.go:157`) accept a type
  with both an outgoing and an incoming field to one that is not mapped, and the
  schema strategy then fails at `load_strategy.go:280`.
* `ForeignRules`: nobody has put a constraint on the fields of a composite index.

Of Neo4j it is assumed besides that dropping the index of a constraint is refused,
that a constraint on the fields of an index is refused, and that rules are named by
what they are. Of the driver, that a Commit within a managed transaction is refused,
and that it does not commit a transaction in which a stream broke off.

Only model-checked: `SendEnds`, `DriverWaitEnds` and `NewReturns`, which are liveness
under fairness and out of the prover's reach.

## Not modelled

Timeouts of transactions, properties of nodes and edges and the tags that
configure them, duplicates within a slice, objects sharing an id, self
references of a Save, two goroutines sharing objects (a data race on the
caller's side that nothing in the code guards against), the UUID key strategy
(an object that GoGM saved has both a UUID and an Id, so `handleNodeState`
treats it as under the default strategy), DeleteUUID, `Gogm.Copy`,
`EdgeConstraint` queries, ORDER BY and the text of queries, special edges other
than as a reference to their far end, logging, Go parsing and templates of
`gogmcli`, mocks and examples.

## Plan

1. Loading as an action of `ObjectStore`, so that load, edit and save interleave.
2. The UUID strategy: `handleNodeState`, DeleteUUID, link functions by UUID.
3. Two sessions sharing objects.
4. Proofs: what the violated properties leave true, such as the conditions under
   which `UnlinkSaves` and `SavedIsStored` hold.
