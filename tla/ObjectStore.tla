------------------------------ MODULE ObjectStore ------------------------------
(***************************************************************************)
(* One session at work on a caller's objects: the objects in memory (their *)
(* references, Id and LoadMap) beside the graph in the database, through   *)
(* edits, Save and Delete, inside and outside of transactions, and the     *)
(* failures and retries in between.  Rolling back restores the database    *)
(* and never the objects.                                                  *)
(***************************************************************************)
EXTENDS SaveWork

CONSTANTS Opposite,    \* the field linked on the other side, as link functions are generated
          OneSided,    \* callers also set fields without the link functions
          Depths,      \* depths Save is called with
          MaxEdits,    \* bound: edits of references by the caller
          MaxAttempts  \* bound: attempts of the driver per call

ASSUME OppositeIsField == Opposite \in [Field -> Field]
ASSUME OneSidedIsBool == OneSided \in BOOLEAN
ASSUME BoundsAreNat == /\ Depths \subseteq Nat
                       /\ MaxEdits \in Nat /\ MaxAttempts \in Nat \ {0}

VARIABLES mem,    \* the caller's objects, as in SaveWork
          made,   \* nodes the database ever created per object
          db,     \* the committed graph
          tx,     \* the explicit transaction: state and the graph it sees
          task,   \* the Save in the driver's retry loop, and the LoadMaps it began with, or Nil
          last,   \* the last call that returned: op, root, depth, what it returned
          clean,  \* no call failed, rolled back or deleted so far
          edits   \* number of edits so far

vars == <<mem, made, db, tx, task, last, clean, edits>>

Id    == Obj \X Nat
NoTx  == [state |-> "none", graph |-> EmptyGraph]
View  == IF tx.state = "none" THEN db ELSE tx.graph

Call(op, r, d, ret) == [op |-> op, root |-> r, depth |-> d, ret |-> ret]

Init == /\ mem = [ref  |-> [o \in Obj |-> [f \in Field |-> {}]],
                  id   |-> [o \in Obj |-> Nil],
                  load |-> [o \in Obj |-> [f \in Field |-> {}]]]
        /\ made = [o \in Obj |-> 0]
        /\ db = EmptyGraph
        /\ tx = NoTx
        /\ task = Nil
        /\ last = Call("none", Nil, 0, "nil")
        /\ clean = TRUE
        /\ edits = 0

Objects == [ref  : [Obj -> [Field -> SUBSET Obj]],
            id   : [Obj -> Id \cup {Nil}],
            load : [Obj -> [Field -> SUBSET Id]]]
Graph   == [nodes : SUBSET Id, rels : SUBSET (Type \X Id \X Id)]

TypeOK == /\ mem \in Objects
          /\ made \in [Obj -> Nat]
          /\ db \in Graph
          /\ tx \in [state : {"none", "open", "failed"}, graph : Graph]
          /\ task = Nil \/ task \in [root : Obj, depth : Depths, left : 0..MaxAttempts,
                                    began : [Obj -> [Field -> SUBSET Id]]]
          /\ clean \in BOOLEAN /\ edits \in Nat

-------------------------------------------------------------------------------
\* The caller's own code, and the generated functions that link or unlink both ends
\* (which find the object to take off by its UUID, here by identity).

Edit(ref) == /\ task = Nil
             /\ edits < MaxEdits
             /\ ref # mem.ref
             /\ mem' = [mem EXCEPT !.ref = ref]
             /\ edits' = edits + 1
             /\ last' = Call("edit", Nil, 0, "nil")
             /\ UNCHANGED <<made, db, tx, task, clean>>

SetOneSide(o, f, S) == OneSided /\ Edit([mem.ref EXCEPT ![o][f] = S])

Link(o, f, p)   == Edit([mem.ref EXCEPT ![o][f] = @ \cup {p}, ![p][Opposite[f]] = @ \cup {o}])
Unlink(o, f, p) == Edit([mem.ref EXCEPT ![o][f] = @ \ {p},    ![p][Opposite[f]] = @ \ {o}])

-------------------------------------------------------------------------------
\* A Save outside a transaction, or as the work of a ManagedTransaction: attempts
\* until one commits or the driver gives up.

StartSave(r, d) == /\ task = Nil /\ tx.state = "none"
                   /\ task' = [root |-> r, depth |-> d, left |-> MaxAttempts, began |-> mem.load]
                   /\ last' = Call("begin", Nil, 0, "nil")
                   /\ UNCHANGED <<mem, made, db, tx, clean, edits>>

\* Memory keeps what the work did to it; the graph only when the commit succeeds,
\* and maybe when its answer was lost; it fails when a statement did, unnoticed.  The
\* driver retries its own errors, never saveDepth's nor a lost commit.
Attempt == /\ task # Nil /\ task.left > 0
           /\ \E out \in SaveOutcomes(mem, made, db, task.root, task.depth) :
                 /\ mem' = out.mem
                 /\ made' = out.made
                 /\ \/ /\ out.ret = "nil"
                       /\ db' = out.graph
                       /\ task' = Nil
                       /\ last' = Call("save", task.root, task.depth, "nil")
                       /\ UNCHANGED clean
                    \/ /\ db' \in {db} \cup (IF out.ret = "nil" THEN {out.graph} ELSE {})
                       /\ task' = [task EXCEPT !.left = IF out.ret = "error" \/ db' # db THEN 0 ELSE @ - 1]
                       /\ last' = Call("attempt", task.root, task.depth,
                                       IF out.ret = "error" THEN "error" ELSE "failed")
                       /\ clean' = FALSE
           /\ UNCHANGED <<tx, edits>>

GiveUp == /\ task # Nil /\ task.left < MaxAttempts
          /\ task' = Nil
          /\ last' = Call("save", task.root, task.depth, "error")
          /\ UNCHANGED <<mem, made, db, tx, clean, edits>>

-------------------------------------------------------------------------------
\* Explicit transactions.

Begin == /\ task = Nil /\ tx.state = "none"
         /\ tx' = [state |-> "open", graph |-> db]
         /\ last' = Call("begin", Nil, 0, "nil")
         /\ UNCHANGED <<mem, made, db, task, clean, edits>>

\* An error of saveDepth itself leaves the transaction open, with what its
\* statements did so far; a failed statement ends it, noticed or not.
SaveInTx(r, d) ==
    /\ task = Nil /\ tx.state = "open"
    /\ \E out \in SaveOutcomes(mem, made, tx.graph, r, d) :
          /\ mem' = out.mem
          /\ made' = out.made
          /\ tx' = [state |-> IF out.ret \in {"failed", "lost"} THEN "failed" ELSE "open",
                    graph |-> out.graph]
          /\ last' = Call("save", r, d, IF out.ret = "lost" THEN "nil" ELSE out.ret)
          /\ clean' = (clean /\ out.ret = "nil")
    /\ UNCHANGED <<db, task, edits>>

\* Faulty: the transaction is closed without tx.Commit.
CommitOnlyCloses == /\ task = Nil /\ tx.state # "none"
                    /\ tx' = NoTx
                    /\ last' = Call("commit", Nil, 0, "nil")
                    /\ UNCHANGED <<mem, made, db, task, clean, edits>>

\* A failed Commit may have been applied; the caller goes on with another session
\* (GogmSession shows why it must).
Commit == /\ task = Nil /\ tx.state # "none"
          /\ \/ /\ tx.state = "open"
                /\ db' = tx.graph
                /\ last' = Call("commit", Nil, 0, "nil")
                /\ UNCHANGED clean
             \/ /\ db' \in {db} \cup (IF tx.state = "open" THEN {tx.graph} ELSE {})
                /\ last' = Call("commit", Nil, 0, "error")
                /\ clean' = FALSE
          /\ tx' = NoTx
          /\ UNCHANGED <<mem, made, task, edits>>

Rollback == /\ task = Nil /\ tx.state # "none"
            /\ tx' = NoTx
            /\ clean' = FALSE
            /\ last' = Call("rollback", Nil, 0, "nil")
            /\ UNCHANGED <<mem, made, db, task, edits>>

-------------------------------------------------------------------------------
\* Delete of one object: by its Id, which it keeps, as it keeps its LoadMap.
\* (A nil Id is a nil dereference in deleteNode: callers delete saved objects.)
Delete(o) ==
    /\ task = Nil /\ tx.state # "failed"
    /\ mem.id[o] # Nil
    /\ \/ /\ tx.state = "open"
          /\ tx' = [tx EXCEPT !.graph = DetachDelete(@, mem.id[o])]
          /\ UNCHANGED db
       \/ /\ tx.state = "open"   \* the statement failed
          /\ tx' = [tx EXCEPT !.state = "failed"]
          /\ UNCHANGED db
       \/ /\ tx.state = "none"
          /\ db' = DetachDelete(db, mem.id[o])
          /\ UNCHANGED tx
    /\ clean' = FALSE
    /\ last' = Call("delete", o, 0, "nil")
    /\ UNCHANGED <<mem, made, task, edits>>

Next == \/ \E o \in Obj, f \in Field :
              \/ \E S \in SUBSET (Obj \ {o}) : SetOneSide(o, f, S)
              \/ \E p \in Obj \ {o} : Link(o, f, p) \/ Unlink(o, f, p)
        \/ \E r \in Obj, d \in Depths : StartSave(r, d) \/ SaveInTx(r, d)
        \/ Attempt \/ GiveUp \/ Begin \/ Commit \/ Rollback
        \/ \E o \in Obj : Delete(o)

Spec == Init /\ [][Next]_vars

-------------------------------------------------------------------------------
(***************************************************************************)
(* Properties                                                              *)
(***************************************************************************)

\* The object's node is in the graph the session sees.
Stored(o) == mem.id[o] \in View.nodes

\* The objects whose edges a Save of depth d handles: all but the last level.
Inner(m, r, d) == IF d = 0 THEN {} ELSE Parsed(m, r, d - 1)

\* A Save returned nil, and its transaction is committed or can be.
JustSaved == last.op = "save" /\ last.ret = "nil" /\ tx.state # "failed"

\* After such a Save, when its objects' nodes exist, every relationship of the
\* objects above the last level is in the graph, and their LoadMaps name exactly
\* those: the three passes over the object graph (parseStruct, generateCurRels,
\* relateNodes) agree although they walk it differently.
SaveMirrors ==
    JustSaved /\ (\A o \in Parsed(mem, last.root, last.depth) : Stored(o)) =>
      \A o \in Inner(mem, last.root, last.depth), f \in Field :
        /\ mem.load[o][f] = {mem.id[p] : p \in mem.ref[o][f]}
        /\ \A p \in mem.ref[o][f] :
              <<RelOf(o, f, p)[1], mem.id[RelOf(o, f, p)[2]], mem.id[RelOf(o, f, p)[3]]>> \in View.rels

\* A step of a Save: of the attempt that runs, or inside the explicit transaction.
SaveStep == last'.op \in {"save", "attempt"} /\ mem'.ref = mem.ref
            /\ (task # Nil \/ tx.state = "open")

\* The LoadMaps at the start of the call, which all its attempts belong to.
Began == IF task = Nil THEN mem.load ELSE task.began

\* The relationships between o and what its LoadMap named at the start of the call,
\* but neither of the two points to any more, are gone.
RemovesUnlinked(o) ==
    \A f \in Field, p \in Obj :
       LET related == \E e \in Relations(mem, last'.root, last'.depth) : {e[2], e[3]} = {o, p}
       IN  mem.id[p] \in Began[o][f] /\ p \notin mem.ref[o][f] /\ ~ related
           => Between(View', {<<mem.id[o], mem.id[p]>>}) = {}

SaveReturnsNil == SaveStep /\ last'.ret = "nil" /\ tx'.state # "failed"

\* A Save that returns nil leaves no relationship behind that its objects were loaded
\* with and have let go, but for objects whose LoadMap an attempt before, one that
\* failed, has replaced.
SaveRemoves ==
    [][SaveReturnsNil => \A o \in Parsed(mem, last'.root, last'.depth) :
                            mem.load[o] = Began[o] => RemovesUnlinked(o)]_vars

\* "either way delete anything left over" (save.go), also when the driver retried.
RetriedSaveRemoves ==
    [][SaveReturnsNil => \A o \in Parsed(mem, last'.root, last'.depth) : RemovesUnlinked(o)]_vars

\* A Save changes nothing beyond its depth: no Id or LoadMap of an object it did
\* not parse, no node but those it creates, no relationship but those it relates
\* and those between a parsed object and an id in its LoadMap.
StaysWithinDepth ==
    LET N == Parsed(mem, last'.root, last'.depth)
        Saved == {mem'.id[o] : o \in N}
        Known == {<<mem.id[o], i>> : o \in N, i \in UNION {mem.load[p][f] : p \in N, f \in Field}}
        Loaded == {k \in Known : \E o \in N, f \in Field : k[1] = mem.id[o] /\ k[2] \in mem.load[o][f]}
    IN  /\ \A o \in Obj \ N : mem'.id[o] = mem.id[o] /\ mem'.load[o] = mem.load[o]
        /\ View.nodes \subseteq View'.nodes /\ View'.nodes \ View.nodes \subseteq Saved
        /\ View.rels \ View'.rels \subseteq Between(View, Loaded)
        /\ View'.rels \ View.rels \subseteq RelRows(mem', Relations(mem, last'.root, last'.depth))
SaveFrame == [][SaveStep => StaysWithinDepth]_vars

\* As long as nothing failed, was rolled back or deleted, an object that has an Id
\* has a node: callers may rely on Id to tell saved objects from new ones.
IdMeansStored == clean => \A o \in Obj : mem.id[o] # Nil => Stored(o)

\* However often an object is saved, retried and rolled back, at most one node is
\* ever stored for it.
OneNodePerObject ==
    \A g \in {db, tx.graph} : \A i, j \in g.nodes : i[1] = j[1] => i = j

\* ManagedTransaction "runs tx work managed for retry" (interfacev2.go): a call
\* that returned nil has stored its object, after however many attempts.
SavedIsStored == JustSaved => Stored(last.root)

\* LoadMap "represents the state of how a node was loaded" (model.go): between
\* calls of a caller that never saw a failure it names relationships that exist.
LoadMapIsLoaded ==
    clean /\ task = Nil => \A o \in Obj, f \in Field : \A i \in mem.load[o][f] :
       Between(View, {<<mem.id[o], i>>}) # {}

\* Unlinking both ends of a relationship and saving returns nil (testSave in
\* integration_test.go): while nothing failed and all that was taken off a field is
\* unlinked on both sides, saveDepth has no error of its own.
Unlinked(o, p) == \A f \in Field : p \notin mem.ref[o][f] /\ o \notin mem.ref[p][f]
UnlinkSaves ==
    [][/\ clean /\ SaveStep
       /\ \A o, p \in Obj, f \in Field :
             mem.id[p] \in mem.load[o][f] /\ p \notin mem.ref[o][f] => Unlinked(o, p)
       => last'.ret # "error"]_vars

-------------------------------------------------------------------------------
(* The inductive invariant.  Neither IdMeansStored nor OneNodePerObject is      *)
(* inductive: a Save in flight must be outside of a transaction, and a node in  *)
(* either graph must be the one its object still holds the id of.  What a Save  *)
(* leaves alone or removes also needs that ids are told apart, and that no      *)
(* relationship waits for a node that is still to be created.                   *)

Apart == task # Nil => tx.state = "none"

Owned(g) == \A i \in g.nodes : mem.id[i[1]] = i

IdsAreOwn == \A o \in Obj : mem.id[o] # Nil => mem.id[o][1] = o

Joined(g) == \A e \in g.rels : e[2] \in g.nodes /\ e[3] \in g.nodes

StoreInv == /\ TypeOK /\ Apart /\ IdsAreOwn
            /\ Owned(db) /\ Owned(tx.graph)
            /\ Joined(db) /\ Joined(tx.graph)
            /\ IdMeansStored
===============================================================================
