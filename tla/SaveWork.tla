------------------------------- MODULE SaveWork -------------------------------
(***************************************************************************)
(* The work function saveDepth of save.go as the set of its outcomes.  The *)
(* caller's objects are a record m: m.ref[o][f] the objects that relation- *)
(* ship field f of o points to, m.id[o] the graph id in o.Id, m.load[o][f] *)
(* the ids of o.LoadMap[f].  An id is <<o, n>>, the n-th node the database *)
(* created for object o, so ids are fresh; made counts them.  Properties   *)
(* of nodes and edges are left out.  Assumed: two objects of a saved graph *)
(* do not share an id, and no slice holds an object twice.                 *)
(***************************************************************************)
EXTENDS Neo4jGraph, Integers, FiniteSets

CONSTANTS Obj,       \* the Go structs (pointers to them)
          Field,     \* relationship fields
          Type,      \* relationship types
          TypeOf,    \* the type of each field's relationship
          Outgoing,  \* the fields declared direction=outgoing
          Label,     \* node labels
          LabelOf,   \* the label of each object
          Nil        \* Go's nil

ASSUME SchemaIsTyped == /\ TypeOf \in [Field -> Type]
                        /\ Outgoing \subseteq Field
                        /\ LabelOf \in [Obj -> Label]
ASSUME NilIsNoId == Nil \notin Obj \X Nat
ASSUME ObjectsAreFinite == IsFiniteSet(Obj)

\* processStruct: the relationship a field stands for, parent and current in its order.
RelOf(o, f, p) == IF f \in Outgoing THEN <<TypeOf[f], o, p>> ELSE <<TypeOf[f], p, o>>

Targets(m, o) == UNION {m.ref[o][f] : f \in Field}

\* Level by level, the objects parseStruct is called with: all within depth d of r.
Within(m, r, d) ==
    LET At[k \in 0..d] == IF k = 0 THEN {r}
                          ELSE At[k - 1] \cup UNION {Targets(m, o) : o \in At[k - 1]}
    IN  At

Parsed(m, r, d) == Within(m, r, d)[d] \cap Obj

\* Faulty: the edges of the last level but one are not registered either.
RelationsShort(m, r, d) ==
    IF d < 2 THEN {}
    ELSE UNION {{RelOf(o, f, p) : p \in m.ref[o][f]} : o \in Parsed(m, r, d - 2), f \in Field}

\* The relationships it registers: an edge is registered by the call for its far
\* end, so those of objects at the last level are not.
Relations(m, r, d) ==
    IF d = 0 THEN {}
    ELSE UNION {{RelOf(o, f, p) : p \in m.ref[o][f]} : o \in Parsed(m, r, d - 1), f \in Field}

\* generateCurRels is a depth-first walk that never returns to a node and is cut
\* off below depth d: the sets of objects it may end up with, over every order of
\* the fields (a Go map) and slices.  (The code finishes a field before it goes on
\* to the next; any order of all targets includes those.)  Walk(m, d)[<<k, S, V>>]:
\* the targets S of one object are still to do, with k levels left, after V was
\* visited.
Follow(m, o) == {p \in Targets(m, o) : m.id[p] # Nil}
Walk(m, d) ==
    LET W[x \in (0..d) \X (SUBSET Obj) \X (SUBSET Obj)] ==
          LET k == x[1]   S == x[2]   V == x[3]
          IN  IF k = 0 \/ S \subseteq V THEN {V}
              ELSE UNION {UNION {W[<<k, S \ {p}, U>>] : U \in W[<<k - 1, Follow(m, p), V \cup {p}>>]}
                          : p \in S \ V}
    IN  W

\* Faulty: the walk is cut off one level early, or one level late.
VisitsShort(m, r, d) == Walk(m, d)[<<IF d = 0 THEN 0 ELSE d - 1, Follow(m, r), {r}>>]
VisitsDeep(m, r, d)  == Walk(m, d + 1)[<<d + 1, Follow(m, r), {r}>>]

Visits(m, r, d) == Walk(m, d)[<<d, Follow(m, r), {r}>>]

\* Faulty: the id of an object that has none is not skipped.
CurRelsNoSkip(m, o) == [f \in Field |-> {m.id[p] : p \in m.ref[o][f]}]

\* curRels of one object: the ids in its fields, whether or not they are saved with it.
CurRels(m, o) == [f \in Field |-> {m.id[p] : p \in m.ref[o][f]} \ {Nil}]

LoadedIds(m, N) == UNION {m.load[o][f] : o \in N, f \in Field}

\* Faulty: a field that has become empty is passed over.
DelsOfKept(m, N) == {x \in N \X Field \X LoadedIds(m, N) :
                        /\ x[3] \in m.load[x[1]][x[2]] \ CurRels(m, x[1])[x[2]]
                        /\ CurRels(m, x[1])[x[2]] # {}}

\* Faulty: old and current ids are swapped.
DelsSwapped(m, N) == {x \in N \X Field \X {m.id[p] : p \in Obj} :
                         x[3] \in CurRels(m, x[1])[x[2]] \ m.load[x[1]][x[2]]}

\* calculateDels: object, field and each id the field was loaded with and no longer has.
Dels(m, N) == {x \in N \X Field \X LoadedIds(m, N) :
                  x[3] \in m.load[x[1]][x[2]] \ CurRels(m, x[1])[x[2]]}

\* Faulty: an object without a LoadMap is taken for new.
NewByLoadMap(m, N) == {o \in N : \A f \in Field : m.load[o][f] = {}}

\* handleNodeState: an object is new when it has no Id.
New(m, N) == {o \in N : m.id[o] = Nil}

\* createNodes: ids for the new objects of News, kept in o.Id.
WithIds(m, made, News) ==
    [m EXCEPT !.id = [o \in Obj |-> IF o \in News THEN <<o, made[o] + 1>> ELSE m.id[o]]]

WithLoadMaps(m, N) ==
    [m EXCEPT !.load = [o \in Obj |-> IF o \in N THEN CurRels(m, o) ELSE m.load[o]]]

\* The statement that removes relationships counts what it deleted: one row per
\* object and id expected, whatever was found between the two deleted.
Removed(m, g, dels) == Between(g, {<<m.id[x[1]], x[3]>> : x \in dels})

\* relateNodes, by the ids createNodes looked up.
RelRows(m, rels) == {<<e[1], m.id[e[2]], m.id[e[3]]>> : e \in rels}

Outcome(m, made, g, ret) == [mem |-> m, made |-> made, graph |-> g, ret |-> ret]

\* How saveDepth ends: "nil"; "error", its own error in a transaction that is alive;
\* "failed", an error in one that a statement's failure has ended; "lost", nil in such
\* a one, as only an error of Run is noticed at once, and no later statement is run.

\* The loop over LoadMaps stops at an object that generateCurRels did not come to: some
\* of the others, in the order of a Go map, have theirs replaced.
Unmapped(m, made, g, N, V, ret) ==
    {Outcome(WithLoadMaps(m, S), made, g, ret) : S \in SUBSET (N \cap V)}

\* After createNodes, with V visited by generateCurRels.
AfterCreate(m, made, g, N, V, rels) ==
    IF ~ N \subseteq V
    THEN Unmapped(m, made, g, N, V, "error")
    ELSE LET dels == Dels(m, N)
             m2   == WithLoadMaps(m, N)
             gone == Removed(m, g, dels)
             g2   == DeleteRels(g, gone)
         IN  {Outcome(m2, made, g, "failed") : x \in dels \cup rels}
             \cup {Outcome(m2, made, g, "lost") : x \in rels}
             \cup IF Cardinality(dels) # Cardinality(gone)
                  THEN {Outcome(m2, made, g2, "error")}
                  ELSE {Outcome(m2, made, MergeRels(g2, RelRows(m2, rels)), "nil")}

\* After a createNodes that returned nil though its last stream of results broke off:
\* the same with a failed transaction, until the next statement is run.
AfterBroken(m, made, g, N, V, rels) ==
    IF ~ N \subseteq V
    THEN Unmapped(m, made, g, N, V, "failed")
    ELSE {Outcome(WithLoadMaps(m, N), made, g,
                  IF Dels(m, N) \cup rels = {} THEN "lost" ELSE "failed")}

\* createNodes goes label by label and sets an Id as it reads it from the result; the
\* objects of News that have theirs when a stream breaks off, or a statement fails.
HalfCreated(News) ==
    {S \in SUBSET News : \E l \in Label : \A o \in News \ S, p \in S :
                            LabelOf[o] = LabelOf[p] => LabelOf[o] = l}

\* Those they may be when that stream is the last: all, or all but some of a label
\* without objects to update.
LastBroken(N, News) ==
    {News} \cup {S \in SUBSET News : \E l \in Label :
                    /\ \A o \in News \ S : LabelOf[o] = l
                    /\ \A o \in N \ News : LabelOf[o] # l}

\* generateCurRels returns an error at a root without Id, and has visited nothing.
Visited(m, r, d) == IF m.id[r] = Nil THEN {{}} ELSE Visits(m, r, d)

\* saveDepth(obj = r, depth = d) on graph g.
SaveOutcomes(m, made, g, r, d) ==
    LET N     == Parsed(m, r, d)
        News  == New(m, N)
        rels  == Relations(m, r, d)
        Count(S) == [o \in Obj |-> IF o \in S THEN made[o] + 1 ELSE made[o]]
        With(S)  == WithIds(m, made, S)
        g1    == CreateNodes(g, {With(News).id[o] : o \in News})
    IN  {Outcome(With(S), Count(S), g, "failed") : S \in HalfCreated(News)}
        \cup (UNION {UNION {AfterBroken(With(S), Count(S), g, N, V, rels) : V \in Visited(With(S), r, d)}
                     : S \in LastBroken(N, News)})
        \cup UNION {AfterCreate(With(News), Count(News), g1, N, V, rels)
                    : V \in Visits(With(News), r, d)}
=============================================================================
