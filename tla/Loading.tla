-------------------------------- MODULE Loading --------------------------------
(***************************************************************************)
(* Load, LoadAll and Query: the rows that the path and the schema strategy *)
(* ask for (load_strategy.go), pagination, and decode (decoder.go), which  *)
(* turns rows into objects, relates them, and sets the LoadMaps that the   *)
(* next Save deletes by.  The driver may run a read transaction again.     *)
(* Assumed of the driver: it does not commit a transaction in which a      *)
(* stream of rows broke off.                                               *)
(* A node has one label, which is the name of its type.  A relationship is *)
(* <<type, start, end>>: Save merges, so there is one per type and pair.   *)
(* A row is [way, steps, nodes, rels]: its nodes and its relationships in  *)
(* their order as far as it is fixed, and all of them.  Not modelled:      *)
(* properties, the text of a query, ORDER BY (rows come in any order).     *)
(***************************************************************************)
EXTENDS Schema

CONSTANTS Node, LabelOf,  \* the nodes in the database, the label of each
          Mapped,         \* the labels of the mapped types
          Schemas,        \* what may be mapped: sequences of relationship fields
          Foreign,        \* relationships no field stands for, from another program
          MaxRels,        \* bound: relationships in the database
          Requests        \* the calls: [mode, strategy, label, match, depth, page, tx]

ASSUME LabelsAreTotal == DOMAIN LabelOf = Node
ASSUME BoundIsNat == MaxRels \in Nat
ASSUME NodesAreFinite == IsFiniteSet(Node) /\ IsFiniteSet(Foreign)
ASSUME ForeignJoinsNodes == Foreign \subseteq STRING \X Node \X Node
\* A target is a mapped type.  The code does not check it: a pair of opposite fields to
\* any other passes Validate, and the schema strategy then returns an error.
ASSUME SchemasAreMapped ==
    Schemas \subseteq Seq([owner : Mapped, field : STRING, rel : STRING, target : Mapped,
                          dir : {"unset", "outgoing", "incoming", "none", "both"}, many : BOOLEAN])
\* Go: the fields of a struct have different names.
ASSUME FieldsAreNamed == \A s \in Schemas : \A d, e \in Elements(s) :
                            d.owner = e.owner /\ d.field = e.field => d = e
ASSUME RequestsAreTyped ==
    Requests \subseteq [mode : {"one", "all"}, strategy : {"path", "schema", "query"}, label : Mapped,
                       match : SUBSET Node, depth : Nat, page : [number : Int, limit : Int], tx : BOOLEAN]
\* Load is by a primary key.
ASSUME OneIsByKey == \A q \in Requests : q.mode = "one" => \A n, m \in q.match : n = m

Fields == {d.field : d \in UNION {Elements(s) : s \in Schemas}}

\* What Save can have put there through some fields.
Savable(D) == {SavedAs(x[1], x[2], x[3]) : x \in {y \in D \X Node \X Node :
                  LabelOf[y[2]] = y[1].owner /\ LabelOf[y[3]] = y[1].target}}

VARIABLES schema,   \* the mapped fields, which Validate has accepted
          rels,     \* the relationships in the database
          req,      \* the call
          pc,       \* where it is
          rows,     \* the rows of its query
          broken,   \* their stream broke off
          again,    \* the driver has run the work a second time
          todo,     \* decode: the relationships still to relate
          err,      \* what kind of error was returned
          mine,     \* the nodes that the caller is given objects of
          ref,      \* the objects: per node and field the nodes it points to
          ids,      \* decode's relMaps: the same as ids
          load      \* the objects' LoadMaps

vars == <<schema, rels, req, pc, rows, broken, again, todo, err, mine, ref, ids, load>>

Blank == [n \in Node |-> [f \in Fields |-> {}]]

Init == /\ schema \in {s \in Schemas : Validate(s)}
        /\ rels \in {g \in SUBSET (Savable(Elements(schema)) \cup Foreign) : Cardinality(g) <= MaxRels}
        /\ req \in Requests
        /\ pc = "query" /\ broken = FALSE /\ again = FALSE /\ err = "none"
        /\ rows = {} /\ todo = {} /\ mine = {}
        /\ ref = Blank /\ ids = Blank /\ load = Blank

-------------------------------------------------------------------------------
Ends(e)   == {e[2], e[3]}
Far(e, n) == IF e[2] = n THEN e[3] ELSE e[2]

\* The paths one relationship longer than p.
Longer(p) ==
    LET end == p.way[Len(p.way)]
    IN  {[way   |-> Append(p.way, Far(e, end)),
          steps |-> Append(p.steps, e),
          nodes |-> p.nodes \cup Ends(e),
          rels  |-> p.rels \cup {e}] : e \in {x \in rels \ p.rels : end \in Ends(x)}}

\* The paths from n by their length.
PathsFrom(n) ==
    LET P[k \in Nat] == IF k = 0 THEN {[way |-> <<n>>, steps |-> <<>>, nodes |-> {n}, rels |-> {}]}
                        ELSE UNION {Longer(p) : p \in P[k - 1]}
    IN  P

\* PathLoadStrategy: match p=(n)-[*0..depth]-() with the filter on n.  No label is
\* asked for, of n neither; a path takes a relationship once, in either direction.
Paths(n, depth) == UNION {PathsFrom(n)[k] : k \in 0..depth}

PathRows(match, depth) == UNION {Paths(n, depth) : n \in match}

\* Faulty: the arrows of relString are the wrong way round.
AlongBackwards(n, d) ==
    {e \in rels : /\ e[1] = d.rel /\ n \in Ends(e) /\ LabelOf[Far(e, n)] = d.target
                  /\ (Dir(d) = "outgoing" => e[3] = n) /\ (Dir(d) = "incoming" => e[2] = n)}

\* Faulty: a field that is not incoming is taken for outgoing.
AlongDirected(n, d) ==
    {e \in rels : /\ e[1] = d.rel /\ n \in Ends(e) /\ LabelOf[Far(e, n)] = d.target
                  /\ IF Dir(d) = "incoming" THEN e[3] = n ELSE e[2] = n}

\* relString: the relationships of n that match the pattern of a field.
Along(n, d) ==
    {e \in rels : /\ e[1] = d.rel /\ n \in Ends(e) /\ LabelOf[Far(e, n)] = d.target
                  /\ (Dir(d) = "outgoing" => e[2] = n) /\ (Dir(d) = "incoming" => e[3] = n)}

\* What to expand: a node, the label whose fields are followed from it, the label the
\* next level is looked up with.
Pattern == Node \X Mapped \X Mapped

\* The label a field leads to comes to be used one level late.
Deeper(X) ==
    [c \in Pattern |->
        UNION {UNION {{e} \cup X[<<Far(e, c[1]), c[3], d.target>>] : e \in Along(c[1], d)} :
                  d \in {f \in Elements(schema) : f.owner = c[2]}}]

\* expandBootstrap, expand, listComprehension, by the depth left.
Expansion == LET X[k \in Nat] == IF k = 0 THEN [c \in Pattern |-> {}] ELSE Deeper(X[k - 1])
             IN  X

Expand(n, label, depth) == Expansion[depth][<<n, label, label>>]

\* SchemaLoadStrategy: one row per node of the label that meets the filter.
SchemaRows(label, match, depth) ==
    {LET R == Expand(n, label, depth)
     IN  [way |-> <<n>>, steps |-> <<>>, nodes |-> {n} \cup UNION {Ends(e) : e \in R}, rels |-> R] :
        n \in {m \in match : LabelOf[m] = label}}

\* A statement of the caller's own, passed to Query: some nodes, some relationships.
OwnRows == {{[way |-> <<>>, steps |-> <<>>, nodes |-> N, rels |-> R]} : N \in SUBSET Node, R \in SUBSET rels}

\* Paginate: page 0 needs no limit, and limit 0 is none.
PageIsValid(page) == page.number >= 0 /\ page.limit >= 0 /\ (page.number > 0 => page.limit > 0)

\* SKIP and LIMIT count rows, in whatever order they come.
Pages(page, R) ==
    LET left == Cardinality(R) - page.limit * page.number
        size == IF page.limit = 0 \/ left < page.limit THEN left ELSE page.limit
    IN  {S \in SUBSET R : Cardinality(S) = IF size < 0 THEN 0 ELSE size}

Results == CASE req.strategy = "path"   -> Pages(req.page, PathRows(req.match, req.depth))
             [] req.strategy = "schema" -> Pages(req.page, SchemaRows(req.label, req.match, req.depth))
             [] OTHER                   -> OwnRows

\* What comes of the rows R when the stream breaks off (bound: before the second row).
CutShort(R) == {S \in SUBSET R : Cardinality(S) <= 1 /\ S # R}

-------------------------------------------------------------------------------
Fails(kind) == pc' = "failed" /\ err' = kind

\* LoadDepthFilterPagination, LoadAllDepthFilterPagination, Query: build and run it;
\* decode reads the rows, and takes the end of a broken stream for their end.
RunQuery ==
    /\ pc = "query"
    /\ \/ /\ ~ PageIsValid(req.page)
          /\ Fails("page") /\ UNCHANGED <<rows, broken>>
       \/ /\ PageIsValid(req.page)
          /\ \/ rows' \in Results /\ broken' = FALSE
             \/ \E R \in Results : rows' \in CutShort(R) /\ broken' = TRUE
          /\ pc' = "sort" /\ UNCHANGED err
    /\ UNCHANGED <<schema, rels, req, again, todo, mine, ref, ids, load>>

Seen    == UNION {r.nodes : r \in rows}
Related == UNION {r.rels : r \in rows}
Primary == {n \in Seen : LabelOf[n] = req.label}

\* The node of the primary label that decode meets first, if row r comes first.
FirstOfRow(r) ==
    LET on == {i \in DOMAIN r.way : r.way[i] \in Primary}
    IN  IF on = {} THEN r.nodes \cap Primary
        ELSE {r.way[i] : i \in {j \in on : \A k \in on : j <= k}}

\* The caller's object is overwritten by the first primary node that is converted.
Fresh == ref' = Blank /\ ids' = Blank /\ load' = Blank
Kept  == UNCHANGED <<ref, ids, load>>

\* sortPaths, sortIsolatedNodes, sortStrictRels: an object per node, fresh, for every
\* node of the primary label to be returned; a single object passed in takes the
\* first of them.  A relationship needs both its nodes among the results.
Sort ==
    /\ pc = "sort"
    /\ \/ /\ \E n \in Seen : LabelOf[n] \notin Mapped
          /\ Kept \/ (Primary # {} /\ Fresh)   \* nodes are converted in any order
          /\ Fails("mapping") /\ UNCHANGED <<todo, mine>>
       \/ /\ \A n \in Seen : LabelOf[n] \in Mapped
          /\ \E e \in Related : ~ Ends(e) \subseteq Seen
          /\ IF Primary = {} THEN Kept ELSE Fresh
          /\ Fails("label") /\ UNCHANGED <<todo, mine>>
       \/ /\ \A n \in Seen : LabelOf[n] \in Mapped
          /\ \A e \in Related : Ends(e) \subseteq Seen
          /\ \/ /\ Primary = {}
                /\ Kept
                /\ Fails("notfound") /\ UNCHANGED <<todo, mine>>
             \/ /\ Primary # {}
                /\ Fresh
                /\ IF req.mode = "one"
                   THEN \E r \in rows : \E n \in FirstOfRow(r) : mine' = {n}
                   ELSE mine' = Primary
                /\ todo' = Related
                /\ pc' = "relate" /\ UNCHANGED err
    /\ UNCHANGED <<schema, rels, req, rows, broken, again>>

\* A slice is appended to, a pointer is overwritten.
Put(r, n, d, p) == [r EXCEPT ![n][d.field] = IF d.many THEN @ \cup {p} ELSE {p}]
Note(r, n, d, p) == [r EXCEPT ![n][d.field] = @ \cup {p}]

\* Faulty: the end's relation config is given its own id.
RelateNotesItself ==
    /\ pc = "relate"
    /\ \E e \in todo :
         \/ /\ \/ StartConfig(schema, LabelOf[e[2]], e[1], LabelOf[e[3]]) = {}
               \/ EndConfig(schema, LabelOf[e[2]], e[1], LabelOf[e[3]]) = {}
            /\ Fails("config") /\ UNCHANGED <<todo, ref, ids>>
         \/ \E s \in StartConfig(schema, LabelOf[e[2]], e[1], LabelOf[e[3]]) :
            \E t \in EndConfig(schema, LabelOf[e[2]], e[1], LabelOf[e[3]]) :
               /\ ids'  = Note(Note(ids, e[2], s, e[3]), e[3], t, e[3])
               /\ ref'  = Put(Put(ref, e[3], t, e[2]), e[2], s, e[3])
               /\ todo' = todo \ {e}
               /\ UNCHANGED <<pc, err>>
    /\ UNCHANGED <<schema, rels, req, rows, broken, again, mine, load>>

\* One relationship of decode's map, in any order: the ids at both ends, then the end's
\* field, then the start's.
Relate ==
    /\ pc = "relate"
    /\ \E e \in todo :
         \/ /\ \/ StartConfig(schema, LabelOf[e[2]], e[1], LabelOf[e[3]]) = {}
               \/ EndConfig(schema, LabelOf[e[2]], e[1], LabelOf[e[3]]) = {}
            /\ Fails("config") /\ UNCHANGED <<todo, ref, ids>>
         \/ \E s \in StartConfig(schema, LabelOf[e[2]], e[1], LabelOf[e[3]]) :
            \E t \in EndConfig(schema, LabelOf[e[2]], e[1], LabelOf[e[3]]) :
               /\ ids'  = Note(Note(ids, e[2], s, e[3]), e[3], t, e[2])
               /\ ref'  = Put(Put(ref, e[3], t, e[2]), e[2], s, e[3])
               /\ todo' = todo \ {e}
               /\ UNCHANGED <<pc, err>>
    /\ UNCHANGED <<schema, rels, req, rows, broken, again, mine, load>>

\* The LoadMaps are set last, and only when there was a relationship.
Finish ==
    /\ pc = "relate" /\ todo = {}
    /\ load' = IF Related = {} THEN load ELSE [n \in Node |-> IF n \in Seen THEN ids[n] ELSE load[n]]
    /\ pc' = "commit"
    /\ UNCHANGED <<schema, rels, req, rows, broken, again, todo, err, mine, ref, ids>>

\* Faulty: the error of ReadTransaction is dropped when decode has succeeded.
ReturnTooSoon ==
    /\ pc = "commit"
    /\ pc' = "done"
    /\ UNCHANGED <<schema, rels, req, rows, broken, again, todo, err, mine, ref, ids, load>>

\* runReadOnly returns nil: in a transaction of the session at once, else when the
\* driver has committed.
Return ==
    /\ pc = "commit"
    /\ req.tx \/ ~ broken
    /\ pc' = "done"
    /\ UNCHANGED <<schema, rels, req, rows, broken, again, todo, err, mine, ref, ids, load>>

\* Where the connection can be lost: in a transaction of the session a failed Run is
\* the end, else every step of the driver's may fail.
Exposed == pc = "query" \/ (~ req.tx /\ pc \in {"sort", "relate", "commit"})

\* Faulty: what was left to relate is kept for the second run.
InterruptedKeepsTodo ==
    /\ Exposed
    /\ \/ ~ req.tx /\ ~ again /\ again' = TRUE /\ pc' = "query" /\ UNCHANGED err
       \/ Fails("lost") /\ UNCHANGED again
    /\ UNCHANGED <<schema, rels, req, rows, broken, todo, mine, ref, ids, load>>

\* The connection is lost: ReadTransaction runs the work again, on the same response
\* object (bound: once), or gives up.
Interrupted ==
    /\ Exposed
    /\ \/ ~ req.tx /\ ~ again /\ again' = TRUE /\ pc' = "query" /\ UNCHANGED err
       \/ Fails("lost") /\ UNCHANGED again
    /\ todo' = {}
    /\ UNCHANGED <<schema, rels, req, rows, broken, mine, ref, ids, load>>

Next == RunQuery \/ Sort \/ Relate \/ Finish \/ Return \/ Interrupted

Spec == Init /\ [][Next]_vars

-------------------------------------------------------------------------------
Errors == {"none", "page", "mapping", "label", "notfound", "config", "lost"}
Objects == [Node -> [Fields -> SUBSET Node]]

TypeOK == /\ schema \in Schemas
          /\ req \in Requests
          /\ pc \in {"query", "sort", "relate", "commit", "done", "failed"}
          /\ broken \in BOOLEAN /\ again \in BOOLEAN
          /\ err \in Errors /\ (err # "none" <=> pc = "failed")
          /\ mine \subseteq Node
          /\ ref \in Objects /\ ids \in Objects /\ load \in Objects
          /\ todo \subseteq Related /\ Related \subseteq rels

IsSingle(f) == \E d \in Elements(schema) : d.field = f /\ ~ d.many

\* A Save right after a Load deletes nothing: when a Load has returned, with an error
\* or not, however its rows were cut and even after a retry, a LoadMap lists only
\* what its field holds.  Excepted is a pointer field that several relationships
\* lead to: it holds one of them.
LoadMapIsHeld ==
    pc \in {"done", "failed"} =>
       \A n \in Node, f \in Fields :
          \/ load[n][f] \subseteq ref[n][f]
          \/ IsSingle(f) /\ Cardinality(load[n][f]) > 1 /\ ref[n][f] \subseteq load[n][f]

\* A relationship that was saved through a field is loaded into that field, and into
\* the field gogmcli pairs with it at the other end, if getConfig can tell the
\* fields of the schema apart.
LoadedWhereSaved ==
    pc = "done" /\ Distinct(schema) /\ Generates(schema) =>
       \A d \in At(schema, Parsed(schema)) : \A o \in OppositeOf(schema, d) : \A n, p \in Node :
          LabelOf[n] = d.owner /\ LabelOf[p] = d.target /\ SavedAs(d, n, p) \in Related =>
             /\ IF d.many THEN p \in ref[n][d.field] ELSE ref[n][d.field] # {}
             /\ IF o.many THEN n \in ref[p][o.field] ELSE ref[p][o.field] # {}

\* What gogmcli accepts can be loaded: when fields are paired and can be told apart,
\* decode finds a config for every relationship that Save made.
GeneratedSchemasLoad ==
    err = "config" => \/ ~ Distinct(schema) \/ ~ Generates(schema)
                      \/ ~ Related \subseteq Savable(At(schema, Parsed(schema)))

\* The schema strategy loads part of what the path strategy loads; of a node that is
\* asked for, every relationship that one of its fields stands for.
SchemaWithinPath ==
    pc = "query" /\ req.strategy = "schema" =>
       \A n \in {m \in req.match : LabelOf[m] = req.label} :
          LET S == Expand(n, req.label, req.depth)
          IN  /\ S \subseteq UNION {p.rels : p \in Paths(n, req.depth)}
              /\ req.depth > 0 => \A d \in Elements(schema), p \in Node :
                    d.owner = req.label /\ LabelOf[p] = d.target /\ SavedAs(d, n, p) \in rels
                       => SavedAs(d, n, p) \in S

\* With one type only, mapped at both ends, the two strategies load the same: the
\* label that expand confuses is then the right one.
StrategiesAgree ==
    /\ pc = "query" /\ req.strategy = "schema"
    /\ Generates(schema) /\ Parsed(schema) = DOMAIN schema /\ rels \subseteq Savable(Elements(schema))
    /\ \A d \in Elements(schema) : d.owner = req.label /\ d.target = req.label
    => \A n \in {m \in req.match : LabelOf[m] = req.label} :
          Expand(n, req.label, req.depth) = UNION {p.rels : p \in Paths(n, req.depth)}

Unpaged == req.page.number = 0 /\ req.page.limit = 0

\* Nothing that was asked for is missing: an unpaged Load that succeeds returns every
\* node of the label that meets the filter, also one without relationships, although
\* decode does not notice a broken stream.  In a transaction of the session it may be
\* missing: nothing tells the caller there.
MatchesReturned ==
    pc = "done" /\ req.strategy # "query" /\ Unpaged /\ (req.tx => ~ broken) =>
       LET asked == {n \in req.match : LabelOf[n] = req.label}
       IN  IF req.mode = "all" THEN asked \subseteq mine ELSE asked # {} => mine = asked

\* LoadAllDepthFilter loads "all of type with depth and filter" (interfacev2.go): it
\* returns those that meet the filter.
ReturnsMatches ==
    pc = "done" /\ req.strategy # "query" /\ req.mode = "all" => mine \subseteq req.match
===============================================================================
