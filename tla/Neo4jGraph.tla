------------------------------ MODULE Neo4jGraph ------------------------------
(***************************************************************************)
(* What the Cypher statements of save.go and delete.go do to a graph       *)
(* (external: the database; read off the statements src/ builds).  A graph *)
(* is a set of node ids and a set of relationships <<type, start, end>>.   *)
(***************************************************************************)

EmptyGraph == [nodes |-> {}, rels |-> {}]

\* CREATE of nodes with the given ids.
CreateNodes(g, ids) == [g EXCEPT !.nodes = @ \cup ids]

\* The relationships, of any type and in either direction, between the ends of a
\* pair of ids: what MATCH (start)-[e]-(end) finds.
Between(g, pairs) == {e \in g.rels : <<e[2], e[3]>> \in pairs \/ <<e[3], e[2]>> \in pairs}

DeleteRels(g, rels) == [g EXCEPT !.rels = @ \ rels]

\* MATCH both ends, MERGE the relationship: a row whose ends are not both found is dropped.
MergeRels(g, rels) ==
    [g EXCEPT !.rels = @ \cup {e \in rels : e[2] \in g.nodes /\ e[3] \in g.nodes}]

\* DETACH DELETE of a node takes its relationships with it.
DetachDelete(g, i) == [nodes |-> g.nodes \ {i},
                       rels  |-> {e \in g.rels : e[2] # i /\ e[3] # i}]
=============================================================================
