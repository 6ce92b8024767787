-------------------------------- MODULE Schema --------------------------------
(***************************************************************************)
(* The relationship fields of the mapped types: how the struct tags become *)
(* relation configs, what New validates of them, which config decode finds *)
(* for either end of a relationship, and which fields gogmcli pairs.       *)
(* A schema is the sequence of the fields in the order they are parsed; a  *)
(* field is a record [owner, field, rel, target, dir, many], dir "unset"   *)
(* when the tag names no direction.  An edge struct counts as a reference  *)
(* to the node at its far end.  Assumed: no name holds "-", two names      *)
(* differ in more than case, types are not embedded in one another.        *)
(***************************************************************************)
EXTENDS Integers, Sequences, FiniteSets

\* The default direction is outgoing.
Dir(d) == IF d.dir = "unset" THEN "outgoing" ELSE d.dir

\* The fields at some places in the sequence; all of them.
At(decls, I) == {decls[i] : i \in I}
Elements(decls) == At(decls, DOMAIN decls)
RelTypes(decls) == {d.rel : d \in Elements(decls)}

\* The first of some places in the sequence, as a set.
First(I) == {i \in I : \A j \in I : i <= j}

\* Add: where the configs kept under one type, relationship and field type are, in order.
ConfigsFor(decls, type, rel, target) ==
    {i \in DOMAIN decls : decls[i].owner = type /\ decls[i].rel = rel /\ decls[i].target = target}

\* Faulty: of several configs the first is taken, whatever its direction.
GetConfigFirst(decls, type, rel, target, dir) ==
    At(decls, First(ConfigsFor(decls, type, rel, target)))

\* Faulty: the direction is asked for even of a config that is alone.
GetConfigExact(decls, type, rel, target, dir) ==
    At(decls, First({i \in ConfigsFor(decls, type, rel, target) : Dir(decls[i]) = dir}))

\* getConfig: the config found, as a set of at most one; {} is its error.  A config
\* that is alone is taken whatever its direction.
GetConfig(decls, type, rel, target, dir) ==
    LET confs == ConfigsFor(decls, type, rel, target)
    IN  At(decls, IF Cardinality(confs) = 1 THEN confs
                  ELSE First({i \in confs : Dir(decls[i]) = dir}))

\* GetConfigs: the configs for the start and for the end of a relationship.
StartConfig(decls, start, rel, end) == GetConfig(decls, start, rel, end, "outgoing")
EndConfig(decls, start, rel, end)   == GetConfig(decls, end, rel, start, "incoming")

\* Validate: per relationship as many incoming as outgoing fields, whatever types
\* they join, and an even number of the others; a "both" to its own type counts alone.
Validate(decls) ==
    \A rel \in RelTypes(decls) :
       LET Places     == {i \in DOMAIN decls : decls[i].rel = rel}
           Count(dir) == Cardinality({i \in Places : Dir(decls[i]) = dir})
           SelfBoth   == Cardinality({i \in Places : decls[i].dir = "both" /\ decls[i].owner = decls[i].target})
       IN  /\ Count("outgoing") = Count("incoming")
           /\ (Count("both") - SelfBoth) % 2 = 0
           /\ Count("none") % 2 = 0

\* processStruct: the relationship that field d of object o stands for when it
\* points to p; only "outgoing" makes o the start.
SavedAs(d, o, p) == IF Dir(d) = "outgoing" THEN <<d.rel, o, p>> ELSE <<d.rel, p, o>>

-------------------------------------------------------------------------------
\* gogmcli: parseGogmNode skips a field whose tag has no direction.  The places left.
Parsed(decls) == {i \in DOMAIN decls : decls[i].dir # "unset"}

Facing == {<<"outgoing", "incoming">>, <<"incoming", "outgoing">>,
           <<"none", "none">>, <<"both", "both">>}

\* parseDirection: the first field of the other type that faces this one, as a set.
OppositeOf(decls, d) ==
    LET facing == {i \in Parsed(decls) \cap ConfigsFor(decls, d.target, d.rel, d.owner) :
                      <<d.dir, decls[i].dir>> \in Facing}
    IN  At(decls, First(facing))

\* Generate: the fields of a relationship are even in number, each has its opposite.
Generates(decls) ==
    /\ \A rel \in RelTypes(decls) :
          Cardinality({i \in Parsed(decls) :
             decls[i].rel = rel /\ (decls[i].dir # "both" \/ decls[i].owner # decls[i].target)}) % 2 = 0
    /\ \A d \in At(decls, Parsed(decls)) : OppositeOf(decls, d) # {}

-------------------------------------------------------------------------------
\* The schemas in which getConfig can tell a type's fields apart: under each key a
\* single field, or one for either direction.  Validate does not ask for it.
Distinct(decls) ==
    \A d \in Elements(decls) :
       LET confs == ConfigsFor(decls, d.owner, d.rel, d.target)
       IN  \/ Cardinality(confs) = 1
           \/ /\ Cardinality(confs) = 2
              /\ {Dir(decls[i]) : i \in confs} = {"outgoing", "incoming"}
===============================================================================
