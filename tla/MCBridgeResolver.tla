--------------------------- MODULE MCBridgeResolver ---------------------------
(***************************************************************************)
(* Catalogs for model-checking BridgeResolver: three families that nobody  *)
(* edits, one for each level of a definition and one for its sources, and  *)
(* a few that are edited while prepareCommand is under way.                *)
(***************************************************************************)
EXTENDS BridgeResolver, TLC

CONSTANTS t1, t2, q1, q2, s1, s2, b1, r1, k1, k2, c1, c2

AllWidgets == {<<>>} \union {<<a>> : a \in {q1, q2, None}}
              \union {<<a, b>> : a, b \in {q1, q2, None}}

OneBlock(query, dashboard) == <<[query |-> query, dashboard |-> dashboard]>>

AllBlocks ==
  LET one == {OneBlock(q, d) : q \in {q1, q2, None}, d \in {b1, None}}
  IN {<<>>} \union one \union {block \o OneBlock(None, b1) : block \in one}

CatalogsOf(queries, datasets, mappings, connections, dashboards, reports) ==
  [query : queries, dataset : datasets, mapping : mappings,
   connection : connections, dashboard : dashboards, report : reports]

Maybe(table) == Rows[table] \union {None}
One(id, rows) == {id :> row : row \in rows}
Two(x, xs, y, ys) == {x :> row @@ y :> other : row \in xs, other \in ys}
Mappings(first, second, third) ==
  {<<a, b, c>> : a \in first, b \in second, c \in third}

Query(dataset) == [tenant |-> t1, active |-> TRUE, dataset |-> dataset]
Dataset(key, connection) ==
  [tenant |-> t1, active |-> TRUE, key |-> key, connection |-> connection]
Mapping(key, connection) ==
  [tenant |-> t1, active |-> TRUE, key |-> key, connection |-> connection]
Inactive(row) == [row EXCEPT !.active = FALSE]
Open == [tenant |-> t1, protected |-> FALSE]
Protected == [tenant |-> t1, protected |-> TRUE]
Foreign == [tenant |-> t2, protected |-> FALSE]
Board(widgets) == [tenant |-> t1, widgets |-> widgets]
Report(query, dashboard, blocks) ==
  [tenant |-> t1, query |-> query, dashboard |-> dashboard, blocks |-> blocks]

OneConnection == Two(c1, {Open}, c2, {None})

(* Any dataset and any mapping under one query.                            *)
Datasets == {row \in Rows.dataset : row.connection # c2}
Chains ==
  {cat \in CatalogsOf(
      Two(q1, Maybe("query"), q2, {None}),
      Two(s1, Datasets \union {None}, s2, {None, Inactive(Dataset(k2, c1))}),
      Mappings({row \in Maybe("mapping") : row = None \/ row.connection = c1},
               {None}, {None}),
      OneConnection, One(b1, {None}), One(r1, {None})) :
     /\ cat.query[q1] # None => cat.dataset[cat.query[q1].dataset] # None
     /\ cat.dataset[s1] # None /\ cat.dataset[s2] # None =>
          cat.dataset[s1].tenant # t1 \/ cat.dataset[s1].key # k2}

(* Any dashboard, and any report, over queries that are missing, good, or  *)
(* without mappings.                                                       *)
SomeQueries == Two(q1, {None, Query(s1)}, q2, {None, Query(s1), Query(s2)})
SomeDatasets == Two(s1, {Dataset(k1, c1)}, s2, {Inactive(Dataset(k2, c1))})
SomeMappings == Mappings({Mapping(k1, None)}, {None}, {None})

Boards ==
  CatalogsOf(SomeQueries, SomeDatasets, SomeMappings, OneConnection,
             One(b1, Maybe("dashboard")), One(r1, {None}))

Reports ==
  CatalogsOf(SomeQueries, SomeDatasets, SomeMappings, OneConnection,
             One(b1, {None, Board(<<>>), Board(<<q1>>), Board(<<q2, None>>)}),
             One(r1, {row \in Maybe("report") : row = None \/ row.tenant = t1}))

(* Two queries with one source, with two, or without; more mappings of a   *)
(* key than a page has.                                                    *)
TwoSources ==
  CatalogsOf(Two(q1, {Query(s1)}, q2, {Query(s1), Query(s2)}),
             Two(s1, {Dataset(k1, None), Dataset(k1, c1)},
                 s2, {Dataset(k2, None), Dataset(k2, c1), Dataset(k2, c2)}),
             Mappings({Inactive(Mapping(k1, None)), Mapping(k1, c1)},
                      {Mapping(k1, c2), Mapping(k2, None), Mapping(k2, c1)},
                      {None, Mapping(k1, None), Mapping(k1, c2)}),
             Two(c1, {Open, Protected}, c2, {Open, Foreign}),
             One(b1, {Board(<<q1, q2>>)}),
             One(r1, {Report(q1, None, <<>>),
                      Report(q1, b1, OneBlock(q2, b1))}))

(* A chain from a report to a mapping with some of its links missing.      *)
Growing ==
  CatalogsOf(Two(q1, {None, Query(s1)}, q2, {Query(s2)}),
             Two(s1, {Dataset(k1, None)}, s2, {Dataset(k2, c1)}),
             Mappings({None, Mapping(k1, c1)}, {Mapping(k2, None)}, {None}),
             Two(c1, {Open}, c2, {Foreign, Open}),
             One(b1, {None, Board(<<q2, q1>>)}),
             One(r1, {None, Report(None, b1, <<>>)}))

AllCatalogs == Chains \union Boards \union Reports \union TwoSources \union Growing

EditsFrom(cat) == IF cat \in Growing THEN 2 ELSE 0

Storing(table, id, rows) ==
  {[table |-> table, id |-> id, row |-> row] : row \in rows}

SomeEdits ==
  Storing("query", q1, {Query(s1), Inactive(Query(s1)), Query(s2)})
  \union Storing("dataset", s1, {Dataset(k1, c1), Inactive(Dataset(k1, None))})
  \union Storing("dataset", s2, {Dataset(k2, c2)})
  \union Storing("mapping", 1, {Mapping(k1, c1), Inactive(Mapping(k1, c1))})
  \union Storing("mapping", 3, {Mapping(k1, c2), Mapping(k2, c1)})
  \union Storing("connection", c1, {Protected})
  \union Storing("dashboard", b1, {Board(<<q2, q1>>), Board(<<q2>>)})
  \union Storing("report", r1, {Report(None, b1, <<>>), Report(q2, None, <<>>)})
===============================================================================
