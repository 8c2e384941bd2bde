------------------------------ MODULE Readiness ------------------------------
(***************************************************************************)
(* ExecutionRequestReadinessService.evaluate: may the definition that an   *)
(* execution request names be run?  The service walks from the definition  *)
(* to what it refers to, one awaited read after another, and collects      *)
(* blockers and warnings.  The reads are not a snapshot: other calls       *)
(* create and update definitions between them.                             *)
(*                                                                         *)
(* Three branches of the code are left out because no stored row takes     *)
(* them: a request without its definition (create refuses it), a query     *)
(* without a dataset and a dataset without a key (NOT NULL columns).       *)
(***************************************************************************)
EXTENDS Naturals, Sequences, FiniteSets, SequencesExt

CONSTANTS
  Tenant,     \* the tenant of the execution request
  Others,     \* the other tenants
  QueryIds, DatasetIds, DashboardIds, ReportIds, ConnectionIds,
  MappingIds, \* naturals: what is created later has a greater one
  MappingPage,  \* how many mappings of a dataset key a read returns
  Keys,       \* dataset keys
  Widgets,    \* the widget lists of dashboards: per widget a query or None
  Blocks,     \* the block lists of reports
  Catalogs,   \* the catalogs an evaluation may start from
  MaxEdits(_),  \* bound on the edits of a behaviour, by its first catalog
  Edits,      \* what those edits may store: a row of a table
  None        \* an absent reference, or a row that does not exist

Tenants == {Tenant} \union Others
OptionalQuery == QueryIds \union {None}
OptionalDashboard == DashboardIds \union {None}
OptionalConnection == ConnectionIds \union {None}

ASSUME MappingsAssumption ==
  /\ MappingIds \subseteq Nat /\ IsFiniteSet(MappingIds)
  /\ MappingPage \in Nat \ {0}
ASSUME MaxEditsAssumption == \A cat \in Catalogs : MaxEdits(cat) \in Nat
ASSUME WidgetsAssumption == Widgets \subseteq Seq(OptionalQuery)
ASSUME BlocksAssumption ==
  Blocks \subseteq Seq([query : OptionalQuery, dashboard : OptionalDashboard])

(* active stands for status = 'active'; the other statuses are treated     *)
(* alike.  protected stands for auth_type # 'none'.                        *)
Rows == [
  query |-> [tenant : Tenants, active : BOOLEAN, dataset : DatasetIds],
  dataset |-> [tenant : Tenants, active : BOOLEAN, key : Keys,
               connection : OptionalConnection],
  mapping |-> [tenant : Tenants, active : BOOLEAN, key : Keys,
               connection : OptionalConnection],
  connection |-> [tenant : Tenants, protected : BOOLEAN],
  dashboard |-> [tenant : Tenants, widgets : Widgets],
  report |-> [tenant : Tenants, query : OptionalQuery,
              dashboard : OptionalDashboard, blocks : Blocks]]

Ids == [query |-> QueryIds, dataset |-> DatasetIds, mapping |-> MappingIds,
        connection |-> ConnectionIds, dashboard |-> DashboardIds,
        report |-> ReportIds]

Tables == DOMAIN Rows

(* A table maps an identifier to its row.                                  *)
CatalogOK(cat) ==
  /\ cat \in [Tables -> {cat[table] : table \in Tables}]
  /\ \A table \in Tables : cat[table] \in [Ids[table] -> Rows[table] \union {None}]

ASSUME CatalogsAssumption == \A cat \in Catalogs : CatalogOK(cat)

ASSUME EditsAssumption ==
  \A edit \in Edits : /\ edit.table \in Tables
                      /\ edit.id \in Ids[edit.table]
                      /\ edit.row \in Rows[edit.table]

(* No identifier and no row is mistaken for an absent one.                 *)
ASSUME AbsenceAssumption ==
  \A table \in Tables : None \notin Ids[table] /\ None \notin Rows[table]

VARIABLES
  catalog,    \* the tables
  todo,       \* what is still to be read, next first
  blockers,   \* the codes of the blockers so far
  warnings,   \* the codes of the warnings so far
  asked,      \* the definition that is evaluated
  edits,      \* number of edits
  initial,    \* history: the catalog when the evaluation began
  repointed   \* history: an update has changed a reference since then

evaluation == <<todo, blockers, warnings, asked, initial>>
readinessVars == <<catalog, evaluation, edits, repointed>>

Read(table, id) == [table |-> table, id |-> id]

BlockerCodes ==
  {"query_definition_not_found", "dataset_not_found", "field_mappings_missing",
   "dashboard_definition_not_found", "dashboard_widgets_missing",
   "dashboard_has_no_resolvable_queries", "report_definition_not_found",
   "report_has_no_resolvable_reference"}

WarningCodes ==
  {"query_definition_not_active", "dataset_not_active",
   "field_mappings_incomplete", "dashboard_widget_query_missing",
   "report_block_reference_missing"}

Definitions ==
  {Read("query", q) : q \in QueryIds} \union
  {Read("dashboard", b) : b \in DashboardIds} \union
  {Read("report", r) : r \in ReportIds}

(* Mappings are read by the key of their dataset.                          *)
Task == Definitions \union {Read("dataset", d) : d \in DatasetIds}
                    \union {Read("mapping", k) : k \in Keys}

ReadinessInit ==
  /\ catalog \in Catalogs
  /\ asked \in Definitions
  /\ todo = <<asked>>
  /\ blockers = {}
  /\ warnings = {}
  /\ edits = 0
  /\ initial = catalog
  /\ repointed = FALSE

----------------------------------------------------------------------------
(* Lists of lists; without recursion, so that they can be reasoned about.  *)

Places(seqs) == UNION {{<<i, j>> : j \in DOMAIN seqs[i]} : i \in DOMAIN seqs}

Before(p, q) == p[1] < q[1] \/ (p[1] = q[1] /\ p[2] < q[2])

At(seqs, p) == seqs[p[1]][p[2]]

(* What is at the places, in the order of the lists and within each list.  *)
InOrder(seqs, places) ==
  [k \in 1..Cardinality(places) |->
     At(seqs, CHOOSE p \in places :
                Cardinality({q \in places : Before(q, p)}) = k - 1)]

(* flatMap                                                                 *)
Joined(seqs) == InOrder(seqs, Places(seqs))

(* What occurs earlier is left out where it occurs again.                  *)
Unique(seqs) ==
  InOrder(seqs, {p \in Places(seqs) : \A q \in Places(seqs) :
                   Before(q, p) => At(seqs, q) # At(seqs, p)})
----------------------------------------------------------------------------
(* Defect: WHERE id = ? alone.                                             *)
FoundAnywhere(cat, table, id) == {cat[table][id]} \ {None}

(* findOne(tenantId, id): at most one row; NotFoundException is caught.    *)
Found(cat, table, id) ==
  {row \in {cat[table][id]} \ {None} : row.tenant = Tenant}

(* findByFilters({tenantId, datasetKey, page: 1}): the ids of the newest.  *)
FoundMappings(cat, key) ==
  LET matching == {m \in MappingIds :
                     \E row \in Found(cat, "mapping", m) : row.key = key}
  IN {m \in matching :
        Cardinality({n \in matching : n > m}) < MappingPage}

(* Once at the head of todo, a read adds its codes and is replaced by the  *)
(* reads that its result calls for.                                        *)
Continue(reads, newBlockers, newWarnings) ==
  /\ todo' = reads \o Tail(todo)
  /\ blockers' = blockers \union newBlockers
  /\ warnings' = warnings \union newWarnings
  /\ UNCHANGED <<catalog, asked, edits, initial, repointed>>

Code(condition, code) == IF condition THEN {code} ELSE {}

Turn(table) == todo # <<>> /\ Head(todo).table = table

(* Defect: what is not there is read again until it is.                    *)
MissingRetried(table, code) ==
  /\ Turn(table)
  /\ Found(catalog, table, Head(todo).id) = {}
  /\ UNCHANGED readinessVars

(* The definition of the head is not there: a blocker, and no more reads.  *)
Missing(table, code) ==
  /\ Turn(table)
  /\ Found(catalog, table, Head(todo).id) = {}
  /\ Continue(<<>>, {code}, {})

EvaluateQuery ==
  \/ Missing("query", "query_definition_not_found")
  \/ /\ Turn("query")
     /\ \E query \in Found(catalog, "query", Head(todo).id) :
          Continue(<<Read("dataset", query.dataset)>>, {},
                   Code(~query.active, "query_definition_not_active"))

EvaluateDataset ==
  \/ Missing("dataset", "dataset_not_found")
  \/ /\ Turn("dataset")
     /\ \E dataset \in Found(catalog, "dataset", Head(todo).id) :
          Continue(<<Read("mapping", dataset.key)>>, {},
                   Code(~dataset.active, "dataset_not_active"))

EvaluateMappings ==
  /\ Turn("mapping")
  /\ LET mappings == FoundMappings(catalog, Head(todo).id)
     IN Continue(<<>>, Code(mappings = {}, "field_mappings_missing"),
          Code(\E m \in mappings : ~catalog.mapping[m].active,
               "field_mappings_incomplete"))

Reference(table, id) == IF id = None THEN <<>> ELSE <<Read(table, id)>>

(* Defect: the first widget with a query ends the loop.                    *)
WidgetReadsFirst(widgets) ==
  LET reads == Joined([i \in DOMAIN widgets |-> Reference("query", widgets[i])])
  IN IF reads = <<>> THEN <<>> ELSE <<Head(reads)>>

(* The queries of the widgets that have one.                               *)
WidgetReads(widgets) ==
  Joined([i \in DOMAIN widgets |-> Reference("query", widgets[i])])

EvaluateDashboard ==
  \/ Missing("dashboard", "dashboard_definition_not_found")
  \/ /\ Turn("dashboard")
     /\ \E dashboard \in Found(catalog, "dashboard", Head(todo).id) :
          LET widgets == dashboard.widgets
              reads == WidgetReads(widgets)
          IN Continue(reads,
               IF widgets = <<>> THEN {"dashboard_widgets_missing"}
               ELSE Code(reads = <<>>, "dashboard_has_no_resolvable_queries"),
               Code(\E i \in DOMAIN widgets : widgets[i] = None,
                    "dashboard_widget_query_missing"))

(* Defect: a block without a query is taken to have a dashboard.           *)
BlockReadsUnchecked(block) ==
  IF block.query # None THEN Reference("query", block.query)
                        ELSE <<Read("dashboard", block.dashboard)>>

(* A block's query hides its dashboard.                                    *)
BlockReads(block) ==
  IF block.query # None THEN Reference("query", block.query)
                        ELSE Reference("dashboard", block.dashboard)

ReportReads(report) ==
  Reference("query", report.query) \o Reference("dashboard", report.dashboard)
  \o Joined([i \in DOMAIN report.blocks |-> BlockReads(report.blocks[i])])

EvaluateReport ==
  \/ Missing("report", "report_definition_not_found")
  \/ /\ Turn("report")
     /\ \E report \in Found(catalog, "report", Head(todo).id) :
          Continue(ReportReads(report),
            Code(ReportReads(report) = <<>>, "report_has_no_resolvable_reference"),
            Code(\E i \in DOMAIN report.blocks : BlockReads(report.blocks[i]) = <<>>,
                 "report_block_reference_missing"))

Evaluate ==
  EvaluateQuery \/ EvaluateDataset \/ EvaluateMappings \/ EvaluateDashboard
  \/ EvaluateReport

----------------------------------------------------------------------------
(* Other calls.  A statement is refused when it breaks a constraint: the   *)
(* dataset of a query and the connection of a dataset or a mapping exist   *)
(* (in whatever tenant), and a tenant has a dataset key once.  What        *)
(* dashboards and reports refer to has no constraint, and nothing is ever  *)
(* deleted.                                                                *)
Admissible(table, id, row) ==
  /\ table = "query" => catalog.dataset[row.dataset] # None
  /\ table \in {"dataset", "mapping"} /\ row.connection # None =>
       catalog.connection[row.connection] # None
  /\ table = "dataset" =>
       \A d \in DatasetIds \ {id} :
         LET other == catalog.dataset[d]
         IN other = None \/ other.tenant # row.tenant \/ other.key # row.key

Store(table, id, row) ==
  /\ edits < MaxEdits(initial)
  /\ edits' = edits + 1
  /\ Admissible(table, id, row)
  /\ catalog' = [catalog EXCEPT ![table][id] = row]
  /\ UNCHANGED evaluation

CreateDefinition ==
  \E edit \in Edits : LET table == edit.table  id == edit.id IN
    /\ catalog[table][id] = None
    /\ table = "mapping" => \A m \in MappingIds : m > id => catalog.mapping[m] = None
    /\ Store(table, id, edit.row)
    /\ UNCHANGED repointed

(* Only what is no reference differs: the status (archive, deactivate, or  *)
(* an update of it), the authentication of a connection.                   *)
SameReferences(old, new) ==
  \A field \in DOMAIN old \ {"active", "protected"} : new[field] = old[field]

(* An update may change every column but the tenant.                       *)
UpdateDefinition ==
  \E edit \in Edits : LET table == edit.table  id == edit.id  row == edit.row IN
    /\ catalog[table][id] # None
    /\ row.tenant = catalog[table][id].tenant
    /\ row # catalog[table][id]
    /\ Store(table, id, row)
    /\ repointed' = (repointed \/ ~SameReferences(catalog[table][id], row))

Edit == CreateDefinition \/ UpdateDefinition
----------------------------------------------------------------------------
(* What the walk is meant to compute, stated over one catalog at once: the *)
(* definitions that are reached and what is wrong with each of them.       *)

Here(cat, table, ids) ==
  {row \in {cat[table][id] : id \in ids} : row # None /\ row.tenant = Tenant}

Gone(cat, table, ids) == \E id \in ids : Here(cat, table, {id}) = {}

Elements(seq) == {seq[i] : i \in DOMAIN seq}

ReachedDashboards(cat, d) ==
  IF d.table = "dashboard" THEN {d.id}
  ELSE IF d.table = "query" THEN {}
  ELSE UNION {({r.dashboard} \union
               {b.dashboard : b \in {c \in Elements(r.blocks) : c.query = None}})
              \ {None} : r \in Here(cat, "report", {d.id})}

ReachedQueries(cat, d) ==
  LET boards == Here(cat, "dashboard", ReachedDashboards(cat, d))
  IN (IF d.table = "query" THEN {d.id} ELSE {})
     \union ((UNION {Elements(b.widgets) : b \in boards}) \ {None})
     \union (IF d.table # "report" THEN {}
             ELSE UNION {({r.query} \union {b.query : b \in Elements(r.blocks)})
                         \ {None} : r \in Here(cat, "report", {d.id})})

Blocking(cat, d) ==
  LET boardIds == ReachedDashboards(cat, d)
      queryIds == ReachedQueries(cat, d)
      boards == Here(cat, "dashboard", boardIds)
      datasetIds == {q.dataset : q \in Here(cat, "query", queryIds)}
      keys == {s.key : s \in Here(cat, "dataset", datasetIds)}
      mappings == Here(cat, "mapping", MappingIds)
  IN Code(d.table = "report" /\ Gone(cat, "report", {d.id}),
          "report_definition_not_found")
     \union Code(d.table = "report" /\ ~Gone(cat, "report", {d.id})
                 /\ boardIds = {} /\ queryIds = {},
                 "report_has_no_resolvable_reference")
     \union Code(Gone(cat, "dashboard", boardIds), "dashboard_definition_not_found")
     \union Code(\E b \in boards : b.widgets = <<>>, "dashboard_widgets_missing")
     \union Code(\E b \in boards : b.widgets # <<>> /\ Elements(b.widgets) = {None},
                 "dashboard_has_no_resolvable_queries")
     \union Code(Gone(cat, "query", queryIds), "query_definition_not_found")
     \union Code(Gone(cat, "dataset", datasetIds), "dataset_not_found")
     \union Code(\E k \in keys : \A m \in mappings : m.key # k, "field_mappings_missing")

Warning(cat, d) ==
  LET queries == Here(cat, "query", ReachedQueries(cat, d))
      datasets == Here(cat, "dataset", {q.dataset : q \in queries})
      listed(key) == {m \in MappingIds : Here(cat, "mapping", {m}) # {}
                                         /\ cat.mapping[m].key = key}
      boards == Here(cat, "dashboard", ReachedDashboards(cat, d))
      blocks == IF d.table # "report" THEN {}
                ELSE UNION {Elements(r.blocks) : r \in Here(cat, "report", {d.id})}
  IN Code(\E q \in queries : ~q.active, "query_definition_not_active")
     \union Code(\E s \in datasets : ~s.active, "dataset_not_active")
     \union Code(\E s \in datasets : \E m \in listed(s.key) :
                   /\ ~cat.mapping[m].active
                   /\ Cardinality({n \in listed(s.key) : n >= m}) <= MappingPage,
                 "field_mappings_incomplete")
     \union Code(\E b \in boards : None \in Elements(b.widgets),
                 "dashboard_widget_query_missing")
     \union Code(\E b \in blocks : b.query = None /\ b.dashboard = None,
                 "report_block_reference_missing")

Done == todo = <<>>

ReadinessTypeOK ==
  /\ CatalogOK(catalog)
  /\ CatalogOK(initial)
  /\ todo \in Seq(Task)
  /\ blockers \subseteq BlockerCodes
  /\ warnings \subseteq WarningCodes
  /\ asked \in Definitions
  /\ edits \in 0..MaxEdits(initial)
  /\ repointed \in BOOLEAN

(* Left alone, the walk finds exactly the blockers and the warnings of the *)
(* catalog: none is missed behind another one, none is made up, none is    *)
(* about a row of another tenant.                                          *)
WalkMatchesCatalog ==
  Done /\ edits = 0 => /\ blockers = Blocking(catalog, asked)
                       /\ warnings = Warning(catalog, asked)

(* Definitions that are created and statuses that change while the walk is *)
(* under way do not mislead it: what it finds ready is ready now, and what *)
(* it finds blocked was blocked when it began.                             *)
GrowthDoesNotMislead ==
  Done /\ ~repointed =>
    /\ blockers = {} => Blocking(catalog, asked) = {}
    /\ blockers # {} => Blocking(initial, asked) # {}
=============================================================================
