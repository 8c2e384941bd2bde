--------------------------- MODULE ReferenceResolver ---------------------------
(***************************************************************************)
(* RuntimeConnectorReferenceResolver: from the definition that a request   *)
(* names, by way of dashboards and queries, down to dataset, mappings and  *)
(* connection, and back up, where the parts are merged if they have one    *)
(* source.  The first thing that cannot be resolved ends it.  Everything   *)
(* is read anew, after the readiness evaluation read it, each definition   *)
(* by a statement of its own.                                              *)
(*                                                                         *)
(* The readers are the services of the catalogue, as runtime.module.ts     *)
(* wires them.  The response of ConnectionsService tells that a connection *)
(* has a credential reference, not which: for the resolver every           *)
(* connection is without one, and its lookup of credentials is never       *)
(* reached.  A connection has a single type, so that a source is told from *)
(* another by its connection.                                              *)
(***************************************************************************)
EXTENDS Readiness

VARIABLES
  pending,    \* what is still to be read or merged, next first
  chain,      \* what the dataset chain under way has found so far
  partials,   \* the bundles that are resolved and not merged yet
  blocked,    \* the code that ended the resolution
  failed      \* history: a read failed

resolverVars == <<pending, chain, partials, blocked, failed>>

NoChain == [query |-> None, dataset |-> None, connection |-> None,
            mappings |-> <<>>]

ResolverInit ==
  /\ pending = <<>>
  /\ chain = NoChain
  /\ partials = <<>>
  /\ blocked = None
  /\ failed = FALSE

ReferenceBlockers ==
  {"query_definition_missing", "dashboard_definition_missing",
   "report_definition_missing", "dataset_missing", "field_mappings_missing",
   "connection_missing", "credential_ref_missing",
   "multiple_sources_not_supported"}

(* The merge of the last count bundles into the one of owner.              *)
Merge(owner, count) == [table |-> "merge", id |-> owner, count |-> count]

(* The query of a request is looked up once before its chain is resolved.  *)
Lookup(query) == [table |-> "lookup", id |-> query]

RootReads(definition) ==
  IF definition.table = "query" THEN <<Lookup(definition.id), definition>>
                                ELSE <<definition>>

(* PartialReferenceBundle                                                  *)
Bundle == [queries : Seq(QueryIds), dashboards : Seq(DashboardIds),
           reports : Seq(ReportIds), dataset : DatasetIds,
           connection : ConnectionIds, mappings : Seq(MappingIds)]
--------------------------------------------------------------------------------
(* Reading.                                                                *)

Due(table) == pending # <<>> /\ Head(pending).table = table

GoOn(reads) == pending' = reads \o Tail(pending)

(* The first blocker ends the resolution.                                  *)
Unresolved(code) ==
  /\ blocked' = code
  /\ pending' = <<>>
  /\ UNCHANGED <<chain, partials>>

NewestFirst(ids) ==
  [k \in 1..Cardinality(ids) |->
     CHOOSE m \in ids : Cardinality({n \in ids : n > m}) = k - 1]

(* The readers answer with what the resolver looks at of a row of the      *)
(* tenant.  They catch whatever a read raises and then answer as if there  *)
(* was nothing.                                                            *)
Reader(found) == {found, {}}

(* The dataset of a query.                                                 *)
QueryReader(id) ==
  Reader({query.dataset : query \in Found(catalog, "query", id)})

DatasetReader(id) ==
  Reader({[id |-> id, key |-> dataset.key, connection |-> dataset.connection] :
            dataset \in Found(catalog, "dataset", id)})

(* The mappings of a dataset key, whatever their status is, newest first.  *)
MappingReader(key) ==
  LET ids == FoundMappings(catalog, key)
  IN Reader(IF ids = {} THEN {} ELSE {NewestFirst(ids)})

(* Defect: by its identifier alone.                                        *)
ConnectionReaderAnywhere(id) ==
  Reader({[id |-> id, protected |-> connection.protected] :
            connection \in FoundAnywhere(catalog, "connection", id)})

(* Whether it asks for authentication; no reference to a credential.       *)
ConnectionReader(id) ==
  Reader({[id |-> id, protected |-> connection.protected] :
            connection \in Found(catalog, "connection", id)})

(* The queries of the widgets.                                             *)
DashboardReader(id) ==
  Reader({WidgetReads(dashboard.widgets) :
            dashboard \in Found(catalog, "dashboard", id)})

(* The query, the dashboard, and what the blocks refer to.                 *)
ReportReader(id) ==
  Reader({ReportReads(report) : report \in Found(catalog, "report", id)})

(* What is due is read.  Nothing there ends the resolution.                *)
ReadDue(task, Answers(_), code, Use(_)) ==
  /\ Due(task)
  /\ LET answers == Answers(Head(pending).id)
     IN \E answer \in answers :
          /\ failed' = (failed \/ (answer = {} /\ answers # {{}}))
          /\ IF answer = {} THEN Unresolved(code) ELSE \E x \in answer : Use(x)
--------------------------------------------------------------------------------
(* The chain of a query.                                                   *)

LookUpQuery ==
  LET Use(dataset) == GoOn(<<>>) /\ UNCHANGED <<chain, partials, blocked>>
  IN ReadDue("lookup", QueryReader, "query_definition_missing", Use)

ResolveQuery ==
  LET Use(dataset) ==
        /\ chain' = [NoChain EXCEPT !.query = Head(pending).id]
        /\ GoOn(<<Read("dataset", dataset)>>)
        /\ UNCHANGED <<partials, blocked>>
  IN ReadDue("query", QueryReader, "query_definition_missing", Use)

ResolveDataset ==
  LET Use(dataset) ==
        /\ chain' = [chain EXCEPT !.dataset = dataset.id,
                                  !.connection = dataset.connection]
        /\ GoOn(<<Read("mapping", dataset.key)>>)
        /\ UNCHANGED <<partials, blocked>>
  IN ReadDue("dataset", DatasetReader, "dataset_missing", Use)

(* Defect: the connection of the newest mapping, if it has one.            *)
ConnectionOfNewest(cat, own, mappings) ==
  IF own # None THEN own ELSE cat.mapping[mappings[1]].connection

(* dataset.connectionId, or that of the first mapping that has one.        *)
ConnectionOf(cat, own, mappings) ==
  LET offers == {i \in DOMAIN mappings : cat.mapping[mappings[i]].connection # None}
  IN IF own # None THEN own
     ELSE IF offers = {} THEN None ELSE cat.mapping[mappings[Min(offers)]].connection

ResolveMappings ==
  LET Use(mappings) ==
        LET connection == ConnectionOf(catalog, chain.connection, mappings)
        IN IF connection = None
           THEN Unresolved("connection_missing")
           ELSE /\ chain' = [chain EXCEPT !.mappings = mappings,
                                          !.connection = connection]
                /\ GoOn(<<Read("connection", connection)>>)
                /\ UNCHANGED <<partials, blocked>>
  IN ReadDue("mapping", MappingReader, "field_mappings_missing", Use)

ChainBundle ==
  [queries |-> <<chain.query>>, dashboards |-> <<>>, reports |-> <<>>,
   dataset |-> chain.dataset, connection |-> chain.connection,
   mappings |-> chain.mappings]

(* There is never a reference; so it is missing wherever one is required.  *)
CredentialMissing(connection) == connection.protected

ResolveConnection ==
  LET Use(connection) ==
        IF CredentialMissing(connection)
        THEN Unresolved("credential_ref_missing")
        ELSE /\ partials' = Append(partials, ChainBundle)
             /\ chain' = NoChain
             /\ GoOn(<<>>)
             /\ UNCHANGED blocked
  IN ReadDue("connection", ConnectionReader, "connection_missing", Use)
--------------------------------------------------------------------------------
(* Dashboards and reports.                                                 *)

(* The references are resolved one after another and merged at the end.    *)
ResolveAll(owner, reads, code) ==
  IF reads = <<>>
  THEN Unresolved(code)
  ELSE /\ GoOn(Append(reads, Merge(owner, Len(reads))))
       /\ UNCHANGED <<chain, partials, blocked>>

ResolveDashboard ==
  LET Use(reads) == ResolveAll(Head(pending), reads, "query_definition_missing")
  IN ReadDue("dashboard", DashboardReader, "dashboard_definition_missing", Use)

ResolveReport ==
  LET Use(reads) == ResolveAll(Head(pending), reads, "report_definition_missing")
  IN ReadDue("report", ReportReader, "report_definition_missing", Use)

(* What the bundles have at field, each once.                              *)
United(bundles, field) == Unique([i \in DOMAIN bundles |-> bundles[i][field]])

(* Defect: all but the lists from the last bundle.                         *)
MergedLast(bundles) ==
  [Last(bundles) EXCEPT !.queries = United(bundles, "queries"),
                        !.dashboards = United(bundles, "dashboards"),
                        !.reports = United(bundles, "reports"),
                        !.mappings = United(bundles, "mappings")]

(* What bundles of one source become; all but the lists is the first's.    *)
Merged(bundles) ==
  [Head(bundles) EXCEPT !.queries = United(bundles, "queries"),
                        !.dashboards = United(bundles, "dashboards"),
                        !.reports = United(bundles, "reports"),
                        !.mappings = United(bundles, "mappings")]

(* sourceKeys.size is not above 1.                                         *)
OneSource(bundles) ==
  \A i, j \in DOMAIN bundles : bundles[i].connection = bundles[j].connection

Owned(bundle, owner) ==
  IF owner.table = "dashboard"
  THEN [bundle EXCEPT !.dashboards = Unique(<<@, <<owner.id>>>>)]
  ELSE [bundle EXCEPT !.reports = Unique(<<@, <<owner.id>>>>)]

MergePartials ==
  /\ Due("merge")
  /\ LET kept == Len(partials) - Head(pending).count
         bundles == SubSeq(partials, kept + 1, Len(partials))
     IN IF OneSource(bundles)
        THEN /\ partials' = Append(SubSeq(partials, 1, kept),
                                   Owned(Merged(bundles), Head(pending).id))
             /\ GoOn(<<>>)
             /\ UNCHANGED <<chain, blocked>>
        ELSE Unresolved("multiple_sources_not_supported")
  /\ UNCHANGED failed

Resolve ==
  LookUpQuery \/ ResolveQuery \/ ResolveDataset \/ ResolveMappings
  \/ ResolveConnection \/ ResolveDashboard \/ ResolveReport \/ MergePartials

ResolverTypeOK ==
  /\ \A i \in DOMAIN pending :
       \/ pending[i] \in Task
       \/ pending[i] \in [table : {"lookup"}, id : QueryIds]
       \/ pending[i] \in [table : {"connection"}, id : ConnectionIds]
       \/ pending[i] \in [table : {"merge"}, id : Definitions, count : Nat \ {0}]
  /\ chain.query \in OptionalQuery
  /\ partials \in Seq(Bundle)
  /\ blocked \in ReferenceBlockers \union {None}
  /\ failed \in BOOLEAN
================================================================================
