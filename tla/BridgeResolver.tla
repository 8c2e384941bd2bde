----------------------------- MODULE BridgeResolver -----------------------------
(***************************************************************************)
(* RuntimeConnectorBridgeResolver.prepareCommand: the execution request is *)
(* read, judged by the readiness evaluation, its references are resolved,  *)
(* and what is left is put into a command and validated.  The catalog is   *)
(* read twice, by the evaluation and by the reference resolver, and other  *)
(* calls edit it all the while.                                            *)
(***************************************************************************)
EXTENDS ReferenceResolver

VARIABLES
  stage,    \* the part of prepareCommand under way
  verdict,  \* the code of its result
  command   \* the command of its result, prepared or found invalid

bridgeVars == <<stage, verdict, command>>
vars == <<readinessVars, resolverVars, bridgeVars>>

Codes == {"execution_request_not_found", "readiness_blocked",
          "references_blocked", "command_validation_failed", "command_prepared"}

Modes == {"dry_run", "demo", "future_runtime"}

Commands ==
  [query : QueryIds, dashboard : OptionalDashboard, report : ReportIds \union {None},
   dataset : DatasetIds, connection : ConnectionIds, mapping : MappingIds,
   capability : {"validate_mapping", "execute_query_preview",
                 "refresh_dashboard_data", "generate_report_preview"},
   mode : {"dry_run", "demo", "preview"}]

ASSUME CodesAssumption ==
  None \notin Codes /\ None \notin ReferenceBlockers /\ None \notin Commands

Init ==
  /\ ReadinessInit
  /\ ResolverInit
  /\ stage = "request"
  /\ verdict = None
  /\ command = None

Become(s) == stage' = s

Conclude(code) == verdict' = code /\ Become("concluded")
---------------------------------------------------------------------------------
(* Reading and judging.                                                    *)

(* The request asks for asked, if the tenant has it at all; what a request *)
(* refers to never changes.                                                *)
ReadRequest ==
  /\ stage = "request"
  /\ \/ Conclude("execution_request_not_found")
     \/ Become("readiness") /\ UNCHANGED verdict
  /\ UNCHANGED <<readinessVars, resolverVars, command>>

EvaluateReadiness ==
  /\ stage = "readiness"
  /\ Evaluate
  /\ UNCHANGED <<resolverVars, bridgeVars>>

(* Defect: what the resolution of the references raises is not caught.     *)
FailReadAnywhere ==
  /\ \/ stage = "request"
     \/ stage = "readiness" /\ todo # <<>>
     \/ stage = "references" /\ pending # <<>>
  /\ Become("threw")
  /\ failed' = TRUE
  /\ UNCHANGED <<readinessVars, pending, chain, partials, blocked,
                 verdict, command>>

(* Before the references, what a read raises is not caught.                *)
FailRead ==
  /\ stage = "request" \/ (stage = "readiness" /\ todo # <<>>)
  /\ Become("threw")
  /\ failed' = TRUE
  /\ UNCHANGED <<readinessVars, pending, chain, partials, blocked,
                 verdict, command>>

(* Defect: warnings and blockers alike are left to the connector.          *)
JudgeReadinessAlways ==
  /\ stage = "readiness"
  /\ todo = <<>>
  /\ pending' = RootReads(asked)
  /\ Become("references")
  /\ UNCHANGED <<readinessVars, chain, partials, blocked, failed,
                 verdict, command>>

JudgeReadiness ==
  /\ stage = "readiness"
  /\ todo = <<>>
  /\ IF blockers # {}
     THEN Conclude("readiness_blocked") /\ UNCHANGED pending
     ELSE /\ pending' = RootReads(asked)
          /\ Become("references")
          /\ UNCHANGED verdict
  /\ UNCHANGED <<readinessVars, chain, partials, blocked, failed, command>>

ResolveReferences ==
  /\ stage = "references"
  /\ Resolve
  /\ UNCHANGED <<readinessVars, bridgeVars>>

BlockOnReferences ==
  /\ stage = "references"
  /\ blocked # None
  /\ Conclude("references_blocked")
  /\ UNCHANGED <<readinessVars, resolverVars, command>>
---------------------------------------------------------------------------------
(* The command.                                                            *)

Capability(kind, mode) ==
  IF mode = "dry_run" THEN "validate_mapping"
  ELSE CASE kind = "query" -> "execute_query_preview"
         [] kind = "dashboard" -> "refresh_dashboard_data"
         [] kind = "report" -> "generate_report_preview"

ConnectorMode(mode) == IF mode = "future_runtime" THEN "preview" ELSE mode

(* references.xId ?? executionRequest.xId                                  *)
FirstOf(resolved, own) == IF resolved = <<>> THEN own ELSE resolved[1]

(* own: the dashboard and the report that the request carries, asked for   *)
(* or not.                                                                 *)
BuildCommand(bundle, own, mode) ==
  [query |-> bundle.queries[1],
   dashboard |-> FirstOf(bundle.dashboards, own.dashboard),
   report |-> FirstOf(bundle.reports, own.report),
   dataset |-> bundle.dataset, connection |-> bundle.connection,
   mapping |-> bundle.mappings[1],
   capability |-> Capability(asked.table, mode), mode |-> ConnectorMode(mode)]

(* What may be wrong with a command: an empty requestId or correlationId   *)
(* from the caller of prepare, or a text of its metadata that became       *)
(* suspicious where it was cut off.                                        *)
ValidateCommand(valid) ==
  Conclude(IF valid THEN "command_prepared" ELSE "command_validation_failed")

(* No await separates the end of the resolution from that of the call.     *)
PrepareCommand ==
  /\ stage = "references"
  /\ pending = <<>> /\ blocked = None
  /\ \E own \in [dashboard : OptionalDashboard, report : ReportIds \union {None}],
        mode \in Modes, valid \in BOOLEAN :
       /\ command' = BuildCommand(partials[1], own, mode)
       /\ ValidateCommand(valid)
  /\ UNCHANGED <<readinessVars, resolverVars>>

Step ==
  ReadRequest \/ EvaluateReadiness \/ JudgeReadiness \/ ResolveReferences
  \/ BlockOnReferences \/ PrepareCommand

EditCatalog ==
  /\ stage \notin {"concluded", "threw"}
  /\ Edit
  /\ UNCHANGED <<resolverVars, bridgeVars>>

Next == Step \/ FailRead \/ EditCatalog

Spec == Init /\ [][Next]_vars

(* Every read is answered or fails; nobody has to edit anything.           *)
FairSpec == Spec /\ WF_vars(Step)
---------------------------------------------------------------------------------
(* Properties.                                                             *)

Concluded == stage = "concluded"
Resolved == Concluded /\ command # None

BridgeTypeOK ==
  /\ ReadinessTypeOK
  /\ ResolverTypeOK
  /\ stage \in {"request", "readiness", "references", "concluded", "threw"}
  /\ verdict \in Codes \union {None}
  /\ command \in Commands \union {None}
  /\ Concluded <=> (verdict # None)
  /\ (command # None) <=>
       (verdict \in {"command_validation_failed", "command_prepared"})
  /\ command # None => Len(partials) = 1

(* The connection that a dataset's chain comes to in a catalog.            *)
SourceOf(cat, d) ==
  LET row == cat.dataset[d]
      page == FoundMappings(cat, row.key)
      offers == {m \in page : cat.mapping[m].connection # None}
  IN IF row.connection # None THEN row.connection
     ELSE IF offers = {} THEN None
     ELSE LET newest == CHOOSE m \in offers : \A n \in offers : m >= n
          IN cat.mapping[newest].connection

Sources(cat, d) ==
  {SourceOf(cat, q.dataset) : q \in Here(cat, "query", ReachedQueries(cat, d))}

(* What is wrong with the sources of a definition that is ready.           *)
SourceProblems(cat, d) ==
  LET sources == Sources(cat, d)
      open == Here(cat, "connection", sources \ {None})
  IN Code(None \in sources \/ Gone(cat, "connection", sources \ {None}),
          "connection_missing")
     \union Code(\E c \in open : c.protected, "credential_ref_missing")
     \union Code(Cardinality(sources) > 1, "multiple_sources_not_supported")

(* Left alone, and with a database that answers, the bridge prepares a     *)
(* command exactly if the definition is ready and all queries it reaches,  *)
(* at whatever depth, have one open connection of the tenant in common;    *)
(* what it names as a blocker is there; and the references it resolved are *)
(* all of the definition's, none twice.  Whether anything of it is active  *)
(* decides nothing, as OnlyActivePrepared shows.                           *)
ResolutionMatchesCatalog ==
  (Concluded /\ edits = 0 /\ ~failed /\ verdict # "execution_request_not_found") =>
    LET problems == SourceProblems(catalog, asked)
        ready == Blocking(catalog, asked) = {}
        bundle == partials[1]
        queries == ReachedQueries(catalog, asked)
        keys == {catalog.dataset[catalog.query[q].dataset].key : q \in queries}
    IN /\ Resolved <=> (ready /\ problems = {})
       /\ verdict = "references_blocked" => ready /\ blocked \in problems
       /\ Resolved =>
            /\ ToSet(bundle.queries) = queries
            /\ ToSet(bundle.dashboards) = ReachedDashboards(catalog, asked)
            /\ ToSet(bundle.mappings) =
                 UNION {FoundMappings(catalog, k) : k \in keys}
            /\ IsInjective(bundle.queries) /\ IsInjective(bundle.mappings)

(* Whatever is edited meanwhile, every row that was resolved is the        *)
(* tenant's.  An identifier of a dashboard or report that the request      *)
(* carries without asking for it is copied into the command unread.        *)
CommandStaysInTenant ==
  Resolved =>
    LET bundle == partials[1]
        Own(table, ids) == \A id \in ids :
          /\ catalog[table][id] # None
          /\ catalog[table][id].tenant = Tenant
    IN /\ Own("query", ToSet(bundle.queries))
       /\ Own("dashboard", ToSet(bundle.dashboards))
       /\ Own("report", ToSet(bundle.reports))
       /\ Own("dataset", {command.dataset})
       /\ Own("connection", {command.connection})
       /\ Own("mapping", ToSet(bundle.mappings))
       /\ command[asked.table] = asked.id

(* The parts of a command belong together, though each was read at another *)
(* moment: while no reference is changed, its dataset is that of the query *)
(* it names, its mapping is of that dataset's key, and every query that it *)
(* stands for may take its data from its connection.                       *)
PartsBelongTogether ==
  (Resolved /\ ~repointed) =>
    LET named == catalog.dataset[command.dataset]
        Offers(d) ==
          IF d.connection # None THEN {d.connection}
          ELSE {catalog.mapping[m].connection :
                  m \in {n \in MappingIds : /\ Found(catalog, "mapping", n) # {}
                                            /\ catalog.mapping[n].key = d.key}}
    IN /\ catalog.query[command.query].dataset = command.dataset
       /\ catalog.mapping[command.mapping].key = named.key
       /\ \A q \in ToSet(partials[1].queries) :
            command.connection \in Offers(catalog.dataset[catalog.query[q].dataset])

(* What blocks a command was there: while only definitions are created and *)
(* statuses change, a reference that the evaluation has just found cannot  *)
(* be missing, unless a read failed.                                       *)
ReadyStaysReady ==
  (Concluded /\ verdict = "references_blocked" /\ ~repointed /\ ~failed) =>
    blocked \in {"connection_missing", "credential_ref_missing",
                 "multiple_sources_not_supported"}

(* The status of the one event that a result comes with.                   *)
EventStatus ==
  CASE verdict = None -> None
    [] verdict = "command_prepared" -> "accepted"
    [] verdict = "command_validation_failed" -> "failed"
    [] OTHER -> "blocked"

Contract ==
  INSTANCE ResolverContract
    WITH phase <- IF stage = "request" THEN "find" ELSE stage,
         status <- EventStatus

(* prepareCommand keeps the contract that prepare is built on, whichever   *)
(* read fails: a readiness blocker ends it, and from the resolution of the *)
(* references on there is always a result (resolveReferences catches all). *)
KeepsContract == Contract!Spec

(* Whatever is edited meanwhile, prepareCommand comes to an end.           *)
BridgeEnds == <>(stage \in {"concluded", "threw"})

---------------------------------------------------------------------------------
(* What the documents say and the code does not do.                        *)

(* prepareCommand is more conservative than the evaluation of readiness: a *)
(* query, a dataset or a mapping that is not active blocks the command or, *)
(* if it is a mapping, is left out of it.                                  *)
OnlyActivePrepared ==
  (verdict = "command_prepared" /\ edits = 0) =>
    LET bundle == partials[1]
    IN /\ \A q \in ToSet(bundle.queries) : catalog.query[q].active
       /\ catalog.dataset[command.dataset].active
       /\ \A m \in ToSet(bundle.mappings) : catalog.mapping[m].active
=================================================================================
