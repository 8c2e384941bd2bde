-------------------------- MODULE ReportDefinitions --------------------------
(***************************************************************************)
(* ReportDefinitionsService: the query and the dashboard of a report are   *)
(* logical references, uuid columns without a foreign key.                 *)
(***************************************************************************)
EXTENDS CatalogTable

ReportDefinitionDto ==
  [required |-> {"key", "body"},
   optional |-> {"query", "dashboard", "status"}]

ReportDefinitionRoutes ==
  [create |-> Editors, update |-> Editors,
   archive |-> Editors, list |-> {}, find |-> {}]

ReportDefinitionTable == [
  name |-> "report_definitions", scoped |-> TRUE, audited |-> TRUE,
  defaults |-> [tenant |-> Null, key |-> Null, query |-> Null, dashboard |-> Null,
               status |-> "draft", body |-> Null],
  nullable |-> {"query", "dashboard"},
  unique |-> {"tenant", "key"}, uuids |-> {"tenant", "query", "dashboard"},
  references |-> [tenant |-> "tenants"],
  dto |-> ReportDefinitionDto, routes |-> ReportDefinitionRoutes]

(* handlePersistenceError: a unique violation is told as a conflict.       *)
ReportDefinitionErrors ==
  [v \in Violations |-> IF v = "unique" THEN "conflict" ELSE "error"]

InsertReportDefinition(c, r) ==
  Insert(c, ReportDefinitionTable, r, ReportDefinitionErrors)

CreateReportDefinition(c) ==
  \E r \in Received(c, ReportDefinitionTable, "create") :
    InsertReportDefinition(c, r)

UpdateReportDefinitionRow(c, op, r, set, errors) ==
  UpdateRow(c, ReportDefinitionTable, op, r, set, errors)

UpdateReportDefinition(c) ==
  \E r \in Received(c, ReportDefinitionTable, "update") :
    UpdateReportDefinitionRow(c, "update", r, r.request.set,
                              ReportDefinitionErrors)

ArchiveReportDefinitionRow(c, r) ==
  UpdateReportDefinitionRow(c, "archive", r, [status |-> "archived"],
                            RawErrors)

ArchiveReportDefinition(c) ==
  \E r \in Received(c, ReportDefinitionTable, "archive") :
    ArchiveReportDefinitionRow(c, r)

SelectReportDefinition(c, r) == SelectRow(c, ReportDefinitionTable, r)

FindReportDefinition(c) ==
  \E r \in Received(c, ReportDefinitionTable, "find") :
    SelectReportDefinition(c, r)

SelectReportDefinitionPage(c) == SelectPage(c, ReportDefinitionTable)

CountReportDefinitions(c) == CountRows(c, ReportDefinitionTable)

FindReportDefinitions(c) ==
  \/ \E r \in Received(c, ReportDefinitionTable, "list") :
       BeginListing(c, ReportDefinitionTable, r)
  \/ SelectReportDefinitionPage(c)
  \/ CountReportDefinitions(c)

RecordReportDefinitionAudit(c) == RecordAudit(c, ReportDefinitionTable)

ReportDefinitionCall(c) ==
  \/ CreateReportDefinition(c) \/ UpdateReportDefinition(c)
  \/ ArchiveReportDefinition(c)
  \/ FindReportDefinition(c) \/ FindReportDefinitions(c)
  \/ RecordReportDefinitionAudit(c)
  \/ Refuse(c, ReportDefinitionTable)
===============================================================================
