------------------------- MODULE DashboardDefinitions -------------------------
(***************************************************************************)
(* DashboardDefinitionsService: the widgets and the queries they name are one*)
(* jsonb value, part of the body.                                          *)
(***************************************************************************)
EXTENDS CatalogTable

DashboardDefinitionDto ==
  [required |-> {"key", "body"}, optional |-> {"status"}]

DashboardDefinitionRoutes ==
  [create |-> Editors, update |-> Editors,
   archive |-> Editors, list |-> {}, find |-> {}]

DashboardDefinitionTable == [
  name |-> "dashboard_definitions", scoped |-> TRUE, audited |-> TRUE,
  defaults |-> [tenant |-> Null, key |-> Null,
               status |-> "draft", body |-> Null],
  nullable |-> {}, unique |-> {"tenant", "key"}, uuids |-> {"tenant"},
  references |-> [tenant |-> "tenants"],
  dto |-> DashboardDefinitionDto, routes |-> DashboardDefinitionRoutes]

(* handlePersistenceError: a unique violation is told as a conflict.       *)
DashboardDefinitionErrors ==
  [v \in Violations |-> IF v = "unique" THEN "conflict" ELSE "error"]

InsertDashboardDefinition(c, r) ==
  Insert(c, DashboardDefinitionTable, r, DashboardDefinitionErrors)

CreateDashboardDefinition(c) ==
  \E r \in Received(c, DashboardDefinitionTable, "create") :
    InsertDashboardDefinition(c, r)

UpdateDashboardDefinitionRow(c, op, r, set, errors) ==
  UpdateRow(c, DashboardDefinitionTable, op, r, set, errors)

UpdateDashboardDefinition(c) ==
  \E r \in Received(c, DashboardDefinitionTable, "update") :
    UpdateDashboardDefinitionRow(c, "update", r, r.request.set,
                                 DashboardDefinitionErrors)

ArchiveDashboardDefinitionRow(c, r) ==
  UpdateDashboardDefinitionRow(c, "archive", r, [status |-> "archived"],
                               RawErrors)

ArchiveDashboardDefinition(c) ==
  \E r \in Received(c, DashboardDefinitionTable, "archive") :
    ArchiveDashboardDefinitionRow(c, r)

SelectDashboardDefinition(c, r) == SelectRow(c, DashboardDefinitionTable, r)

FindDashboardDefinition(c) ==
  \E r \in Received(c, DashboardDefinitionTable, "find") :
    SelectDashboardDefinition(c, r)

SelectDashboardDefinitionPage(c) == SelectPage(c, DashboardDefinitionTable)

CountDashboardDefinitions(c) == CountRows(c, DashboardDefinitionTable)

FindDashboardDefinitions(c) ==
  \/ \E r \in Received(c, DashboardDefinitionTable, "list") :
       BeginListing(c, DashboardDefinitionTable, r)
  \/ SelectDashboardDefinitionPage(c)
  \/ CountDashboardDefinitions(c)

RecordDashboardDefinitionAudit(c) == RecordAudit(c, DashboardDefinitionTable)

DashboardDefinitionCall(c) ==
  \/ CreateDashboardDefinition(c) \/ UpdateDashboardDefinition(c)
  \/ ArchiveDashboardDefinition(c)
  \/ FindDashboardDefinition(c) \/ FindDashboardDefinitions(c)
  \/ RecordDashboardDefinitionAudit(c)
  \/ Refuse(c, DashboardDefinitionTable)
===============================================================================
