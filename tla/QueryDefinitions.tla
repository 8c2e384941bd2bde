--------------------------- MODULE QueryDefinitions ---------------------------
(***************************************************************************)
(* QueryDefinitionsService: a query belongs to one dataset, of any tenant as*)
(* far as the foreign key is concerned.                                    *)
(***************************************************************************)
EXTENDS CatalogTable

QueryDefinitionDto ==
  [required |-> {"key", "dataset", "body"}, optional |-> {"status"}]

QueryDefinitionRoutes ==
  [create |-> Editors, update |-> Editors,
   archive |-> Editors, list |-> {}, find |-> {}]

QueryDefinitionTable == [
  name |-> "query_definitions", scoped |-> TRUE, audited |-> TRUE,
  defaults |-> [tenant |-> Null, key |-> Null, dataset |-> Null,
               status |-> "draft", body |-> Null],
  nullable |-> {},
  unique |-> {"tenant", "key"}, uuids |-> {"tenant", "dataset"},
  references |-> [tenant |-> "tenants", dataset |-> "datasets"],
  dto |-> QueryDefinitionDto, routes |-> QueryDefinitionRoutes]

(* handlePersistenceError: a unique violation is told as a conflict.       *)
QueryDefinitionErrors ==
  [v \in Violations |-> IF v = "unique" THEN "conflict" ELSE "error"]

InsertQueryDefinition(c, r) ==
  Insert(c, QueryDefinitionTable, r, QueryDefinitionErrors)

CreateQueryDefinition(c) ==
  \E r \in Received(c, QueryDefinitionTable, "create") :
    InsertQueryDefinition(c, r)

UpdateQueryDefinitionRow(c, op, r, set, errors) ==
  UpdateRow(c, QueryDefinitionTable, op, r, set, errors)

UpdateQueryDefinition(c) ==
  \E r \in Received(c, QueryDefinitionTable, "update") :
    UpdateQueryDefinitionRow(c, "update", r, r.request.set,
                             QueryDefinitionErrors)

ArchiveQueryDefinitionRow(c, r) ==
  UpdateQueryDefinitionRow(c, "archive", r, [status |-> "archived"], RawErrors)

ArchiveQueryDefinition(c) ==
  \E r \in Received(c, QueryDefinitionTable, "archive") :
    ArchiveQueryDefinitionRow(c, r)

SelectQueryDefinition(c, r) == SelectRow(c, QueryDefinitionTable, r)

FindQueryDefinition(c) ==
  \E r \in Received(c, QueryDefinitionTable, "find") :
    SelectQueryDefinition(c, r)

SelectQueryDefinitionPage(c) == SelectPage(c, QueryDefinitionTable)

CountQueryDefinitions(c) == CountRows(c, QueryDefinitionTable)

FindQueryDefinitions(c) ==
  \/ \E r \in Received(c, QueryDefinitionTable, "list") :
       BeginListing(c, QueryDefinitionTable, r)
  \/ SelectQueryDefinitionPage(c)
  \/ CountQueryDefinitions(c)

RecordQueryDefinitionAudit(c) == RecordAudit(c, QueryDefinitionTable)

QueryDefinitionCall(c) ==
  \/ CreateQueryDefinition(c) \/ UpdateQueryDefinition(c)
  \/ ArchiveQueryDefinition(c)
  \/ FindQueryDefinition(c) \/ FindQueryDefinitions(c)
  \/ RecordQueryDefinitionAudit(c)
  \/ Refuse(c, QueryDefinitionTable)
===============================================================================
