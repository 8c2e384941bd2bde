---------------------------- MODULE FieldMappings ----------------------------
(***************************************************************************)
(* FieldMappingsService: which source path feeds which field of a dataset. *)
(* The key stands for the pair of dataset key and target field.            *)
(***************************************************************************)
EXTENDS CatalogTable

FieldMappingDto ==
  [required |-> {"key", "body"}, optional |-> {"connection", "status"}]

FieldMappingRoutes ==
  [create |-> Editors, update |-> Editors, archive |-> Editors, list |-> {}]

FieldMappingTable == [
  name |-> "field_mappings", scoped |-> TRUE, audited |-> TRUE,
  defaults |-> [tenant |-> Null, key |-> Null, connection |-> Null,
               status |-> "active", body |-> Null],
  nullable |-> {"connection"},
  unique |-> {"tenant", "key"}, uuids |-> {"tenant", "connection"},
  references |-> [tenant |-> "tenants", connection |-> "connections"],
  dto |-> FieldMappingDto, routes |-> FieldMappingRoutes]

InsertFieldMapping(c, r) == Insert(c, FieldMappingTable, r, RawErrors)

CreateFieldMapping(c) ==
  \E r \in Received(c, FieldMappingTable, "create") : InsertFieldMapping(c, r)

UpdateFieldMappingRow(c, op, r, set, errors) ==
  UpdateRow(c, FieldMappingTable, op, r, set, errors)

UpdateFieldMapping(c) ==
  \E r \in Received(c, FieldMappingTable, "update") :
    UpdateFieldMappingRow(c, "update", r, r.request.set, RawErrors)

DeactivateFieldMappingRow(c, r) ==
  UpdateFieldMappingRow(c, "archive", r, [status |-> "inactive"], RawErrors)

DeactivateFieldMapping(c) ==
  \E r \in Received(c, FieldMappingTable, "archive") :
    DeactivateFieldMappingRow(c, r)

SelectFieldMappingPage(c) == SelectPage(c, FieldMappingTable)

CountFieldMappings(c) == CountRows(c, FieldMappingTable)

FindFieldMappings(c) ==
  \/ \E r \in Received(c, FieldMappingTable, "list") :
       BeginListing(c, FieldMappingTable, r)
  \/ SelectFieldMappingPage(c)
  \/ CountFieldMappings(c)

RecordFieldMappingAudit(c) == RecordAudit(c, FieldMappingTable)

FieldMappingCall(c) ==
  \/ CreateFieldMapping(c) \/ UpdateFieldMapping(c)
  \/ DeactivateFieldMapping(c)
  \/ FindFieldMappings(c) \/ RecordFieldMappingAudit(c)
  \/ Refuse(c, FieldMappingTable)
===============================================================================
