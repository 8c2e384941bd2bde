------------------------------- MODULE Datasets -------------------------------
(***************************************************************************)
(* DatasetsService: the logical datasets of a tenant, each perhaps on a    *)
(* connection.  The foreign key does not look at the connection's tenant.  *)
(***************************************************************************)
EXTENDS CatalogTable

DatasetDto ==
  [required |-> {"key", "body"}, optional |-> {"connection", "status"}]

DatasetRoutes ==
  [create |-> Editors, update |-> Editors,
   archive |-> Editors, list |-> {}, find |-> {}]

DatasetTable == [
  name |-> "datasets", scoped |-> TRUE, audited |-> TRUE,
  defaults |-> [tenant |-> Null, key |-> Null, connection |-> Null,
               status |-> "draft", body |-> Null],
  nullable |-> {"connection"},
  unique |-> {"tenant", "key"}, uuids |-> {"tenant", "connection"},
  references |-> [tenant |-> "tenants", connection |-> "connections"],
  dto |-> DatasetDto, routes |-> DatasetRoutes]

(* Defect: every error is.                                                 *)
ConflictAlways == [v \in Violations |-> "conflict"]

(* handlePersistenceError: a unique violation is told as a conflict.       *)
DatasetErrors ==
  [v \in Violations |-> IF v = "unique" THEN "conflict" ELSE "error"]

InsertDataset(c, r) == Insert(c, DatasetTable, r, DatasetErrors)

CreateDataset(c) ==
  \E r \in Received(c, DatasetTable, "create") : InsertDataset(c, r)

UpdateDatasetRow(c, op, r, set, errors) ==
  UpdateRow(c, DatasetTable, op, r, set, errors)

UpdateDataset(c) ==
  \E r \in Received(c, DatasetTable, "update") :
    UpdateDatasetRow(c, "update", r, r.request.set, DatasetErrors)

ArchiveDatasetRow(c, r) ==
  UpdateDatasetRow(c, "archive", r, [status |-> "archived"], RawErrors)

ArchiveDataset(c) ==
  \E r \in Received(c, DatasetTable, "archive") : ArchiveDatasetRow(c, r)

SelectDataset(c, r) == SelectRow(c, DatasetTable, r)

FindDataset(c) ==
  \E r \in Received(c, DatasetTable, "find") : SelectDataset(c, r)

SelectDatasetPage(c) == SelectPage(c, DatasetTable)

CountDatasets(c) == CountRows(c, DatasetTable)

FindDatasets(c) ==
  \/ \E r \in Received(c, DatasetTable, "list") :
       BeginListing(c, DatasetTable, r)
  \/ SelectDatasetPage(c)
  \/ CountDatasets(c)

RecordDatasetAudit(c) == RecordAudit(c, DatasetTable)

DatasetCall(c) ==
  \/ CreateDataset(c) \/ UpdateDataset(c) \/ ArchiveDataset(c)
  \/ FindDataset(c) \/ FindDatasets(c) \/ RecordDatasetAudit(c)
  \/ Refuse(c, DatasetTable)
===============================================================================
