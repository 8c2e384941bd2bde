----------------------------- MODULE Connections -----------------------------
(***************************************************************************)
(* ConnectionsService: the external sources of a tenant; the key is the    *)
(* name.  The credential reference is free text without a constraint.  A   *)
(* taken name is not told as a conflict: no handler maps the error.        *)
(***************************************************************************)
EXTENDS CatalogTable

ConnectionDto == [required |-> {"key", "body"}, optional |-> {"status"}]

ConnectionRoutes ==
  [create |-> Editors, update |-> Editors, list |-> {}, find |-> {}]

ConnectionTable == [
  name |-> "connections", scoped |-> TRUE, audited |-> TRUE,
  defaults |-> [tenant |-> Null, key |-> Null,
               status |-> "draft", body |-> Null],
  nullable |-> {}, unique |-> {"tenant", "key"}, uuids |-> {"tenant"},
  references |-> [tenant |-> "tenants"],
  dto |-> ConnectionDto, routes |-> ConnectionRoutes]

InsertConnection(c, r) == Insert(c, ConnectionTable, r, RawErrors)

CreateConnection(c) ==
  \E r \in Received(c, ConnectionTable, "create") : InsertConnection(c, r)

UpdateConnectionRow(c, op, r, set, errors) ==
  UpdateRow(c, ConnectionTable, op, r, set, errors)

UpdateConnection(c) ==
  \E r \in Received(c, ConnectionTable, "update") :
    UpdateConnectionRow(c, "update", r, r.request.set, RawErrors)

SelectConnection(c, r) == SelectRow(c, ConnectionTable, r)

FindConnection(c) ==
  \E r \in Received(c, ConnectionTable, "find") : SelectConnection(c, r)

SelectConnectionPage(c) == SelectPage(c, ConnectionTable)

CountConnections(c) == CountRows(c, ConnectionTable)

FindConnections(c) ==
  \/ \E r \in Received(c, ConnectionTable, "list") :
       BeginListing(c, ConnectionTable, r)
  \/ SelectConnectionPage(c)
  \/ CountConnections(c)

RecordConnectionAudit(c) == RecordAudit(c, ConnectionTable)

ConnectionCall(c) ==
  \/ CreateConnection(c) \/ UpdateConnection(c)
  \/ FindConnection(c) \/ FindConnections(c) \/ RecordConnectionAudit(c)
  \/ Refuse(c, ConnectionTable)
===============================================================================
