--------------------------- MODULE TenantDirectory ---------------------------
(***************************************************************************)
(* TenantsService: the tenants themselves, the only table without a tenant *)
(* column; the key is the slug.  Nothing is recorded in the audit log.     *)
(***************************************************************************)
EXTENDS CatalogTable

TenantDto == [required |-> {"key", "body"}, optional |-> {"status"}]

TenantRoutes ==
  [create |-> Editors, update |-> Editors, list |-> {}, find |-> {}]

TenantTable == [
  name |-> "tenants", scoped |-> FALSE, audited |-> FALSE,
  defaults |-> [key |-> Null, status |-> "active", body |-> Null],
  nullable |-> {}, unique |-> {"key"}, uuids |-> {},
  references |-> [col \in {} |-> "none"],
  dto |-> TenantDto, routes |-> TenantRoutes]

InsertTenant(c, r) == Insert(c, TenantTable, r, RawErrors)

CreateTenant(c) ==
  \E r \in Received(c, TenantTable, "create") : InsertTenant(c, r)

UpdateTenantRow(c, op, r, set, errors) ==
  UpdateRow(c, TenantTable, op, r, set, errors)

UpdateTenant(c) ==
  \E r \in Received(c, TenantTable, "update") :
    UpdateTenantRow(c, "update", r, r.request.set, RawErrors)

SelectTenant(c, r) == SelectRow(c, TenantTable, r)

FindTenant(c) == \E r \in Received(c, TenantTable, "find") : SelectTenant(c, r)

SelectTenantPage(c) == SelectPage(c, TenantTable)

CountTenants(c) == CountRows(c, TenantTable)

FindTenants(c) ==
  \/ \E r \in Received(c, TenantTable, "list") :
       BeginListing(c, TenantTable, r)
  \/ SelectTenantPage(c)
  \/ CountTenants(c)

TenantCall(c) ==
  \/ CreateTenant(c) \/ UpdateTenant(c)
  \/ FindTenant(c) \/ FindTenants(c) \/ Refuse(c, TenantTable)
===============================================================================
