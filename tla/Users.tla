-------------------------------- MODULE Users --------------------------------
(***************************************************************************)
(* UsersService: the key is the e-mail address.  Nothing is recorded in    *)
(* the audit log.                                                          *)
(***************************************************************************)
EXTENDS CatalogTable

UserDto == [required |-> {"key", "body"}, optional |-> {"status"}]

UserRoutes == [create |-> Editors, update |-> Editors, list |-> {}]

UserTable == [
  name |-> "users", scoped |-> TRUE, audited |-> FALSE,
  defaults |-> [tenant |-> Null, key |-> Null,
               status |-> "invited", body |-> Null],
  nullable |-> {}, unique |-> {"tenant", "key"}, uuids |-> {"tenant"},
  references |-> [tenant |-> "tenants"],
  dto |-> UserDto, routes |-> UserRoutes]

InsertUser(c, r) == Insert(c, UserTable, r, RawErrors)

CreateUser(c) ==
  \E r \in Received(c, UserTable, "create") : InsertUser(c, r)

UpdateUserRow(c, op, r, set, errors) ==
  UpdateRow(c, UserTable, op, r, set, errors)

UpdateUser(c) ==
  \E r \in Received(c, UserTable, "update") :
    UpdateUserRow(c, "update", r, r.request.set, RawErrors)

SelectUserPage(c) == SelectPage(c, UserTable)

CountUsers(c) == CountRows(c, UserTable)

FindUsers(c) ==
  \/ \E r \in Received(c, UserTable, "list") :
       BeginListing(c, UserTable, r)
  \/ SelectUserPage(c)
  \/ CountUsers(c)

UserCall(c) ==
  \/ CreateUser(c) \/ UpdateUser(c)
  \/ FindUsers(c) \/ Refuse(c, UserTable)
===============================================================================
