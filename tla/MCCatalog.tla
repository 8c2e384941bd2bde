------------------------------ MODULE MCCatalog ------------------------------
(***************************************************************************)
(* Two administrators and a reader at work on the catalogue of two tenants *)
(* that have one row each in every table.  Everything the validation, the  *)
(* constraints and the conditions of the statements tell apart occurs in a *)
(* request.                                                                *)
(***************************************************************************)
EXTENDS Catalog, TLC

MCTables == {d.name : d \in Descriptors}

CallSymmetry == Permutations(Calls)

Caller(actor, role) ==
  [key |-> "right", tenant |-> "id", actor |-> actor, role |-> role]

MCCallers ==
  {Caller("text", "operator"), Caller("objectid", "admin"),
   Caller("text", "viewer")}

Descriptor(t) == CHOOSE d \in Descriptors : d.name = t

(* Every parent of the same tenant.                                        *)
InitialRow(d, tenant, key) ==
  [col \in DOMAIN d.defaults |->
     CASE col = "tenant" -> tenant
       [] col = "key" -> key
       [] col = "body" -> "x"
       [] col = "dataset" -> tenant
       [] OTHER -> d.defaults[col]]

MCInitialRows ==
  [t \in MCTables |->
     LET d == Descriptor(t)
     IN <<InitialRow(d, 1, "a"), InitialRow(d, 2, IF d.scoped THEN "a" ELSE "b")>>]

(* set with every column that names a parent in turn set to each kind.     *)
WithParents(d, set, parents) ==
  {[col \in DOMAIN set \union {parent} |-> IF col = parent THEN id ELSE set[col]] :
     parent \in (d.uuids \ {"tenant"}), id \in parents}

Filled(d, key) ==
  [col \in d.dto.required |->
     CASE col = "key" -> key [] col = "dataset" -> 1 [] OTHER -> "x"]

Lists == {[measures |-> <<"m">>], [dimensions |-> <<"m", "m">>], [terms |-> Null]}

Created(d) ==
  {[tenant |-> 1, set |-> set] : set \in
     {Filled(d, "a"), Filled(d, "c"), [body |-> "x"]}
     \union WithParents(d, Filled(d, "c"), {1, 2, Missing, Legacy})
     \union (IF d.name # "semantic_models" THEN {}
             ELSE {Filled(d, "c") @@ lists : lists \in Lists})}
  \union {[tenant |-> tenant, set |-> Filled(d, "c")] : tenant \in {2, Missing, Legacy}}

Updated(d) ==
  {[tenant |-> 1, id |-> 1, set |-> set] : set \in
     {[status |-> "active"], [status |-> Null], [body |-> "y"], [key |-> "c"],
      [tenant |-> 2]}
     \union WithParents(d, <<>>, {2, Null, Missing, Legacy})
     \union (IF d.name # "semantic_models" THEN {} ELSE Lists)}
  \union {[tenant |-> tenant, id |-> id, set |-> [body |-> "y"]] :
            tenant \in {1, Legacy}, id \in {2, Missing, Legacy}}

Found == {[tenant |-> 1, id |-> id] : id \in {1, 2, Missing, Legacy}}

Filters(d) ==
  CASE ~("find" \in DOMAIN d.routes /\ "archive" \in DOMAIN d.routes) -> {<<>>}
    [] d.name = "datasets" ->
         {<<>>, [connection |-> 1], [connection |-> Legacy], [status |-> "draft"]}
    [] OTHER -> {<<>>, [status |-> "draft"]}

Listed(d) ==
  {[tenant |-> tenant, where |-> where, page |-> page] :
     tenant \in {1, Legacy}, where \in Filters(d), page \in {1, 2}}

RequestsOf ==
  [t \in MCTables |->
     LET d == Descriptor(t)
     IN [create |-> Created(d), update |-> Updated(d), archive |-> Found,
         find |-> Found, list |-> Listed(d)]]

MCRequests(t, op) == RequestsOf[t][op]
===============================================================================
