------------------------------- MODULE Catalog -------------------------------
(***************************************************************************)
(* The catalogue: calls of administrators on the tables of the tenants,    *)
(* the users and the definitions, in any order and at the same time.  Any  *)
(* number of processes may serve them, for none keeps anything between two *)
(* statements that another could see.                                      *)
(***************************************************************************)
EXTENDS TenantDirectory, Users, Connections, Datasets, FieldMappings,
        QueryDefinitions, DashboardDefinitions, ReportDefinitions,
        SemanticModels

Descriptors ==
  {TenantTable, UserTable, ConnectionTable, DatasetTable, FieldMappingTable,
   QueryDefinitionTable, DashboardDefinitionTable, ReportDefinitionTable,
   SemanticModelTable}

(* What the columns, the constraints and the checks of the service allow a *)
(* table to hold.                                                          *)
WellKept(d, table) ==
  /\ table \in Seq(Range(table))
  /\ \A i \in DOMAIN table :
       /\ DOMAIN table[i] = DOMAIN d.defaults
       /\ d.scoped => Uuid(table[i]["tenant"])
       /\ d = SemanticModelTable =>
            \A col \in NestedLists : IsInjective(table[i][col])
  /\ \A i, j \in DOMAIN table : i # j =>
       \E col \in d.unique : table[i][col] # table[j][col]

ASSUME TablesAssumption == Tables = {d.name : d \in Descriptors}

(* The rows there are before the first call were stored by earlier ones.   *)
ASSUME InitialRowsAssumption ==
  \A d \in Descriptors : WellKept(d, InitialRows[d.name])

(* The body of a write is an object, and PaginationQueryDto lets no page   *)
(* below 1 through.                                                        *)
ASSUME RequestsAssumption ==
  \A d \in Descriptors :
    /\ \A op \in {"create", "update"} \intersect DOMAIN d.routes :
         \A request \in Requests(d.name, op) : "set" \in DOMAIN request
    /\ \A request \in Requests(d.name, "list") : request.page \in Nat \ {0}

Call(c) ==
  \/ TenantCall(c) \/ UserCall(c) \/ ConnectionCall(c) \/ DatasetCall(c)
  \/ FieldMappingCall(c) \/ QueryDefinitionCall(c)
  \/ DashboardDefinitionCall(c) \/ ReportDefinitionCall(c)
  \/ SemanticModelCall(c)

Next == (\E c \in Calls : Call(c)) \/ Restart

Spec == TableInit /\ [][Next]_tableVars
-------------------------------------------------------------------------------
(* Properties.                                                             *)

(* The variables are what the comments above say they are; a stored row    *)
(* has the columns of its table.                                           *)
CatalogTypeOK ==
  /\ \A d \in Descriptors : \A i \in DOMAIN rows[d.name] :
       DOMAIN rows[d.name][i] = DOMAIN d.defaults
  /\ \A e \in entries : e.table \in Tables /\ e.id \in DOMAIN rows[e.table]
  /\ \A c \in Calls :
       /\ call[c].at \in {"idle", "audit", "listing", "done"}
       /\ call[c].answer \in Answers
       /\ (call[c].answer = "none") = (call[c].at # "done")
  /\ restarts \in 0 .. MaxRestarts

(* The calls that may have written column col of row i of table t.         *)
Writers(t, i, col) ==
  {c \in Calls :
     /\ call[c].table = t /\ call[c].id = i
     /\ \/ call[c].op = "create"
        \/ call[c].op = "update" /\ col \in DOMAIN call[c].request.set
        \/ call[c].op = "archive" /\ col = "status"}

AskedColumns(c) ==
  IF call[c].op = "archive" THEN {"status"} ELSE DOMAIN call[c].request.set

(* The value c asked for in column col.                                    *)
Asked(c, col) ==
  IF call[c].op = "archive"
  THEN IF call[c].table = "field_mappings" THEN "inactive" ELSE "archived"
  ELSE call[c].request.set[col]

(* Updates of one row at the same time do not undo one another: a column   *)
(* one call alone changed keeps the value that call was told it stored,    *)
(* whatever other columns others wrote meanwhile; a column no call asked   *)
(* to change keeps what the row began with.  (The partial records of the   *)
(* services and the conditional assignments of the repositories.)          *)
UpdatesSurvive ==
  /\ \A t \in Tables : \A i \in DOMAIN InitialRows[t] :
       rows[t][i] # InitialRows[t][i] =>
         \A col \in DOMAIN rows[t][i] :
           rows[t][i][col] # InitialRows[t][i][col] => Writers(t, i, col) # {}
  /\ \A c \in Calls :
       (call[c].op \in {"update", "archive"} /\ call[c].answer = "ok") =>
         \A col \in AskedColumns(c) :
           \/ rows[call[c].table][call[c].id][col] = Asked(c, col)
           \/ Writers(call[c].table, call[c].id, col) # {c}

(* The audit log accounts for the status of a row: it is the one the row   *)
(* began with, or an entry names it, or a write of the row was not         *)
(* answered "ok": it is still under way, its reply was lost, or its entry  *)
(* could not be stored.  (recordAudit after the statement, without a       *)
(* transaction around the two.)                                            *)
AuditExplainsStatus ==
  \A d \in Descriptors : d.audited =>
    \A i \in DOMAIN rows[d.name] :
      LET status == rows[d.name][i]["status"]
      IN \/ i \in DOMAIN InitialRows[d.name]
              /\ status = InitialRows[d.name][i]["status"]
         \/ \E e \in entries : e.table = d.name /\ e.id = i /\ e.status = status
         \/ \E c \in Calls : /\ call[c].table = d.name /\ call[c].id = i
                             /\ call[c].status = status /\ call[c].answer # "ok"

(* The keys of a tenant stay apart, whichever creations and renamings meet;*)
(* and who is told of a conflict did lose to another: unless somebody      *)
(* renamed the row since, the key it asked for is taken.  (The unique      *)
(* indexes of the migrations, the services look for no existing row first; *)
(* handlePersistenceError.)                                                *)
RacesForKeysSettle ==
  \A d \in Descriptors :
    /\ \A i, j \in DOMAIN rows[d.name] :
         i # j => \E col \in d.unique :
                    rows[d.name][i][col] # rows[d.name][j][col]
    /\ \A c \in Calls :
         (call[c].table = d.name /\ call[c].answer = "conflict") =>
           \/ /\ "key" \in DOMAIN call[c].request.set
              /\ \E i \in DOMAIN rows[d.name] :
                   /\ rows[d.name][i]["tenant"] = call[c].request.tenant
                   /\ rows[d.name][i]["key"] = call[c].request.set["key"]
           \/ \E i \in DOMAIN rows[d.name] :
                \E x \in Writers(d.name, i, "key") : call[x].op = "update"

(* What a caller is given, changes or lists is of the tenant it named.     *)
(* (The tenant condition of every repository statement.)                   *)
AnswersStayInTenant ==
  \A d \in Descriptors : d.scoped =>
    \A c \in Calls : call[c].table = d.name =>
      /\ call[c].id # Null
           => rows[d.name][call[c].id]["tenant"] = call[c].request.tenant
      /\ call[c].items # Null => \A i \in call[c].items :
           rows[d.name][i]["tenant"] = call[c].request.tenant

(* How many rows page page shows of n.                                     *)
Fill(n, page) ==
  LET skipped == (page - 1) * PageSize
  IN CASE n <= skipped -> 0
       [] n > skipped + PageSize -> PageSize
       [] OTHER -> n - skipped

(* A listing without a filter tells of a moment between its begin and its  *)
(* answer, in each of its halves: the total and the number of items lie    *)
(* between what the table held when it began and what it holds now.  The   *)
(* two halves need not tell of the same moment, for they are two           *)
(* statements on two connections.                                          *)
ListingsAddUp ==
  \A d \in Descriptors : \A c \in Calls :
    (call[c].table = d.name /\ call[c].op = "list"
       /\ call[c].answer = "ok" /\ call[c].request.where = <<>>) =>
      LET page == call[c].request.page
          now == Cardinality(Matching(d, call[c].request))
      IN /\ call[c].before <= call[c].total /\ call[c].total <= now
         /\ Fill(call[c].before, page) <= Cardinality(call[c].items)
         /\ Cardinality(call[c].items) <= Fill(now, page)

(* No stored semantic model has two measures, two dimensions or two terms  *)
(* of the same key, though only the lists a body carries are checked.      *)
(* (assertUniqueNestedKeys.)                                               *)
NestedKeysUnique ==
  \A i \in DOMAIN rows["semantic_models"] : \A col \in NestedLists :
    IsInjective(rows["semantic_models"][i][col])
===============================================================================

