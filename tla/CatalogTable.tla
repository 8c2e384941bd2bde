---------------------------- MODULE CatalogTable ----------------------------
(***************************************************************************)
(* What the catalogue's services have in common: a call passes the guards  *)
(* and the validation, runs one autocommitted statement on the table of    *)
(* its entity, and a write is then recorded in the audit log before it is  *)
(* answered.  A listing runs two statements, the page and the total, on    *)
(* two connections of the pool.  The modules of the entities say what each *)
(* table, body and handler is; Catalog composes them.                      *)
(*                                                                         *)
(* A table is the sequence of its rows in order of creation; rows are      *)
(* never removed, and a row's position stands for its id and created_at.   *)
(* A row maps columns to values; "body" stands for the columns no          *)
(* constraint other than NOT NULL looks at.                                *)
(***************************************************************************)
EXTENDS Naturals, Sequences, FiniteSets, AdminAuth

CONSTANTS
  Calls,
  Callers,          \* the headers calls may carry
  Requests(_, _),   \* the requests of a table's operation
  Tables,
  InitialRows,      \* the rows there are before the first call
  PageSize,
  MaxRows,          \* bound on the rows of a table
  MaxTables,        \* bound on the tables the calls of a behaviour address
  MaxRestarts,
  Null,             \* an absent value, an SQL NULL, a JSON null
  Missing,          \* a well-formed UUID no row has
  Legacy            \* 24 hexadecimal digits: a valid id, and no UUID

ASSUME CatalogConstants ==
  /\ Callers \subseteq Headers
  /\ PageSize \in Nat \ {0}
  /\ MaxRows \in Nat /\ MaxTables \in Nat /\ MaxRestarts \in Nat
  /\ {Null, Missing, Legacy} \cap Nat = {}
  /\ DOMAIN InitialRows = Tables

(* AdminRoles(...) of the handlers that write.                             *)
Editors == {"owner", "admin", "operator"}

Operations == {"create", "update", "archive", "find", "list"}

Answers == {"none", "ok", "bad_request", "unauthorized", "forbidden",
            "not_found", "conflict", "error", "dropped"}

VARIABLES
  rows,       \* the tables
  entries,    \* the audit log
  call,       \* the calls
  restarts

tableVars == <<rows, entries, call, restarts>>

IdleCall == [at |-> "idle", table |-> Null, op |-> "none", request |-> Null,
             actor |-> "absent", id |-> Null, status |-> Null, items |-> Null,
             total |-> Null, before |-> 0, answer |-> "none"]

TableInit ==
  /\ rows = InitialRows
  /\ entries = {}
  /\ call = [c \in Calls |-> IdleCall]
  /\ restarts = 0
-------------------------------------------------------------------------------
(* The way into a handler.                                                 *)

(* The tables that calls have addressed, with one more.                    *)
Addressed(table) ==
  {table} \union {call[c].table : c \in {x \in Calls : call[x].at # "idle"}}

(* Validation: what the DTO requires is there and no property is unknown.  *)
(* IsOptional lets null pass for every property it decorates.              *)
ValidCreate(dto, set) ==
  /\ \A col \in dto.required : col \in DOMAIN set /\ set[col] # Null
  /\ DOMAIN set \subseteq dto.required \union dto.optional

(* The update DTO makes every property optional and has no tenant.         *)
ValidUpdate(dto, set) == DOMAIN set \subseteq dto.required \union dto.optional

ValidRequest(dto, op, request) ==
  CASE op = "create" -> ValidCreate(dto, request.set)
    [] op = "update" -> ValidUpdate(dto, request.set)
    [] OTHER -> TRUE

(* The answer before a handler runs: the guards', then the validation's.   *)
Verdict(d, op, r) ==
  LET admission == Admission(r.caller, d.routes[op])
  IN IF admission = "admitted" /\ ~ValidRequest(d.dto, op, r.request)
     THEN "bad_request" ELSE admission

(* What c may still bring to the operation op of an entity.                *)
Incoming(c, d, op) ==
  IF call[c].at = "idle" /\ Cardinality(Addressed(d.name)) <= MaxTables
  THEN [caller : Callers, request : Requests(d.name, op)]
  ELSE {}

(* ... and with what it reaches the handler.                               *)
Received(c, d, op) ==
  {r \in Incoming(c, d, op) : Verdict(d, op, r) = "admitted"}

Begun(d, op, r) ==
  [IdleCall EXCEPT !.table = d.name, !.op = op, !.request = r.request,
                   !.actor = r.caller.actor]

Answer(c, begun, answer) ==
  call' = [call EXCEPT ![c] = [begun EXCEPT !.at = "done", !.answer = answer]]

(* c is refused by a guard or by the validation; its request is of no      *)
(* further concern.                                                        *)
Refuse(c, d) ==
  \E op \in DOMAIN d.routes :
    \E r \in Incoming(c, d, op) :
      /\ Verdict(d, op, r) # "admitted"
      /\ Answer(c, [IdleCall EXCEPT !.table = d.name, !.op = op],
                Verdict(d, op, r))
      /\ UNCHANGED <<rows, entries, restarts>>
-------------------------------------------------------------------------------
(* The statements.                                                         *)

Uuid(id) == id # Legacy

(* Defect: an UPDATE that writes every column, absent ones as their        *)
(* defaults.                                                               *)
MergedWithDefaults(row, set) ==
  [col \in DOMAIN row |-> IF col \in DOMAIN set THEN set[col]
                          ELSE IF col = "status" THEN "draft" ELSE row[col]]

(* Defect: whatever is given is spread over the row.                       *)
Spread(row, set) ==
  [col \in DOMAIN row \union DOMAIN set |->
     IF col \in DOMAIN set THEN set[col] ELSE row[col]]

(* The columns of row with those of set in their place.                    *)
Merged(row, set) ==
  [col \in DOMAIN row |-> IF col \in DOMAIN set THEN set[col] ELSE row[col]]

Violations == {"malformed", "not_null", "unique", "foreign"}

(* What an error of the database comes out as when no service maps it.     *)
RawErrors == [v \in Violations |-> "error"]

MalformedSet(d, set) ==
  \E col \in d.uuids \intersect DOMAIN set : ~Uuid(set[col])

(* What PostgreSQL finds wrong with storing row at position i of table d.  *)
Violation(d, row, i) ==
  CASE MalformedSet(d, row) -> "malformed"
    [] \E col \in DOMAIN row \ d.nullable : row[col] = Null -> "not_null"
    [] \E j \in DOMAIN rows[d.name] \ {i} :
         \A col \in d.unique : rows[d.name][j][col] = row[col] -> "unique"
    [] \E col \in DOMAIN d.references :
         /\ row[col] # Null
         /\ row[col] \notin DOMAIN rows[d.references[col]] -> "foreign"
    [] OTHER -> "none"

(* The connection to the database fails: before the statement took effect. *)
Unavailable(c, begun) ==
  /\ Answer(c, begun, "error")
  /\ UNCHANGED <<rows, entries, restarts>>

(* Defect: the answer does not wait for the audit log.                     *)
WrittenUnrecorded(c, d, begun, i, row) ==
  /\ Answer(c, [begun EXCEPT !.id = i, !.status = row["status"]], "ok")
  /\ UNCHANGED <<entries, restarts>>

(* The statement took effect on row i.  Its reply may be lost; with it the *)
(* handler goes on to the audit log, if the entity has one.                *)
Written(c, d, begun, i, row) ==
  LET stored == [begun EXCEPT !.id = i, !.status = row["status"]]
  IN /\ \/ Answer(c, stored, "error")
        \/ IF d.audited
           THEN call' = [call EXCEPT ![c] = [stored EXCEPT !.at = "audit"]]
           ELSE Answer(c, stored, "ok")
     /\ UNCHANGED <<entries, restarts>>

(* create: one INSERT, the absent columns left to their defaults.          *)
Insert(c, d, r, errors) ==
  LET begun == Begun(d, "create", r)
      tenant == [tenant |-> r.request.tenant]
      row == Merged(Merged(d.defaults, tenant), r.request.set)
      i == Len(rows[d.name]) + 1
      violation == Violation(d, row, i)
  IN \/ Unavailable(c, begun)
     \/ /\ violation # "none"
        /\ Answer(c, begun, errors[violation])
        /\ UNCHANGED <<rows, entries, restarts>>
     \/ /\ violation = "none"
        /\ i <= MaxRows
        /\ rows' = [rows EXCEPT ![d.name] = Append(@, row)]
        /\ Written(c, d, begun, i, row)

(* Defect: without the condition on the tenant.                            *)
SelectedById(d, tenant, id) == {i \in DOMAIN rows[d.name] : i = id}

(* The row that WHERE id = ... AND tenant_id = ... selects.                *)
Selected(d, tenant, id) ==
  {i \in DOMAIN rows[d.name] :
     i = id /\ (d.scoped => rows[d.name][i]["tenant"] = tenant)}

(* One UPDATE of the given columns; ids that are no UUID are not sent.     *)
UpdateRow(c, d, op, r, set, errors) ==
  LET begun == Begun(d, op, r)
      request == r.request
      known == Uuid(request.id) /\ (d.scoped => Uuid(request.tenant))
      found == Selected(d, request.tenant, request.id)
  IN \/ known /\ Unavailable(c, begun)
     \/ /\ known /\ MalformedSet(d, set)
        /\ Answer(c, begun, errors["malformed"])
        /\ UNCHANGED <<rows, entries, restarts>>
     \/ /\ ~known \/ (~MalformedSet(d, set) /\ found = {})
        /\ Answer(c, begun, "not_found")
        /\ UNCHANGED <<rows, entries, restarts>>
     \/ /\ known /\ ~MalformedSet(d, set)
        /\ \E i \in found :
             LET row == Merged(rows[d.name][i], set)
                 violation == Violation(d, row, i)
             IN IF violation # "none"
                THEN /\ Answer(c, begun, errors[violation])
                     /\ UNCHANGED <<rows, entries, restarts>>
                ELSE /\ rows' = [rows EXCEPT ![d.name][i] = row]
                     /\ Written(c, d, begun, i, row)

(* AuditService.record: the INSERT fails for an actor that looks like an   *)
(* ObjectId and when the database does; its reply may be lost.             *)
RecordAudit(c, d) ==
  LET entry == [table |-> d.name, action |-> call[c].op, id |-> call[c].id,
                status |-> call[c].status, call |-> c]
  IN /\ call[c].at = "audit" /\ call[c].table = d.name
     /\ \/ /\ ~ActorSpoilsAudit(call[c])
           /\ entries' = entries \union {entry}
           /\ Answer(c, call[c], "ok") \/ Answer(c, call[c], "error")
        \/ /\ Answer(c, call[c], "error")
           /\ UNCHANGED entries
     /\ UNCHANGED <<rows, restarts>>

(* findOne.                                                                *)
SelectRow(c, d, r) ==
  LET begun == Begun(d, "find", r)
      request == r.request
      known == Uuid(request.id) /\ (d.scoped => Uuid(request.tenant))
      found == IF known THEN Selected(d, request.tenant, request.id) ELSE {}
  IN /\ \/ known /\ Answer(c, begun, "error")
        \/ found = {} /\ Answer(c, begun, "not_found")
        \/ \E i \in found : Answer(c, [begun EXCEPT !.id = i], "ok")
     /\ UNCHANGED <<rows, entries, restarts>>
-------------------------------------------------------------------------------
(* The two statements of a listing.                                        *)

Matching(d, request) ==
  {i \in DOMAIN rows[d.name] :
     /\ d.scoped => rows[d.name][i]["tenant"] = request.tenant
     /\ \A col \in DOMAIN request.where :
          rows[d.name][i][col] = request.where[col]}

(* Defect: OFFSET page * pageSize.                                         *)
PageAfter(ids, page) ==
  {i \in ids : LET rank == Cardinality({j \in ids : j >= i})
               IN rank > page * PageSize /\ rank <= (page + 1) * PageSize}

(* Newest first: the rows whose rank falls on the page.                    *)
PageOf(ids, page) ==
  {i \in ids : LET rank == Cardinality({j \in ids : j >= i})
               IN rank > (page - 1) * PageSize /\ rank <= page * PageSize}

BeginListing(c, d, r) ==
  /\ call' = [call EXCEPT ![c] =
       [Begun(d, "list", r) EXCEPT
          !.at = "listing", !.before = Cardinality(Matching(d, r.request))]]
  /\ UNCHANGED <<rows, entries, restarts>>

Listing(c, d) == call[c].at = "listing" /\ call[c].table = d.name

(* Promise.all rejects with the first failure and resolves with the last   *)
(* result.                                                                 *)
ListingFails(c) == Answer(c, call[c], "error")

ListingGoesOn(c, next) ==
  IF next.items # Null /\ next.total # Null
  THEN Answer(c, next, "ok")
  ELSE call' = [call EXCEPT ![c] = next]

(* A tenant that is no UUID is answered without a statement.               *)
Reachable(d, request) == d.scoped => Uuid(request.tenant)

SelectPage(c, d) ==
  /\ Listing(c, d) /\ call[c].items = Null
  /\ LET request == call[c].request
         items == PageOf(Matching(d, request), request.page)
     IN \/ Reachable(d, request) /\ ListingFails(c)
        \/ /\ Reachable(d, request) => ~MalformedSet(d, request.where)
           /\ ListingGoesOn(c, [call[c] EXCEPT !.items =
                IF Reachable(d, request) THEN items ELSE {}])
  /\ UNCHANGED <<rows, entries, restarts>>

CountRows(c, d) ==
  /\ Listing(c, d) /\ call[c].total = Null
  /\ LET request == call[c].request
         total == Cardinality(Matching(d, request))
     IN \/ Reachable(d, request) /\ ListingFails(c)
        \/ /\ Reachable(d, request) => ~MalformedSet(d, request.where)
           /\ ListingGoesOn(c, [call[c] EXCEPT !.total =
                IF Reachable(d, request) THEN total ELSE 0])
  /\ UNCHANGED <<rows, entries, restarts>>

(* The process stops: the calls in progress are never answered.            *)
Restart ==
  /\ restarts < MaxRestarts
  /\ \E c \in Calls : call[c].at \in {"audit", "listing"}
  /\ call' = [c \in Calls |->
       IF call[c].at \in {"audit", "listing"}
       THEN [call[c] EXCEPT !.at = "done", !.answer = "dropped"] ELSE call[c]]
  /\ restarts' = restarts + 1
  /\ UNCHANGED <<rows, entries>>
===============================================================================
