---------------------------- MODULE Catalog_proofs ----------------------------
(***************************************************************************)
(* Theorems of Catalog, for any number of calls, callers, requests, rows   *)
(* and restarts.  Whatever call it is, a step has one of six effects; each *)
(* invariant is shown for the effects.                                     *)
(***************************************************************************)
EXTENDS Catalog, TLAPS, SequenceTheorems

(* What every entity has in common: the body of a call names no tenant and *)
(* only columns of the table, a creation gives the key, and the rows of a  *)
(* tenant are told apart by it.                                            *)
Described(d) ==
  /\ d.dto.required \union d.dto.optional \subseteq DOMAIN d.defaults \ {"tenant"}
  /\ {"key", "status"} \subseteq DOMAIN d.defaults
  /\ "key" \in d.dto.required
  /\ d.unique \subseteq DOMAIN d.defaults
  /\ d.scoped \in BOOLEAN /\ d.audited \in BOOLEAN
  /\ d.scoped => /\ "tenant" \in DOMAIN d.defaults \intersect d.uuids
                 /\ d.unique = {"tenant", "key"}

LEMMA TablesDescribed == \A d \in Descriptors : Described(d)
  <1> USE DEF Described
  <1>1. Described(TenantTable)
    BY DEF TenantTable, TenantDto
  <1>2. Described(UserTable)
    BY DEF UserTable, UserDto
  <1>3. Described(ConnectionTable)
    BY DEF ConnectionTable, ConnectionDto
  <1>4. Described(DatasetTable)
    BY DEF DatasetTable, DatasetDto
  <1>5. Described(FieldMappingTable)
    BY DEF FieldMappingTable, FieldMappingDto
  <1>6. Described(QueryDefinitionTable)
    BY DEF QueryDefinitionTable, QueryDefinitionDto
  <1>7. Described(DashboardDefinitionTable)
    BY DEF DashboardDefinitionTable, DashboardDefinitionDto
  <1>8. Described(ReportDefinitionTable)
    BY DEF ReportDefinitionTable, ReportDefinitionDto
  <1>9. Described(SemanticModelTable)
    BY DEF SemanticModelTable, SemanticModelDto
  <1> HIDE DEF Described
  <1>10. QED
    BY <1>1, <1>2, <1>3, <1>4, <1>5, <1>6, <1>7, <1>8, <1>9 DEF Descriptors

LEMMA TableNames ==
  /\ TenantTable.name = "tenants" /\ UserTable.name = "users"
  /\ ConnectionTable.name = "connections" /\ DatasetTable.name = "datasets"
  /\ FieldMappingTable.name = "field_mappings"
  /\ QueryDefinitionTable.name = "query_definitions"
  /\ DashboardDefinitionTable.name = "dashboard_definitions"
  /\ ReportDefinitionTable.name = "report_definitions"
  /\ SemanticModelTable.name = "semantic_models"
  BY DEF TenantTable, UserTable, ConnectionTable, DatasetTable,
         FieldMappingTable, QueryDefinitionTable, DashboardDefinitionTable,
         ReportDefinitionTable, SemanticModelTable

LEMMA NamesApart ==
  ASSUME NEW d \in Descriptors, NEW e \in Descriptors, d.name = e.name
  PROVE  d = e
  BY TableNames DEF Descriptors

----------------------------------------------------------------------------
(* What the tables, the calls and the audit log are at any time.           *)

RowsOK ==
  /\ DOMAIN rows = Tables
  /\ \A d \in Descriptors : WellKept(d, rows[d.name])

(* A call's identifier and its items are positions of its table.           *)
CallOK(c) ==
  /\ DOMAIN call[c] = DOMAIN IdleCall
  /\ call[c].at \in {"idle", "audit", "listing", "done"}
  /\ call[c].answer \in Answers
  /\ call[c].answer = "none" <=> call[c].at # "done"
  /\ call[c].at = "idle" => call[c] = IdleCall
  /\ call[c].at = "listing" => call[c].id = Null
  /\ call[c].at = "audit" => call[c].id # Null
  /\ call[c].id # Null => /\ call[c].table \in Tables
                          /\ call[c].id \in DOMAIN rows[call[c].table]
  /\ call[c].items # Null => /\ call[c].table \in Tables
                             /\ call[c].items \subseteq DOMAIN rows[call[c].table]

EntriesOK ==
  \A e \in entries : e.table \in Tables /\ e.id \in DOMAIN rows[e.table]

Typed ==
  /\ RowsOK
  /\ DOMAIN call = Calls
  /\ \A c \in Calls : CallOK(c)
  /\ EntriesOK
  /\ restarts \in 0 .. MaxRestarts

----------------------------------------------------------------------------
(* The effects a step of a call c on the table of d may have.              *)

(* c goes from its record to new; the others stay where they are.          *)
Moves(c, new) == call' = [call EXCEPT ![c] = new]

Opens(c, d, new) ==
  /\ call[c].at = "idle"
  /\ Moves(c, new)
  /\ DOMAIN new = DOMAIN IdleCall
  /\ new.table = d.name
  /\ new.items = Null /\ new.total = Null

(* The key that a call asked for is taken.                                 *)
KeyTaken(d, asked) ==
  /\ "key" \in DOMAIN asked.request.set
  /\ \E i \in DOMAIN rows[d.name] :
       /\ rows[d.name][i]["tenant"] = asked.request.tenant
       /\ rows[d.name][i]["key"] = asked.request.set["key"]

(* c is refused, finds nothing or fails before anything happened.          *)
Declined(c, d) ==
  \E new :
    /\ Opens(c, d, new)
    /\ new.at = "done" /\ new.id = Null
    /\ new.answer \in Answers \ {"none", "ok", "dropped"}
    /\ new.answer = "conflict" => d.scoped /\ KeyTaken(d, new)
    /\ UNCHANGED <<rows, entries, restarts>>

(* c is given a row.                                                       *)
Shown(c, d) ==
  \E new :
    /\ Opens(c, d, new)
    /\ new.at = "done" /\ new.answer = "ok" /\ new.op = "find"
    /\ new.id \in DOMAIN rows[d.name]
    /\ d.scoped => rows[d.name][new.id]["tenant"] = new.request.tenant
    /\ UNCHANGED <<rows, entries, restarts>>

(* row may stand at position i of the table.                               *)
Fits(d, row, i) ==
  /\ DOMAIN row = DOMAIN d.defaults
  /\ d.scoped => Uuid(row["tenant"])
  /\ d = SemanticModelTable => \A col \in NestedLists : IsInjective(row[col])
  /\ \A j \in DOMAIN rows[d.name] \ {i} :
       \E col \in d.unique : rows[d.name][j][col] # row[col]

Inserts(d, new, row) ==
  /\ new.op = "create"
  /\ new.id = Len(rows[d.name]) + 1
  /\ rows' = [rows EXCEPT ![d.name] = Append(@, row)]

(* The columns that a call names, and no others, get the values it names.  *)
Updates(d, new, row) ==
  /\ new.id \in DOMAIN rows[d.name]
  /\ rows' = [rows EXCEPT ![d.name] = [@ EXCEPT ![new.id] = row]]
  /\ \/ /\ new.op = "update"
        /\ DOMAIN new.request.set \subseteq DOMAIN row \ {"tenant"}
        /\ row = Merged(rows[d.name][new.id], new.request.set)
     \/ /\ new.op = "archive"
        /\ row = Merged(rows[d.name][new.id],
                        [status |-> IF d.name = "field_mappings" THEN "inactive"
                                    ELSE "archived"])

(* c stores a row, and goes on to the audit log if its answer is not lost. *)
Stored(c, d) ==
  \E new, row :
    /\ Opens(c, d, new)
    /\ new.status = row["status"]
    /\ Fits(d, row, new.id)
    /\ d.scoped => row["tenant"] = new.request.tenant
    /\ Inserts(d, new, row) \/ Updates(d, new, row)
    /\ \/ new.at = "done" /\ new.answer = "error"
       \/ new.at = "audit" /\ new.answer = "none" /\ d.audited
       \/ new.at = "done" /\ new.answer = "ok" /\ ~d.audited
    /\ UNCHANGED <<entries, restarts>>

Lists(c, d) ==
  \E new :
    /\ Opens(c, d, new)
    /\ new.at = "listing" /\ new.answer = "none" /\ new.id = Null
    /\ new.op = "list"
    /\ new.request.page \in Nat \ {0}
    /\ new.before = Cardinality(Matching(d, new.request))
    /\ UNCHANGED <<rows, entries, restarts>>

(* A half of c's listing fails or is answered, perhaps as the last of them. *)
Advances(c, d) ==
  \E items, total :
    LET request == call[c].request
        next == [call[c] EXCEPT !.items = items, !.total = total]
    IN /\ Listing(c, d)
       /\ \/ items = call[c].items
          \/ items = IF Reachable(d, request)
                     THEN PageOf(Matching(d, request), request.page) ELSE {}
       /\ \/ total = call[c].total
          \/ total = IF Reachable(d, request)
                     THEN Cardinality(Matching(d, request)) ELSE 0
       /\ \/ Moves(c, [next EXCEPT !.at = "done", !.answer = "error"])
          \/ Moves(c, next)
          \/ /\ items # Null /\ total # Null
             /\ Moves(c, [next EXCEPT !.at = "done", !.answer = "ok"])
       /\ UNCHANGED <<rows, entries, restarts>>

Records(c, d) ==
  /\ call[c].at = "audit" /\ call[c].table = d.name /\ d.audited
  /\ LET entry == [table |-> d.name, action |-> call[c].op, id |-> call[c].id,
                   status |-> call[c].status, call |-> c]
     IN \/ /\ entries' = entries \union {entry}
           /\ Answer(c, call[c], "ok") \/ Answer(c, call[c], "error")
        \/ Answer(c, call[c], "error") /\ UNCHANGED entries
  /\ UNCHANGED <<rows, restarts>>

Effect(c, d) ==
  \/ Declined(c, d) \/ Shown(c, d) \/ Stored(c, d)
  \/ Lists(c, d) \/ Advances(c, d) \/ Records(c, d)

----------------------------------------------------------------------------
(* The statements have these effects.                                      *)

(* What the error maps of the services have in common.                     *)
MappedErrors ==
  {RawErrors, [v \in Violations |-> IF v = "unique" THEN "conflict" ELSE "error"]}

LEMMA ErrorAnswers ==
  ASSUME NEW errors \in MappedErrors, NEW v \in Violations
  PROVE  /\ errors[v] \in {"error", "conflict"}
         /\ errors[v] = "conflict" => v = "unique"
  BY DEF MappedErrors, RawErrors

LEMMA NoViolation ==
  ASSUME NEW d, NEW row, NEW i, Violation(d, row, i) = "none"
  PROVE  /\ ~MalformedSet(d, row)
         /\ \A j \in DOMAIN rows[d.name] \ {i} :
              \E col \in d.unique : rows[d.name][j][col] # row[col]
  BY DEF Violation

LEMMA SomeViolation ==
  ASSUME NEW d, NEW row, NEW i, Violation(d, row, i) # "none"
  PROVE  /\ Violation(d, row, i) \in Violations
         /\ Violation(d, row, i) = "unique" =>
              \E j \in DOMAIN rows[d.name] \ {i} :
                \A col \in d.unique : rows[d.name][j][col] = row[col]
  BY DEF Violation, Violations

LEMMA NumberIsNotNull == \A n \in Nat : n # Null
  BY CatalogConstants

LEMMA PositionsAreNumbers ==
  ASSUME RowsOK, NEW d \in Descriptors
  PROVE  /\ d.name \in Tables
         /\ Len(rows[d.name]) \in Nat
         /\ DOMAIN rows[d.name] = 1 .. Len(rows[d.name])
         /\ \A i \in DOMAIN rows[d.name] : i \in Nat /\ i # Null
  BY TablesAssumption, NumberIsNotNull DEF RowsOK, WellKept

(* The body of a call that the validation lets through, sanitized if the   *)
(* service does that.                                                      *)
Permitted(d, set) ==
  /\ DOMAIN set \subseteq d.dto.required \union d.dto.optional
  /\ d = SemanticModelTable => UniqueNestedKeys(set)

LEMMA RefuseEffect ==
  ASSUME NEW c, NEW d, call[c].at = "idle", Refuse(c, d)
  PROVE  Declined(c, d)
  <1>1. PICK op \in DOMAIN d.routes : \E r \in Incoming(c, d, op) :
          /\ Verdict(d, op, r) # "admitted"
          /\ Answer(c, [IdleCall EXCEPT !.table = d.name, !.op = op],
                    Verdict(d, op, r))
          /\ UNCHANGED <<rows, entries, restarts>>
    BY DEF Refuse
  <1>2. PICK r \in Incoming(c, d, op) :
          /\ Verdict(d, op, r) # "admitted"
          /\ Answer(c, [IdleCall EXCEPT !.table = d.name, !.op = op],
                    Verdict(d, op, r))
          /\ UNCHANGED <<rows, entries, restarts>>
    BY <1>1
  <1> DEFINE answer == Verdict(d, op, r)
             new == [[IdleCall EXCEPT !.table = d.name, !.op = op]
                       EXCEPT !.at = "done", !.answer = answer]
  <1>3. answer \in {"unauthorized", "bad_request", "forbidden"}
    BY <1>2 DEF Verdict, Admission
  <1> HIDE DEF answer
  <1>4. /\ new.table = d.name /\ new.at = "done" /\ new.answer = answer
        /\ new.id = Null /\ new.items = Null /\ new.total = Null
        /\ DOMAIN new = DOMAIN IdleCall
    BY DEF IdleCall
  <1>5. Moves(c, new)
    BY <1>2 DEF Answer, Moves, answer
  <1> HIDE DEF new
  <1>6. QED
    BY <1>2, <1>3, <1>4, <1>5 DEF Declined, Opens, Answers

(* What Answer makes of a call that has just begun.                        *)
LEMMA AnswerEffect ==
  ASSUME NEW c, NEW d, NEW op, NEW r, NEW answer, call[c].at = "idle",
         Answer(c, Begun(d, op, r), answer),
         answer \in Answers \ {"none", "ok", "dropped"},
         answer = "conflict" => d.scoped /\ KeyTaken(d, r),
         UNCHANGED <<rows, entries, restarts>>
  PROVE  Declined(c, d)
  <1> DEFINE new == [Begun(d, op, r) EXCEPT !.at = "done", !.answer = answer]
  <1>1. /\ new.table = d.name /\ new.at = "done" /\ new.answer = answer
        /\ new.id = Null /\ new.items = Null /\ new.total = Null
        /\ new.request = r.request
        /\ DOMAIN new = DOMAIN IdleCall
    BY DEF Begun, IdleCall
  <1>2. Moves(c, new)
    BY DEF Answer, Moves
  <1> HIDE DEF new
  <1>3. KeyTaken(d, r) => KeyTaken(d, new)
    BY <1>1 DEF KeyTaken
  <1>4. QED
    BY <1>1, <1>2, <1>3 DEF Declined, Opens

(* What Written makes of it, whichever statement it was.                   *)
LEMMA WrittenEffect ==
  ASSUME NEW c, NEW d, NEW op, NEW r, NEW i, NEW row, call[c].at = "idle",
         Written(c, d, Begun(d, op, r), i, row), Fits(d, row, i),
         d.scoped \in BOOLEAN, d.audited \in BOOLEAN,
         d.scoped => row["tenant"] = r.request.tenant,
         \A new : (new.op = op /\ new.id = i /\ new.request = r.request)
                    => Inserts(d, new, row) \/ Updates(d, new, row)
  PROVE  Stored(c, d)
  <1> DEFINE stored == [Begun(d, op, r) EXCEPT !.id = i, !.status = row["status"]]
  <1>1. /\ stored.table = d.name /\ stored.op = op /\ stored.request = r.request
        /\ stored.items = Null /\ stored.total = Null /\ stored.at = "idle"
        /\ stored.id = i /\ stored.status = row["status"]
        /\ stored.answer = "none"
        /\ DOMAIN stored = DOMAIN IdleCall
    BY DEF Begun, IdleCall
  <1> HIDE DEF stored
  <1>2. UNCHANGED <<entries, restarts>>
    BY DEF Written
  <1>3. ASSUME NEW at, NEW answer, Moves(c, [stored EXCEPT !.at = at, !.answer = answer]),
               \/ at = "done" /\ answer = "error"
               \/ at = "audit" /\ answer = "none" /\ d.audited
               \/ at = "done" /\ answer = "ok" /\ ~d.audited
        PROVE  Stored(c, d)
    <2> DEFINE new == [stored EXCEPT !.at = at, !.answer = answer]
    <2>1. /\ new.table = d.name /\ new.op = op /\ new.request = r.request
          /\ new.items = Null /\ new.total = Null
          /\ new.id = i /\ new.status = row["status"]
          /\ new.at = at /\ new.answer = answer
          /\ DOMAIN new = DOMAIN IdleCall
      BY <1>1 DEF IdleCall
    <2> HIDE DEF new
    <2>2. Inserts(d, new, row) \/ Updates(d, new, row)
      BY <2>1
    <2>3. Opens(c, d, new)
      BY <1>3, <2>1 DEF Opens, new
    <2>4. QED
      BY <1>2, <1>3, <2>1, <2>2, <2>3 DEF Stored
  <1>4. CASE Answer(c, stored, "error")
    BY <1>3, <1>4 DEF Answer, Moves
  <1>5. CASE d.audited /\ call' = [call EXCEPT ![c] = [stored EXCEPT !.at = "audit"]]
    <2>1. [stored EXCEPT !.at = "audit"]
            = [stored EXCEPT !.at = "audit", !.answer = "none"]
      BY <1>1 DEF IdleCall
    <2>2. QED
      BY <1>3, <1>5, <2>1 DEF Moves
  <1>6. CASE ~d.audited /\ Answer(c, stored, "ok")
    BY <1>3, <1>6 DEF Answer, Moves
  <1>7. QED
    BY <1>4, <1>5, <1>6 DEF Written, stored

LEMMA MergedColumns ==
  ASSUME NEW row, NEW set
  PROVE  /\ DOMAIN Merged(row, set) = DOMAIN row
         /\ \A col \in DOMAIN row : Merged(row, set)[col] =
              IF col \in DOMAIN set THEN set[col] ELSE row[col]
  BY DEF Merged

(* What creates a row: the defaults, the tenant, what the body sets.       *)
LEMMA CreatedRow ==
  ASSUME NEW d \in Descriptors, Described(d), NEW tenant, NEW set,
         Permitted(d, set)
  PROVE  LET row == Merged(Merged(d.defaults, [tenant |-> tenant]), set)
         IN /\ DOMAIN row = DOMAIN d.defaults
            /\ d.scoped => row["tenant"] = tenant
            /\ \A col \in DOMAIN set : row[col] = set[col]
            /\ d = SemanticModelTable =>
                 \A col \in NestedLists : IsInjective(row[col])
  <1> DEFINE base == Merged(d.defaults, [tenant |-> tenant])
             row == Merged(base, set)
  <1>1. /\ DOMAIN base = DOMAIN d.defaults
        /\ \A col \in DOMAIN d.defaults : base[col] =
             IF col \in DOMAIN [tenant |-> tenant] THEN tenant ELSE d.defaults[col]
    BY MergedColumns DEF Merged
  <1>2. DOMAIN [tenant |-> tenant] = {"tenant"}
    OBVIOUS
  <1>3. /\ DOMAIN row = DOMAIN base
        /\ \A col \in DOMAIN base : row[col] =
             IF col \in DOMAIN set THEN set[col] ELSE base[col]
    BY MergedColumns
  <1> HIDE DEF base, row
  <1>4. DOMAIN set \subseteq DOMAIN d.defaults /\ "tenant" \notin DOMAIN set
    BY DEF Described, Permitted
  <1>5. d.scoped => row["tenant"] = tenant
    BY <1>1, <1>2, <1>3, <1>4 DEF Described
  <1>6. ASSUME d = SemanticModelTable, NEW col \in NestedLists
        PROVE  IsInjective(row[col])
    <2>1. col \in DOMAIN d.defaults /\ d.defaults[col] = <<>> /\ col # "tenant"
      BY <1>6 DEF SemanticModelTable, NestedLists
    <2>2. CASE col \in DOMAIN set
      BY <1>1, <1>3, <1>6, <2>1, <2>2 DEF Permitted, UniqueNestedKeys
    <2>3. CASE col \notin DOMAIN set
      <3>1. row[col] = <<>>
        BY <1>1, <1>2, <1>3, <2>1, <2>3
      <3>2. QED
        BY <3>1 DEF IsInjective
    <2>4. QED
      BY <2>2, <2>3
  <1>7. QED
    BY <1>1, <1>3, <1>4, <1>5, <1>6 DEF base, row

LEMMA InsertEffect ==
  ASSUME RowsOK, NEW c, NEW d \in Descriptors, Described(d), NEW r,
         call[c].at = "idle", "key" \in DOMAIN r.request.set,
         Permitted(d, r.request.set), NEW errors \in MappedErrors,
         errors # RawErrors => d.scoped, Insert(c, d, r, errors)
  PROVE  Declined(c, d) \/ Stored(c, d)
  <1> DEFINE begun == Begun(d, "create", r)
             row == Merged(Merged(d.defaults, [tenant |-> r.request.tenant]),
                           r.request.set)
             i == Len(rows[d.name]) + 1
             violation == Violation(d, row, i)
  <1>1. \/ Unavailable(c, begun)
        \/ /\ violation # "none"
           /\ Answer(c, begun, errors[violation])
           /\ UNCHANGED <<rows, entries, restarts>>
        \/ /\ violation = "none"
           /\ rows' = [rows EXCEPT ![d.name] = Append(@, row)]
           /\ Written(c, d, begun, i, row)
    BY DEF Insert
  <1>2. /\ DOMAIN row = DOMAIN d.defaults
        /\ d.scoped => row["tenant"] = r.request.tenant
        /\ \A col \in DOMAIN r.request.set : row[col] = r.request.set[col]
        /\ d = SemanticModelTable =>
             \A col \in NestedLists : IsInjective(row[col])
    BY CreatedRow
  <1> HIDE DEF row
  <1>3. CASE Unavailable(c, begun)
    BY <1>3, AnswerEffect DEF Unavailable, Answers
  <1>4. CASE /\ violation # "none"
             /\ Answer(c, begun, errors[violation])
             /\ UNCHANGED <<rows, entries, restarts>>
    <2>1. errors[violation] \in {"error", "conflict"}
      BY <1>4, SomeViolation, ErrorAnswers
    <2>2. ASSUME errors[violation] = "conflict"
          PROVE  d.scoped /\ KeyTaken(d, r)
      <3>1. violation = "unique" /\ d.scoped
        BY <1>4, <2>2, SomeViolation, ErrorAnswers DEF RawErrors
      <3>2. PICK j \in DOMAIN rows[d.name] :
              \A col \in d.unique : rows[d.name][j][col] = row[col]
        BY <1>4, <3>1, SomeViolation
      <3>3. QED
        BY <1>2, <3>1, <3>2 DEF KeyTaken, Described
    <2>3. QED
      BY <1>4, <2>1, <2>2, AnswerEffect DEF Answers
  <1>5. CASE /\ violation = "none"
             /\ rows' = [rows EXCEPT ![d.name] = Append(@, row)]
             /\ Written(c, d, begun, i, row)
    <2>1. Fits(d, row, i)
      <3>1. /\ ~MalformedSet(d, row)
            /\ \A j \in DOMAIN rows[d.name] \ {i} :
                 \E col \in d.unique : rows[d.name][j][col] # row[col]
        BY <1>5, NoViolation
      <3>2. d.scoped => Uuid(row["tenant"])
        BY <1>2, <3>1 DEF MalformedSet, Described
      <3>3. QED
        BY <1>2, <3>1, <3>2 DEF Fits
    <2>2. \A new : new.op = "create" /\ new.id = i => Inserts(d, new, row)
      BY <1>5 DEF Inserts
    <2>3. QED
      BY <1>2, <1>5, <2>1, <2>2, WrittenEffect DEF Described
  <1>6. QED
    BY <1>1, <1>3, <1>4, <1>5

(* What updates a row: the columns that an update's body or an archive     *)
(* names.                                                                  *)
UpdatedColumns(d, op, r, set) ==
  \/ op = "update" /\ set = r.request.set /\ Permitted(d, set)
  \/ op = "archive" /\ set = [status |-> IF d.name = "field_mappings"
                                         THEN "inactive" ELSE "archived"]

LEMMA UpdatedRow ==
  ASSUME RowsOK, NEW d \in Descriptors, Described(d), NEW op, NEW r, NEW set,
         UpdatedColumns(d, op, r, set), NEW i \in DOMAIN rows[d.name]
  PROVE  LET row == Merged(rows[d.name][i], set)
         IN /\ DOMAIN row = DOMAIN d.defaults
            /\ DOMAIN set \subseteq DOMAIN row \ {"tenant"}
            /\ \A col \in DOMAIN set : row[col] = set[col]
            /\ \A col \in DOMAIN row \ DOMAIN set : row[col] = rows[d.name][i][col]
            /\ d.scoped => row["tenant"] = rows[d.name][i]["tenant"]
            /\ d.scoped => Uuid(row["tenant"])
            /\ d = SemanticModelTable =>
                 \A col \in NestedLists : IsInjective(row[col])
  <1> DEFINE row == Merged(rows[d.name][i], set)
  <1>1. /\ DOMAIN row = DOMAIN rows[d.name][i]
        /\ \A col \in DOMAIN rows[d.name][i] : row[col] =
             IF col \in DOMAIN set THEN set[col] ELSE rows[d.name][i][col]
    BY MergedColumns
  <1> HIDE DEF row
  <1>2. /\ DOMAIN rows[d.name][i] = DOMAIN d.defaults
        /\ d.scoped => Uuid(rows[d.name][i]["tenant"])
        /\ d = SemanticModelTable =>
             \A col \in NestedLists : IsInjective(rows[d.name][i][col])
    BY DEF RowsOK, WellKept
  <1>3. DOMAIN set \subseteq DOMAIN d.defaults \ {"tenant"}
    <2>1. \A status : DOMAIN [status |-> status] = {"status"}
      OBVIOUS
    <2>2. QED
      BY <2>1 DEF UpdatedColumns, Permitted, Described
  <1>4. d.scoped => row["tenant"] = rows[d.name][i]["tenant"]
    BY <1>1, <1>2, <1>3 DEF Described
  <1>5. ASSUME d = SemanticModelTable, NEW col \in NestedLists
        PROVE  IsInjective(row[col])
    <2>1. col \in DOMAIN d.defaults /\ col # "status"
      BY <1>5 DEF SemanticModelTable, NestedLists
    <2>2. CASE col \in DOMAIN set
      <3>1. \A status : DOMAIN [status |-> status] = {"status"}
        OBVIOUS
      <3>2. Permitted(d, set)
        BY <2>1, <2>2, <3>1 DEF UpdatedColumns
      <3>3. QED
        BY <1>1, <1>2, <1>5, <2>1, <2>2, <3>2 DEF Permitted, UniqueNestedKeys
    <2>3. CASE col \notin DOMAIN set
      BY <1>1, <1>2, <1>5, <2>1, <2>3
    <2>4. QED
      BY <2>2, <2>3
  <1>6. QED
    BY <1>1, <1>2, <1>3, <1>4, <1>5 DEF row

LEMMA UpdateEffect ==
  ASSUME RowsOK, NEW c, NEW d \in Descriptors, Described(d), NEW op, NEW r,
         NEW set, call[c].at = "idle", UpdatedColumns(d, op, r, set),
         NEW errors \in MappedErrors,
         errors # RawErrors => d.scoped /\ op = "update",
         UpdateRow(c, d, op, r, set, errors)
  PROVE  Declined(c, d) \/ Stored(c, d)
  <1> DEFINE begun == Begun(d, op, r)
             request == r.request
             Row(i) == Merged(rows[d.name][i], set)
  <1>1. \/ Unavailable(c, begun)
        \/ /\ Answer(c, begun, errors["malformed"])
           /\ UNCHANGED <<rows, entries, restarts>>
        \/ /\ Answer(c, begun, "not_found")
           /\ UNCHANGED <<rows, entries, restarts>>
        \/ \E i \in Selected(d, request.tenant, request.id) :
             IF Violation(d, Row(i), i) # "none"
             THEN /\ Answer(c, begun, errors[Violation(d, Row(i), i)])
                  /\ UNCHANGED <<rows, entries, restarts>>
             ELSE /\ rows' = [rows EXCEPT ![d.name][i] = Row(i)]
                  /\ Written(c, d, begun, i, Row(i))
    BY DEF UpdateRow
  <1> HIDE DEF Row
  <1>2. CASE Unavailable(c, begun)
    BY <1>2, AnswerEffect DEF Unavailable, Answers
  <1>3. CASE /\ Answer(c, begun, errors["malformed"])
             /\ UNCHANGED <<rows, entries, restarts>>
    <2>1. errors["malformed"] = "error"
      BY ErrorAnswers DEF Violations
    <2>2. QED
      BY <1>3, <2>1, AnswerEffect DEF Answers
  <1>4. CASE /\ Answer(c, begun, "not_found")
             /\ UNCHANGED <<rows, entries, restarts>>
    BY <1>4, AnswerEffect DEF Answers
  <1>5. ASSUME NEW i \in Selected(d, request.tenant, request.id)
        PROVE  /\ i \in DOMAIN rows[d.name]
               /\ d.scoped => rows[d.name][i]["tenant"] = request.tenant
               /\ DOMAIN Row(i) = DOMAIN d.defaults
               /\ DOMAIN set \subseteq DOMAIN Row(i) \ {"tenant"}
               /\ \A col \in DOMAIN set : Row(i)[col] = set[col]
               /\ \A col \in DOMAIN Row(i) \ DOMAIN set :
                    Row(i)[col] = rows[d.name][i][col]
               /\ d.scoped => Row(i)["tenant"] = request.tenant
               /\ d.scoped => Uuid(Row(i)["tenant"])
               /\ d = SemanticModelTable =>
                    \A col \in NestedLists : IsInjective(Row(i)[col])
    <2>1. /\ i \in DOMAIN rows[d.name]
          /\ d.scoped => rows[d.name][i]["tenant"] = request.tenant
      BY DEF Selected
    <2>2. QED
      BY <2>1, UpdatedRow DEF Row
  <1>6. ASSUME NEW i \in Selected(d, request.tenant, request.id),
               Violation(d, Row(i), i) # "none",
               Answer(c, begun, errors[Violation(d, Row(i), i)]),
               UNCHANGED <<rows, entries, restarts>>
        PROVE  Declined(c, d)
    <2> DEFINE violation == Violation(d, Row(i), i)
    <2>1. errors[violation] \in {"error", "conflict"}
      BY <1>6, SomeViolation, ErrorAnswers
    <2>2. ASSUME errors[violation] = "conflict"
          PROVE  d.scoped /\ KeyTaken(d, r)
      <3>1. violation = "unique" /\ d.scoped /\ op = "update"
        BY <1>6, <2>2, SomeViolation, ErrorAnswers DEF RawErrors
      <3>2. PICK j \in DOMAIN rows[d.name] \ {i} :
              \A col \in d.unique : rows[d.name][j][col] = Row(i)[col]
        BY <1>6, <3>1, SomeViolation
      <3>3. set = request.set
        BY <3>1 DEF UpdatedColumns
      <3>4. /\ rows[d.name][j]["tenant"] = Row(i)["tenant"]
            /\ rows[d.name][j]["key"] = Row(i)["key"]
            /\ d.unique = {"tenant", "key"}
        BY <3>1, <3>2 DEF Described
      <3>5. "key" \in DOMAIN set
        <4>1. PICK col \in d.unique : rows[d.name][i][col] # rows[d.name][j][col]
          BY <1>5, <3>2 DEF RowsOK, WellKept
        <4>2. rows[d.name][i]["key"] # rows[d.name][j]["key"]
          BY <1>5, <3>1, <3>4, <4>1
        <4>3. "key" \in DOMAIN Row(i)
          BY <1>5 DEF Described
        <4>4. QED
          BY <1>5, <3>4, <4>2, <4>3
      <3>6. QED
        BY <1>5, <3>1, <3>2, <3>3, <3>4, <3>5 DEF KeyTaken
    <2>3. QED
      BY <1>6, <2>1, <2>2, AnswerEffect DEF Answers
  <1>7. ASSUME NEW i \in Selected(d, request.tenant, request.id),
               Violation(d, Row(i), i) = "none",
               rows' = [rows EXCEPT ![d.name][i] = Row(i)],
               Written(c, d, begun, i, Row(i))
        PROVE  Stored(c, d)
    <2>1. \A j \in DOMAIN rows[d.name] \ {i} :
            \E col \in d.unique : rows[d.name][j][col] # Row(i)[col]
      BY <1>7, NoViolation
    <2>2. Fits(d, Row(i), i)
      BY <1>5, <2>1 DEF Fits
    <2>3. rows' = [rows EXCEPT ![d.name] = [@ EXCEPT ![i] = Row(i)]]
      BY <1>7
    <2>4. ASSUME NEW new, new.op = op, new.id = i, new.request = request
          PROVE  Updates(d, new, Row(i))
      <3>1. i \in DOMAIN rows[d.name] /\ DOMAIN set \subseteq DOMAIN Row(i) \ {"tenant"}
        BY <1>5
      <3>2. CASE op = "update" /\ set = request.set
        BY <2>3, <2>4, <3>1, <3>2 DEF Updates, Row
      <3>3. CASE op = "archive" /\ set = [status |->
                   IF d.name = "field_mappings" THEN "inactive" ELSE "archived"]
        BY <2>3, <2>4, <3>1, <3>3 DEF Updates, Row
      <3>4. QED
        BY <3>2, <3>3 DEF UpdatedColumns
    <2>5. QED
      BY <1>5, <1>7, <2>2, <2>4, WrittenEffect DEF Described
  <1>8. QED
    BY <1>1, <1>2, <1>3, <1>4, <1>6, <1>7

LEMMA SelectEffect ==
  ASSUME NEW c, NEW d \in Descriptors, Described(d), NEW r, call[c].at = "idle",
         SelectRow(c, d, r)
  PROVE  Declined(c, d) \/ Shown(c, d)
  <1> DEFINE begun == Begun(d, "find", r)
             request == r.request
  <1>1. /\ UNCHANGED <<rows, entries, restarts>>
        /\ \/ Answer(c, begun, "error")
           \/ Answer(c, begun, "not_found")
           \/ \E i \in Selected(d, request.tenant, request.id) :
                Answer(c, [begun EXCEPT !.id = i], "ok")
    BY DEF SelectRow
  <1>2. CASE Answer(c, begun, "error") \/ Answer(c, begun, "not_found")
    BY <1>1, <1>2, AnswerEffect DEF Answers
  <1>3. ASSUME NEW i \in Selected(d, request.tenant, request.id),
               Answer(c, [begun EXCEPT !.id = i], "ok")
        PROVE  Shown(c, d)
    <2> DEFINE new == [[begun EXCEPT !.id = i] EXCEPT !.at = "done", !.answer = "ok"]
    <2>1. /\ new.table = d.name /\ new.at = "done" /\ new.answer = "ok"
          /\ new.id = i /\ new.items = Null /\ new.total = Null
          /\ new.request = request /\ new.op = "find"
          /\ DOMAIN new = DOMAIN IdleCall
      BY DEF Begun, IdleCall
    <2>2. Moves(c, new)
      BY <1>3 DEF Answer, Moves
    <2> HIDE DEF new
    <2>3. QED
      BY <1>1, <2>1, <2>2 DEF Shown, Opens, Selected
  <1>4. QED
    BY <1>1, <1>2, <1>3

LEMMA BeginEffect ==
  ASSUME NEW c, NEW d, NEW r, call[c].at = "idle",
         r.request.page \in Nat \ {0}, BeginListing(c, d, r)
  PROVE  Lists(c, d)
  <1> DEFINE before == Cardinality(Matching(d, r.request))
             new == [Begun(d, "list", r) EXCEPT !.at = "listing", !.before = before]
  <1>1. /\ new.table = d.name /\ new.at = "listing" /\ new.answer = "none"
        /\ new.id = Null /\ new.items = Null /\ new.total = Null
        /\ new.request = r.request /\ new.op = "list" /\ new.before = before
        /\ DOMAIN new = DOMAIN IdleCall
    BY DEF Begun, IdleCall
  <1>2. Moves(c, new) /\ UNCHANGED <<rows, entries, restarts>>
    BY DEF BeginListing, Moves
  <1> HIDE DEF new
  <1>3. QED
    BY <1>1, <1>2 DEF Lists, Opens

LEMMA PageEffect ==
  ASSUME NEW c, NEW d, DOMAIN call[c] = DOMAIN IdleCall, SelectPage(c, d)
  PROVE  Advances(c, d)
  <1> DEFINE request == call[c].request
             page == IF Reachable(d, request)
                     THEN PageOf(Matching(d, request), request.page) ELSE {}
             Half(items) == [call[c] EXCEPT !.items = items, !.total = call[c].total]
  <1>1. /\ Listing(c, d) /\ UNCHANGED <<rows, entries, restarts>>
        /\ \/ ListingFails(c)
           \/ ListingGoesOn(c, [call[c] EXCEPT !.items = page])
    BY DEF SelectPage
  <1>2. [call[c] EXCEPT !.items = page] = Half(page)
    BY DEF IdleCall
  <1>3. CASE ListingFails(c)
    <2>1. [Half(call[c].items) EXCEPT !.at = "done", !.answer = "error"]
            = [call[c] EXCEPT !.at = "done", !.answer = "error"]
      BY DEF IdleCall
    <2>2. Moves(c, [Half(call[c].items) EXCEPT !.at = "done", !.answer = "error"])
      BY <1>3, <2>1 DEF ListingFails, Answer, Moves
    <2>3. QED
      BY <1>1, <2>2 DEF Advances
  <1>4. CASE ListingGoesOn(c, Half(page))
    <2>1. Half(page).items = page /\ Half(page).total = call[c].total
      BY DEF IdleCall
    <2> HIDE DEF page
    <2>2. \/ Moves(c, Half(page))
          \/ /\ page # Null /\ call[c].total # Null
             /\ Moves(c, [Half(page) EXCEPT !.at = "done", !.answer = "ok"])
      BY <1>4, <2>1 DEF ListingGoesOn, Answer, Moves
    <2>3. QED
      BY <1>1, <2>2 DEF Advances, page
  <1>5. QED
    BY <1>1, <1>2, <1>3, <1>4

LEMMA CountEffect ==
  ASSUME NEW c, NEW d, DOMAIN call[c] = DOMAIN IdleCall, CountRows(c, d)
  PROVE  Advances(c, d)
  <1> DEFINE request == call[c].request
             total == IF Reachable(d, request)
                      THEN Cardinality(Matching(d, request)) ELSE 0
             Half(n) == [call[c] EXCEPT !.items = call[c].items, !.total = n]
  <1>1. /\ Listing(c, d) /\ UNCHANGED <<rows, entries, restarts>>
        /\ \/ ListingFails(c)
           \/ ListingGoesOn(c, [call[c] EXCEPT !.total = total])
    BY DEF CountRows
  <1>2. [call[c] EXCEPT !.total = total] = Half(total)
    BY DEF IdleCall
  <1>3. CASE ListingFails(c)
    <2>1. [Half(call[c].total) EXCEPT !.at = "done", !.answer = "error"]
            = [call[c] EXCEPT !.at = "done", !.answer = "error"]
      BY DEF IdleCall
    <2>2. Moves(c, [Half(call[c].total) EXCEPT !.at = "done", !.answer = "error"])
      BY <1>3, <2>1 DEF ListingFails, Answer, Moves
    <2>3. QED
      BY <1>1, <2>2 DEF Advances
  <1>4. CASE ListingGoesOn(c, Half(total))
    <2>1. Half(total).items = call[c].items /\ Half(total).total = total
      BY DEF IdleCall
    <2> HIDE DEF total
    <2>2. \/ Moves(c, Half(total))
          \/ /\ call[c].items # Null /\ total # Null
             /\ Moves(c, [Half(total) EXCEPT !.at = "done", !.answer = "ok"])
      BY <1>4, <2>1 DEF ListingGoesOn, Answer, Moves
    <2>3. QED
      BY <1>1, <2>2 DEF Advances, total
  <1>5. QED
    BY <1>1, <1>2, <1>3, <1>4

LEMMA RecordEffect ==
  ASSUME NEW c, NEW d, d.audited, RecordAudit(c, d)
  PROVE  Records(c, d)
  BY DEF RecordAudit, Records

----------------------------------------------------------------------------
(* Every call of an entity's module is such a statement.                   *)

LEMMA ReceivedRequest ==
  ASSUME NEW c, NEW d \in Descriptors, Described(d),
         NEW op \in DOMAIN d.routes, NEW r \in Received(c, d, op)
  PROVE  /\ call[c].at = "idle"
         /\ r.request \in Requests(d.name, op)
         /\ DOMAIN r = {"caller", "request"}
         /\ op \in {"create", "update"} =>
              DOMAIN r.request.set \subseteq d.dto.required \union d.dto.optional
         /\ op = "create" => "key" \in DOMAIN r.request.set
         /\ op = "list" => r.request.page \in Nat \ {0}
  <1>1. /\ call[c].at = "idle"
        /\ r \in [caller : Callers, request : Requests(d.name, op)]
    BY DEF Received, Incoming
  <1>2. Verdict(d, op, r) = "admitted"
    BY DEF Received
  <1>3. ValidRequest(d.dto, op, r.request)
    BY <1>2 DEF Verdict
  <1>4. op = "create" => ValidCreate(d.dto, r.request.set)
    BY <1>3 DEF ValidRequest
  <1>5. op = "update" => ValidUpdate(d.dto, r.request.set)
    BY <1>3 DEF ValidRequest
  <1>6. r.request \in Requests(d.name, op) /\ DOMAIN r = {"caller", "request"}
    BY <1>1
  <1>7. op = "list" => r.request.page \in Nat \ {0}
    BY <1>6, RequestsAssumption
  <1>8. QED
    BY <1>1, <1>4, <1>5, <1>6, <1>7 DEF ValidCreate, ValidUpdate, Described

(* The statements of one entity, by the routes it has.                     *)
LEMMA CreateCall ==
  ASSUME RowsOK, NEW c, NEW d \in Descriptors, d # SemanticModelTable,
         "create" \in DOMAIN d.routes, NEW errors \in MappedErrors,
         errors # RawErrors => d.scoped,
         NEW r \in Received(c, d, "create"), Insert(c, d, r, errors)
  PROVE  Effect(c, d)
  BY TablesDescribed, ReceivedRequest, InsertEffect DEF Permitted, Effect

LEMMA UpdateCall ==
  ASSUME RowsOK, NEW c, NEW d \in Descriptors, d # SemanticModelTable,
         "update" \in DOMAIN d.routes, NEW errors \in MappedErrors,
         errors # RawErrors => d.scoped,
         NEW r \in Received(c, d, "update"),
         UpdateRow(c, d, "update", r, r.request.set, errors)
  PROVE  Effect(c, d)
  <1>1. Permitted(d, r.request.set) /\ Described(d) /\ call[c].at = "idle"
    BY TablesDescribed, ReceivedRequest DEF Permitted
  <1>2. UpdatedColumns(d, "update", r, r.request.set)
    BY <1>1 DEF UpdatedColumns
  <1>3. QED
    BY <1>1, <1>2, UpdateEffect DEF Effect

LEMMA ArchiveCall ==
  ASSUME RowsOK, NEW c, NEW d \in Descriptors, "archive" \in DOMAIN d.routes,
         NEW r \in Received(c, d, "archive"),
         UpdateRow(c, d, "archive", r,
           [status |-> IF d.name = "field_mappings" THEN "inactive"
                       ELSE "archived"], RawErrors)
  PROVE  Effect(c, d)
  <1> DEFINE set == [status |-> IF d.name = "field_mappings" THEN "inactive"
                                ELSE "archived"]
  <1>1. Described(d) /\ call[c].at = "idle"
    BY TablesDescribed, ReceivedRequest
  <1>2. UpdatedColumns(d, "archive", r, set)
    BY DEF UpdatedColumns
  <1>3. RawErrors \in MappedErrors
    BY DEF MappedErrors
  <1> HIDE DEF set
  <1>4. QED
    BY <1>1, <1>2, <1>3, UpdateEffect DEF Effect, set

LEMMA FindCall ==
  ASSUME NEW c, NEW d \in Descriptors, "find" \in DOMAIN d.routes,
         NEW r \in Received(c, d, "find"), SelectRow(c, d, r)
  PROVE  Effect(c, d)
  BY TablesDescribed, ReceivedRequest, SelectEffect DEF Effect

LEMMA ListCall ==
  ASSUME NEW c, NEW d \in Descriptors, "list" \in DOMAIN d.routes,
         DOMAIN call[c] = DOMAIN IdleCall,
         \/ \E r \in Received(c, d, "list") : BeginListing(c, d, r)
         \/ SelectPage(c, d)
         \/ CountRows(c, d)
  PROVE  Effect(c, d)
  BY TablesDescribed, ReceivedRequest, BeginEffect, PageEffect, CountEffect
  DEF Effect

LEMMA RefuseCall ==
  ASSUME NEW c, NEW d, Refuse(c, d)
  PROVE  Effect(c, d)
  BY RefuseEffect DEF Refuse, Incoming, Effect

LEMMA RecordCall ==
  ASSUME NEW c, NEW d, d.audited, RecordAudit(c, d)
  PROVE  Effect(c, d)
  BY RecordEffect DEF Effect

(* What the routes of an entity lead to.                                   *)
Routed(d) ==
  /\ d \in Descriptors
  /\ {"create", "update", "list"} \subseteq DOMAIN d.routes

LEMMA TablesRouted == \A d \in Descriptors : Routed(d)
  <1>1. Routed(TenantTable)
    BY DEF Routed, Descriptors, TenantTable, TenantRoutes
  <1>2. Routed(UserTable)
    BY DEF Routed, Descriptors, UserTable, UserRoutes
  <1>3. Routed(ConnectionTable)
    BY DEF Routed, Descriptors, ConnectionTable, ConnectionRoutes
  <1>4. Routed(DatasetTable)
    BY DEF Routed, Descriptors, DatasetTable, DatasetRoutes
  <1>5. Routed(FieldMappingTable)
    BY DEF Routed, Descriptors, FieldMappingTable, FieldMappingRoutes
  <1>6. Routed(QueryDefinitionTable)
    BY DEF Routed, Descriptors, QueryDefinitionTable, QueryDefinitionRoutes
  <1>7. Routed(DashboardDefinitionTable)
    BY DEF Routed, Descriptors, DashboardDefinitionTable, DashboardDefinitionRoutes
  <1>8. Routed(ReportDefinitionTable)
    BY DEF Routed, Descriptors, ReportDefinitionTable, ReportDefinitionRoutes
  <1>9. Routed(SemanticModelTable)
    BY DEF Routed, Descriptors, SemanticModelTable, SemanticModelRoutes
  <1>10. QED
    BY <1>1, <1>2, <1>3, <1>4, <1>5, <1>6, <1>7, <1>8, <1>9
    DEF Descriptors

LEMMA OthersAreNotModels ==
  ASSUME NEW d \in Descriptors, d.name # "semantic_models"
  PROVE  d # SemanticModelTable
  BY TableNames

LEMMA TenantEffect ==
  ASSUME RowsOK, NEW c, DOMAIN call[c] = DOMAIN IdleCall, TenantCall(c)
  PROVE  \E d \in Descriptors : Effect(c, d)
  <1> DEFINE d == TenantTable
  <1>1. /\ d \in Descriptors /\ d # SemanticModelTable
        /\ {"create", "update", "list"} \subseteq DOMAIN d.routes
    BY TablesRouted, OthersAreNotModels, TableNames DEF Descriptors, Routed
  <1>2. "find" \in DOMAIN d.routes
    BY DEF TenantTable, TenantRoutes
  <1>3. RawErrors \in MappedErrors
    BY DEF MappedErrors
  <1> HIDE DEF d
  <1>4. CASE CreateTenant(c)
    BY <1>1, <1>2, <1>3, <1>4, CreateCall
    DEF d, CreateTenant, InsertTenant
  <1>5. CASE UpdateTenant(c)
    BY <1>1, <1>2, <1>3, <1>5, UpdateCall
    DEF d, UpdateTenant, UpdateTenantRow
  <1>6. CASE FindTenant(c)
    BY <1>1, <1>2, <1>3, <1>6, FindCall
    DEF d, FindTenant, SelectTenant
  <1>7. CASE FindTenants(c)
    BY <1>1, <1>2, <1>3, <1>7, ListCall
    DEF d, FindTenants, SelectTenantPage, CountTenants
  <1>8. CASE Refuse(c, d)
    BY <1>1, <1>8, RefuseCall
  <1>9. QED
    BY <1>1, <1>4, <1>5, <1>6, <1>7, <1>8
    DEF d, TenantCall

LEMMA UserEffect ==
  ASSUME RowsOK, NEW c, DOMAIN call[c] = DOMAIN IdleCall, UserCall(c)
  PROVE  \E d \in Descriptors : Effect(c, d)
  <1> DEFINE d == UserTable
  <1>1. /\ d \in Descriptors /\ d # SemanticModelTable
        /\ {"create", "update", "list"} \subseteq DOMAIN d.routes
    BY TablesRouted, OthersAreNotModels, TableNames DEF Descriptors, Routed
  <1>2. RawErrors \in MappedErrors
    BY DEF MappedErrors
  <1> HIDE DEF d
  <1>3. CASE CreateUser(c)
    BY <1>1, <1>2, <1>3, CreateCall
    DEF d, CreateUser, InsertUser
  <1>4. CASE UpdateUser(c)
    BY <1>1, <1>2, <1>4, UpdateCall
    DEF d, UpdateUser, UpdateUserRow
  <1>5. CASE FindUsers(c)
    BY <1>1, <1>2, <1>5, ListCall
    DEF d, FindUsers, SelectUserPage, CountUsers
  <1>6. CASE Refuse(c, d)
    BY <1>1, <1>6, RefuseCall
  <1>7. QED
    BY <1>1, <1>3, <1>4, <1>5, <1>6
    DEF d, UserCall

LEMMA ConnectionEffect ==
  ASSUME RowsOK, NEW c, DOMAIN call[c] = DOMAIN IdleCall, ConnectionCall(c)
  PROVE  \E d \in Descriptors : Effect(c, d)
  <1> DEFINE d == ConnectionTable
  <1>1. /\ d \in Descriptors /\ d # SemanticModelTable
        /\ {"create", "update", "list"} \subseteq DOMAIN d.routes
    BY TablesRouted, OthersAreNotModels, TableNames DEF Descriptors, Routed
  <1>2. "find" \in DOMAIN d.routes /\ d.audited
    BY DEF ConnectionTable, ConnectionRoutes
  <1>3. RawErrors \in MappedErrors
    BY DEF MappedErrors
  <1> HIDE DEF d
  <1>4. CASE CreateConnection(c)
    BY <1>1, <1>2, <1>3, <1>4, CreateCall
    DEF d, CreateConnection, InsertConnection
  <1>5. CASE UpdateConnection(c)
    BY <1>1, <1>2, <1>3, <1>5, UpdateCall
    DEF d, UpdateConnection, UpdateConnectionRow
  <1>6. CASE FindConnection(c)
    BY <1>1, <1>2, <1>3, <1>6, FindCall
    DEF d, FindConnection, SelectConnection
  <1>7. CASE FindConnections(c)
    BY <1>1, <1>2, <1>3, <1>7, ListCall
    DEF d, FindConnections, SelectConnectionPage, CountConnections
  <1>8. CASE RecordConnectionAudit(c)
    BY <1>1, <1>2, <1>3, <1>8, RecordCall
    DEF d, RecordConnectionAudit
  <1>9. CASE Refuse(c, d)
    BY <1>1, <1>9, RefuseCall
  <1>10. QED
    BY <1>1, <1>4, <1>5, <1>6, <1>7, <1>8, <1>9
    DEF d, ConnectionCall

LEMMA DatasetEffect ==
  ASSUME RowsOK, NEW c, DOMAIN call[c] = DOMAIN IdleCall, DatasetCall(c)
  PROVE  \E d \in Descriptors : Effect(c, d)
  <1> DEFINE d == DatasetTable
  <1>1. /\ d \in Descriptors /\ d # SemanticModelTable
        /\ {"create", "update", "list"} \subseteq DOMAIN d.routes
    BY TablesRouted, OthersAreNotModels, TableNames DEF Descriptors, Routed
  <1>2. "find" \in DOMAIN d.routes /\ "archive" \in DOMAIN d.routes /\ d.audited /\ d.scoped
    BY DEF DatasetTable, DatasetRoutes
  <1>3. DatasetErrors \in MappedErrors
    BY DEF MappedErrors, DatasetErrors
  <1> HIDE DEF d
  <1>4. CASE CreateDataset(c)
    BY <1>1, <1>2, <1>3, <1>4, CreateCall
    DEF d, CreateDataset, InsertDataset
  <1>5. CASE UpdateDataset(c)
    BY <1>1, <1>2, <1>3, <1>5, UpdateCall
    DEF d, UpdateDataset, UpdateDatasetRow
  <1>6. d.name # "field_mappings"
    BY TableNames DEF d
  <1>7. CASE ArchiveDataset(c)
    BY <1>1, <1>2, <1>6, <1>7, ArchiveCall
    DEF d, ArchiveDataset, ArchiveDatasetRow, UpdateDatasetRow
  <1>8. CASE FindDataset(c)
    BY <1>1, <1>2, <1>3, <1>8, FindCall
    DEF d, FindDataset, SelectDataset
  <1>9. CASE FindDatasets(c)
    BY <1>1, <1>2, <1>3, <1>9, ListCall
    DEF d, FindDatasets, SelectDatasetPage, CountDatasets
  <1>10. CASE RecordDatasetAudit(c)
    BY <1>1, <1>2, <1>3, <1>10, RecordCall
    DEF d, RecordDatasetAudit
  <1>11. CASE Refuse(c, d)
    BY <1>1, <1>11, RefuseCall
  <1>12. QED
    BY <1>1, <1>4, <1>5, <1>7, <1>8, <1>9, <1>10, <1>11
    DEF d, DatasetCall

LEMMA FieldMappingEffect ==
  ASSUME RowsOK, NEW c, DOMAIN call[c] = DOMAIN IdleCall, FieldMappingCall(c)
  PROVE  \E d \in Descriptors : Effect(c, d)
  <1> DEFINE d == FieldMappingTable
  <1>1. /\ d \in Descriptors /\ d # SemanticModelTable
        /\ {"create", "update", "list"} \subseteq DOMAIN d.routes
    BY TablesRouted, OthersAreNotModels, TableNames DEF Descriptors, Routed
  <1>2. "archive" \in DOMAIN d.routes /\ d.audited
    BY DEF FieldMappingTable, FieldMappingRoutes
  <1>3. RawErrors \in MappedErrors
    BY DEF MappedErrors
  <1> HIDE DEF d
  <1>4. CASE CreateFieldMapping(c)
    BY <1>1, <1>2, <1>3, <1>4, CreateCall
    DEF d, CreateFieldMapping, InsertFieldMapping
  <1>5. CASE UpdateFieldMapping(c)
    BY <1>1, <1>2, <1>3, <1>5, UpdateCall
    DEF d, UpdateFieldMapping, UpdateFieldMappingRow
  <1>6. d.name = "field_mappings"
    BY TableNames DEF d
  <1>7. CASE DeactivateFieldMapping(c)
    BY <1>1, <1>2, <1>6, <1>7, ArchiveCall
    DEF d, DeactivateFieldMapping, DeactivateFieldMappingRow, UpdateFieldMappingRow
  <1>8. CASE FindFieldMappings(c)
    BY <1>1, <1>2, <1>3, <1>8, ListCall
    DEF d, FindFieldMappings, SelectFieldMappingPage, CountFieldMappings
  <1>9. CASE RecordFieldMappingAudit(c)
    BY <1>1, <1>2, <1>3, <1>9, RecordCall
    DEF d, RecordFieldMappingAudit
  <1>10. CASE Refuse(c, d)
    BY <1>1, <1>10, RefuseCall
  <1>11. QED
    BY <1>1, <1>4, <1>5, <1>7, <1>8, <1>9, <1>10
    DEF d, FieldMappingCall

LEMMA QueryDefinitionEffect ==
  ASSUME RowsOK, NEW c, DOMAIN call[c] = DOMAIN IdleCall, QueryDefinitionCall(c)
  PROVE  \E d \in Descriptors : Effect(c, d)
  <1> DEFINE d == QueryDefinitionTable
  <1>1. /\ d \in Descriptors /\ d # SemanticModelTable
        /\ {"create", "update", "list"} \subseteq DOMAIN d.routes
    BY TablesRouted, OthersAreNotModels, TableNames DEF Descriptors, Routed
  <1>2. "find" \in DOMAIN d.routes /\ "archive" \in DOMAIN d.routes /\ d.audited /\ d.scoped
    BY DEF QueryDefinitionTable, QueryDefinitionRoutes
  <1>3. QueryDefinitionErrors \in MappedErrors
    BY DEF MappedErrors, QueryDefinitionErrors
  <1> HIDE DEF d
  <1>4. CASE CreateQueryDefinition(c)
    BY <1>1, <1>2, <1>3, <1>4, CreateCall
    DEF d, CreateQueryDefinition, InsertQueryDefinition
  <1>5. CASE UpdateQueryDefinition(c)
    BY <1>1, <1>2, <1>3, <1>5, UpdateCall
    DEF d, UpdateQueryDefinition, UpdateQueryDefinitionRow
  <1>6. d.name # "field_mappings"
    BY TableNames DEF d
  <1>7. CASE ArchiveQueryDefinition(c)
    BY <1>1, <1>2, <1>6, <1>7, ArchiveCall
    DEF d, ArchiveQueryDefinition, ArchiveQueryDefinitionRow, UpdateQueryDefinitionRow
  <1>8. CASE FindQueryDefinition(c)
    BY <1>1, <1>2, <1>3, <1>8, FindCall
    DEF d, FindQueryDefinition, SelectQueryDefinition
  <1>9. CASE FindQueryDefinitions(c)
    BY <1>1, <1>2, <1>3, <1>9, ListCall
    DEF d, FindQueryDefinitions, SelectQueryDefinitionPage, CountQueryDefinitions
  <1>10. CASE RecordQueryDefinitionAudit(c)
    BY <1>1, <1>2, <1>3, <1>10, RecordCall
    DEF d, RecordQueryDefinitionAudit
  <1>11. CASE Refuse(c, d)
    BY <1>1, <1>11, RefuseCall
  <1>12. QED
    BY <1>1, <1>4, <1>5, <1>7, <1>8, <1>9, <1>10, <1>11
    DEF d, QueryDefinitionCall

LEMMA DashboardDefinitionEffect ==
  ASSUME RowsOK, NEW c, DOMAIN call[c] = DOMAIN IdleCall, DashboardDefinitionCall(c)
  PROVE  \E d \in Descriptors : Effect(c, d)
  <1> DEFINE d == DashboardDefinitionTable
  <1>1. /\ d \in Descriptors /\ d # SemanticModelTable
        /\ {"create", "update", "list"} \subseteq DOMAIN d.routes
    BY TablesRouted, OthersAreNotModels, TableNames DEF Descriptors, Routed
  <1>2. "find" \in DOMAIN d.routes /\ "archive" \in DOMAIN d.routes /\ d.audited /\ d.scoped
    BY DEF DashboardDefinitionTable, DashboardDefinitionRoutes
  <1>3. DashboardDefinitionErrors \in MappedErrors
    BY DEF MappedErrors, DashboardDefinitionErrors
  <1> HIDE DEF d
  <1>4. CASE CreateDashboardDefinition(c)
    BY <1>1, <1>2, <1>3, <1>4, CreateCall
    DEF d, CreateDashboardDefinition, InsertDashboardDefinition
  <1>5. CASE UpdateDashboardDefinition(c)
    BY <1>1, <1>2, <1>3, <1>5, UpdateCall
    DEF d, UpdateDashboardDefinition, UpdateDashboardDefinitionRow
  <1>6. d.name # "field_mappings"
    BY TableNames DEF d
  <1>7. CASE ArchiveDashboardDefinition(c)
    BY <1>1, <1>2, <1>6, <1>7, ArchiveCall
    DEF d, ArchiveDashboardDefinition, ArchiveDashboardDefinitionRow, UpdateDashboardDefinitionRow
  <1>8. CASE FindDashboardDefinition(c)
    BY <1>1, <1>2, <1>3, <1>8, FindCall
    DEF d, FindDashboardDefinition, SelectDashboardDefinition
  <1>9. CASE FindDashboardDefinitions(c)
    BY <1>1, <1>2, <1>3, <1>9, ListCall
    DEF d, FindDashboardDefinitions, SelectDashboardDefinitionPage, CountDashboardDefinitions
  <1>10. CASE RecordDashboardDefinitionAudit(c)
    BY <1>1, <1>2, <1>3, <1>10, RecordCall
    DEF d, RecordDashboardDefinitionAudit
  <1>11. CASE Refuse(c, d)
    BY <1>1, <1>11, RefuseCall
  <1>12. QED
    BY <1>1, <1>4, <1>5, <1>7, <1>8, <1>9, <1>10, <1>11
    DEF d, DashboardDefinitionCall

LEMMA ReportDefinitionEffect ==
  ASSUME RowsOK, NEW c, DOMAIN call[c] = DOMAIN IdleCall, ReportDefinitionCall(c)
  PROVE  \E d \in Descriptors : Effect(c, d)
  <1> DEFINE d == ReportDefinitionTable
  <1>1. /\ d \in Descriptors /\ d # SemanticModelTable
        /\ {"create", "update", "list"} \subseteq DOMAIN d.routes
    BY TablesRouted, OthersAreNotModels, TableNames DEF Descriptors, Routed
  <1>2. "find" \in DOMAIN d.routes /\ "archive" \in DOMAIN d.routes /\ d.audited /\ d.scoped
    BY DEF ReportDefinitionTable, ReportDefinitionRoutes
  <1>3. ReportDefinitionErrors \in MappedErrors
    BY DEF MappedErrors, ReportDefinitionErrors
  <1> HIDE DEF d
  <1>4. CASE CreateReportDefinition(c)
    BY <1>1, <1>2, <1>3, <1>4, CreateCall
    DEF d, CreateReportDefinition, InsertReportDefinition
  <1>5. CASE UpdateReportDefinition(c)
    BY <1>1, <1>2, <1>3, <1>5, UpdateCall
    DEF d, UpdateReportDefinition, UpdateReportDefinitionRow
  <1>6. d.name # "field_mappings"
    BY TableNames DEF d
  <1>7. CASE ArchiveReportDefinition(c)
    BY <1>1, <1>2, <1>6, <1>7, ArchiveCall
    DEF d, ArchiveReportDefinition, ArchiveReportDefinitionRow, UpdateReportDefinitionRow
  <1>8. CASE FindReportDefinition(c)
    BY <1>1, <1>2, <1>3, <1>8, FindCall
    DEF d, FindReportDefinition, SelectReportDefinition
  <1>9. CASE FindReportDefinitions(c)
    BY <1>1, <1>2, <1>3, <1>9, ListCall
    DEF d, FindReportDefinitions, SelectReportDefinitionPage, CountReportDefinitions
  <1>10. CASE RecordReportDefinitionAudit(c)
    BY <1>1, <1>2, <1>3, <1>10, RecordCall
    DEF d, RecordReportDefinitionAudit
  <1>11. CASE Refuse(c, d)
    BY <1>1, <1>11, RefuseCall
  <1>12. QED
    BY <1>1, <1>4, <1>5, <1>7, <1>8, <1>9, <1>10, <1>11
    DEF d, ReportDefinitionCall

(* A sanitized body names the columns it named before.                     *)
LEMMA SanitizedRequest ==
  ASSUME NEW c, NEW op \in {"create", "update"},
         NEW r \in SanitizedRequests(c, op), UniqueNestedKeys(r.request.set)
  PROVE  /\ call[c].at = "idle"
         /\ Permitted(SemanticModelTable, r.request.set)
         /\ op = "create" => "key" \in DOMAIN r.request.set
  <1> DEFINE d == SemanticModelTable
  <1>1. /\ d \in Descriptors /\ Described(d) /\ op \in DOMAIN d.routes
    <2>1. {"create", "update"} \subseteq DOMAIN d.routes
      BY TablesRouted DEF Routed, Descriptors
    <2>2. QED
      BY <2>1, TablesDescribed DEF Descriptors
  <1>2. PICK q \in Received(c, d, op) :
          r = [q EXCEPT !.request.set = Sanitized(@)]
    BY DEF SanitizedRequests
  <1> HIDE DEF d
  <1>3. /\ call[c].at = "idle"
        /\ q.request \in Requests(d.name, op)
        /\ DOMAIN q = {"caller", "request"}
        /\ DOMAIN q.request.set \subseteq d.dto.required \union d.dto.optional
        /\ op = "create" => "key" \in DOMAIN q.request.set
    BY <1>1, ReceivedRequest
  <1>4. "set" \in DOMAIN q.request
    BY <1>1, <1>3, RequestsAssumption
  <1>5. r.request.set = Sanitized(q.request.set)
    BY <1>2, <1>3, <1>4
  <1>6. DOMAIN r.request.set = DOMAIN q.request.set
    BY <1>5 DEF Sanitized
  <1>7. QED
    BY <1>3, <1>6 DEF Permitted, d

LEMMA SemanticModelEffect ==
  ASSUME RowsOK, NEW c, DOMAIN call[c] = DOMAIN IdleCall, SemanticModelCall(c)
  PROVE  \E d \in Descriptors : Effect(c, d)
  <1> DEFINE d == SemanticModelTable
  <1>1. /\ d \in Descriptors /\ Described(d)
        /\ {"create", "update", "list"} \subseteq DOMAIN d.routes
    BY TablesRouted, TablesDescribed DEF Descriptors, Routed
  <1>2. "find" \in DOMAIN d.routes /\ "archive" \in DOMAIN d.routes
        /\ d.audited /\ d.scoped
    BY DEF SemanticModelTable, SemanticModelRoutes
  <1>3. SemanticModelErrors \in MappedErrors
    BY DEF MappedErrors, SemanticModelErrors
  <1>4. ASSUME NEW op, NEW r, call[c].at = "idle", RejectDuplicates(c, op, r)
        PROVE  Effect(c, d)
    <2>1. Declined(c, d)
      BY <1>4, AnswerEffect DEF RejectDuplicates, Answers
    <2>2. QED
      BY <2>1 DEF Effect
  <1>5. ASSUME NEW op, NEW r \in SanitizedRequests(c, op)
        PROVE  call[c].at = "idle"
    BY DEF SanitizedRequests, Received, Incoming
  <1> HIDE DEF d
  <1>6. CASE CreateSemanticModel(c)
    <2>1. PICK r \in SanitizedRequests(c, "create") :
            IF UniqueNestedKeys(r.request.set)
            THEN InsertSemanticModel(c, r) ELSE RejectDuplicates(c, "create", r)
      BY <1>6 DEF CreateSemanticModel
    <2>2. CASE UniqueNestedKeys(r.request.set)
      <3>1. Insert(c, d, r, SemanticModelErrors)
        <4>1. InsertSemanticModel(c, r)
          BY <2>1, <2>2
        <4>2. QED
          BY <4>1 DEF InsertSemanticModel, d
      <3>2. /\ call[c].at = "idle" /\ Permitted(d, r.request.set)
            /\ "key" \in DOMAIN r.request.set
        BY <2>2, SanitizedRequest DEF d
      <3>3. Declined(c, d) \/ Stored(c, d)
        BY <1>1, <1>2, <1>3, <3>1, <3>2, InsertEffect
      <3>4. QED
        BY <1>1, <3>3 DEF Effect
    <2>3. QED
      BY <1>1, <1>4, <1>5, <2>1, <2>2
  <1>7. CASE UpdateSemanticModel(c)
    <2>1. PICK r \in SanitizedRequests(c, "update") :
            IF UniqueNestedKeys(r.request.set)
            THEN UpdateSemanticModelRow(c, "update", r, r.request.set,
                                        SemanticModelErrors)
            ELSE RejectDuplicates(c, "update", r)
      BY <1>7 DEF UpdateSemanticModel
    <2>2. CASE UniqueNestedKeys(r.request.set)
      <3>1. UpdateRow(c, d, "update", r, r.request.set, SemanticModelErrors)
        <4>1. UpdateSemanticModelRow(c, "update", r, r.request.set,
                                     SemanticModelErrors)
          BY <2>1, <2>2
        <4>2. QED
          BY <4>1 DEF UpdateSemanticModelRow, d
      <3>2. call[c].at = "idle" /\ Permitted(d, r.request.set)
        BY <2>2, SanitizedRequest DEF d
      <3>3. UpdatedColumns(d, "update", r, r.request.set)
        BY <3>2 DEF UpdatedColumns
      <3>4. Declined(c, d) \/ Stored(c, d)
        BY <1>1, <1>2, <1>3, <3>1, <3>2, <3>3, UpdateEffect
      <3>5. QED
        BY <1>1, <3>4 DEF Effect
    <2>3. QED
      BY <1>1, <1>4, <1>5, <2>1, <2>2
  <1>8. CASE ArchiveSemanticModel(c)
    <2>1. d.name # "field_mappings"
      BY TableNames DEF d
    <2>2. QED
      BY <1>1, <1>2, <1>8, <2>1, ArchiveCall
      DEF d, ArchiveSemanticModel, ArchiveSemanticModelRow,
          UpdateSemanticModelRow
  <1>9. CASE FindSemanticModel(c)
    BY <1>1, <1>2, <1>9, FindCall DEF d, FindSemanticModel, SelectSemanticModel
  <1>10. CASE FindSemanticModels(c)
    BY <1>1, <1>10, ListCall
    DEF d, FindSemanticModels, SelectSemanticModelPage, CountSemanticModels
  <1>11. CASE RecordSemanticModelAudit(c)
    BY <1>1, <1>2, <1>11, RecordCall DEF d, RecordSemanticModelAudit
  <1>12. CASE Refuse(c, d)
    BY <1>1, <1>12, RefuseCall
  <1>13. QED
    BY <1>1, <1>6, <1>7, <1>8, <1>9, <1>10, <1>11, <1>12
    DEF d, SemanticModelCall

(* Whatever call it is: a step of a call has one of the six effects.       *)
LEMMA CallEffect ==
  ASSUME Typed, NEW c \in Calls, Call(c)
  PROVE  \E d \in Descriptors : Effect(c, d)
  BY TenantEffect, UserEffect, ConnectionEffect, DatasetEffect,
     FieldMappingEffect, QueryDefinitionEffect, DashboardDefinitionEffect,
     ReportDefinitionEffect, SemanticModelEffect
  DEF Call, Typed, CallOK

----------------------------------------------------------------------------
(* What a stored row leaves of its table and of the others.                *)

LEMMA SequenceOfItsElements ==
  ASSUME NEW S, NEW s \in Seq(S)
  PROVE  s \in Seq(Range(s))
  BY DEF Range

LEMMA GrownTable ==
  ASSUME NEW table, table \in Seq(Range(table)), NEW row, NEW i, NEW other,
         \/ other = Append(table, row) /\ i = Len(table) + 1
         \/ other = [table EXCEPT ![i] = row] /\ i \in DOMAIN table
  PROVE  /\ other \in Seq(Range(other))
         /\ i \in Nat
         /\ DOMAIN other = DOMAIN table \union {i}
         /\ other[i] = row
         /\ \A j \in DOMAIN table \ {i} : other[j] = table[j]
  <1> DEFINE S == Range(table) \union {row}
  <1>1. table \in Seq(S) /\ row \in S /\ Len(table) \in Nat
    <2>1. Range(table) \subseteq S
      OBVIOUS
    <2> HIDE DEF S
    <2>2. QED
      BY <2>1 DEF S
  <1> HIDE DEF S
  <1>2. /\ other \in Seq(S)
        /\ i \in Nat
        /\ DOMAIN other = DOMAIN table \union {i}
        /\ other[i] = row
        /\ \A j \in DOMAIN table \ {i} : other[j] = table[j]
    <2>1. CASE other = Append(table, row) /\ i = Len(table) + 1
      BY <1>1, <2>1
    <2>2. CASE other = [table EXCEPT ![i] = row] /\ i \in DOMAIN table
      <3>1. DOMAIN table = 1 .. Len(table)
        BY <1>1
      <3>2. /\ other \in Seq(S) /\ Len(other) = Len(table)
            /\ \A j \in 1 .. Len(table) :
                 other[j] = IF j = i THEN row ELSE table[j]
        BY <1>1, <2>2, <3>1, ExceptSeq
      <3>3. DOMAIN other = 1 .. Len(table) /\ i \in 1 .. Len(table)
        BY <2>2, <3>1, <3>2
      <3>4. i \in Nat /\ DOMAIN other = DOMAIN table \union {i}
        <4>1. i \in Nat
          BY <1>1, <3>3
        <4>2. DOMAIN other = DOMAIN table /\ i \in DOMAIN table
          BY <2>2, <3>1, <3>3
        <4>3. QED
          BY <4>1, <4>2, Zenon
      <3>5. other[i] = row /\ \A j \in DOMAIN table \ {i} : other[j] = table[j]
        BY <3>1, <3>2, <3>3
      <3>6. QED
        BY <3>2, <3>4, <3>5
    <2>3. QED
      BY <2>1, <2>2
  <1>3. QED
    BY <1>2, SequenceOfItsElements

(* What remains when c stores a row: the other tables, the other rows, and *)
(* what WellKept says of all of them.                                      *)
Grown(d, i, row) ==
  /\ RowsOK'
  /\ i \in Nat
  /\ \A t \in Tables \ {d.name} : rows'[t] = rows[t]
  /\ DOMAIN rows'[d.name] = DOMAIN rows[d.name] \union {i}
  /\ rows'[d.name][i] = row
  /\ \A j \in DOMAIN rows[d.name] \ {i} : rows'[d.name][j] = rows[d.name][j]

LEMMA StoringGrows ==
  ASSUME RowsOK, NEW d \in Descriptors, NEW new, NEW row, Fits(d, row, new.id),
         Inserts(d, new, row) \/ Updates(d, new, row)
  PROVE  Grown(d, new.id, row)
  <1> DEFINE table == rows[d.name]
             other == rows'[d.name]
             i == new.id
  <1>1. d.name \in Tables /\ DOMAIN rows = Tables /\ table \in Seq(Range(table))
    BY TablesAssumption DEF RowsOK, WellKept
  <1>2. /\ DOMAIN rows' = Tables
        /\ \A t \in Tables \ {d.name} : rows'[t] = rows[t]
        /\ \/ other = Append(table, row) /\ i = Len(table) + 1
           \/ other = [table EXCEPT ![i] = row] /\ i \in DOMAIN table
    BY <1>1 DEF Inserts, Updates
  <1>3. /\ other \in Seq(Range(other))
        /\ i \in Nat
        /\ DOMAIN other = DOMAIN table \union {i}
        /\ other[i] = row
        /\ \A j \in DOMAIN table \ {i} : other[j] = table[j]
    <2> HIDE DEF table, other, i
    <2>1. QED
      BY <1>1, <1>2, GrownTable
  <1>4. WellKept(d, table)
    BY DEF RowsOK
  <1>5. WellKept(d, other)
    <2>1. /\ DOMAIN row = DOMAIN d.defaults
          /\ d.scoped => Uuid(row["tenant"])
          /\ d = SemanticModelTable =>
               \A col \in NestedLists : IsInjective(row[col])
          /\ \A j \in DOMAIN table \ {i} :
               \E col \in d.unique : table[j][col] # row[col]
      BY DEF Fits
    <2> HIDE DEF table, other, i
    <2>2. \A j \in DOMAIN other :
            /\ DOMAIN other[j] = DOMAIN d.defaults
            /\ d.scoped => Uuid(other[j]["tenant"])
            /\ d = SemanticModelTable =>
                 \A col \in NestedLists : IsInjective(other[j][col])
      BY <1>3, <1>4, <2>1 DEF WellKept
    <2>3. ASSUME NEW j \in DOMAIN other, NEW k \in DOMAIN other, j # k
          PROVE  \E col \in d.unique : other[j][col] # other[k][col]
      BY <1>3, <1>4, <2>1, <2>3 DEF WellKept
    <2>4. QED
      BY <1>3, <2>2, <2>3 DEF WellKept
  <1>6. \A e \in Descriptors : WellKept(e, rows'[e.name])
    <2>1. ASSUME NEW e \in Descriptors, e # d
          PROVE  WellKept(e, rows'[e.name])
      <3>1. e.name \in Tables \ {d.name}
        BY <2>1, NamesApart, TablesAssumption
      <3>2. rows'[e.name] = rows[e.name]
        BY <1>2, <3>1
      <3>3. QED
        BY <3>2 DEF RowsOK
    <2>2. QED
      BY <1>5, <2>1
  <1>7. RowsOK'
    BY <1>2, <1>6 DEF RowsOK, WellKept
  <1>8. QED
    BY <1>2, <1>3, <1>7 DEF Grown

----------------------------------------------------------------------------
(* Types.                                                                  *)

LEMMA TypedInit == TableInit => Typed
  <1> SUFFICES ASSUME TableInit PROVE Typed
    OBVIOUS
  <1>1. RowsOK
    BY CatalogConstants, InitialRowsAssumption DEF TableInit, RowsOK
  <1>2. \A c \in Calls : CallOK(c)
    BY DEF TableInit, CallOK, IdleCall, Answers
  <1>3. QED
    BY <1>1, <1>2, CatalogConstants DEF TableInit, Typed, EntriesOK

(* The tables only grow.                                                   *)
Growing == \A t \in Tables : DOMAIN rows[t] \subseteq DOMAIN rows'[t]

LEMMA GrownGrows ==
  ASSUME NEW d, NEW i, NEW row, Grown(d, i, row)
  PROVE  Growing
  BY DEF Grown, Growing

LEMMA MovedCalls ==
  ASSUME DOMAIN call = Calls, NEW c \in Calls, NEW new, Moves(c, new)
  PROVE  /\ DOMAIN call' = Calls
         /\ call'[c] = new
         /\ \A x \in Calls \ {c} : call'[x] = call[x]
  BY DEF Moves

(* A step that moves c alone and lets the tables grow.                     *)
LEMMA TypedMove ==
  ASSUME Typed, NEW c \in Calls, NEW new, Moves(c, new),
         RowsOK', Growing, EntriesOK', restarts' = restarts,
         CallOK(c)'
  PROVE  Typed'
  <1>1. /\ DOMAIN call' = Calls
        /\ \A x \in Calls \ {c} : call'[x] = call[x]
    BY MovedCalls DEF Typed
  <1>2. ASSUME NEW x \in Calls \ {c}
        PROVE  CallOK(x)'
    BY <1>1, <1>2 DEF Typed, CallOK, Growing
  <1>3. QED
    BY <1>1, <1>2 DEF Typed

LEMMA RowsStay ==
  ASSUME RowsOK, UNCHANGED rows
  PROVE  RowsOK' /\ Growing
  BY DEF RowsOK, WellKept, Growing

LEMMA EntriesStay ==
  ASSUME EntriesOK, UNCHANGED entries, Growing
  PROVE  EntriesOK'
  BY DEF EntriesOK, Growing

LEMMA TypedDeclined ==
  ASSUME Typed, NEW c \in Calls, NEW d \in Descriptors, Declined(c, d)
  PROVE  Typed'
  <1>1. PICK new :
          /\ Opens(c, d, new)
          /\ new.at = "done" /\ new.id = Null
          /\ new.answer \in Answers \ {"none", "ok", "dropped"}
          /\ UNCHANGED <<rows, entries, restarts>>
    BY DEF Declined
  <1>2. /\ Moves(c, new) /\ call'[c] = new
        /\ DOMAIN new = DOMAIN IdleCall /\ new.items = Null
    BY <1>1, MovedCalls DEF Opens, Typed
  <1>3. CallOK(c)'
    BY <1>1, <1>2 DEF CallOK
  <1>4. QED
    BY <1>1, <1>2, <1>3, TypedMove, RowsStay, EntriesStay DEF Typed

LEMMA TypedShown ==
  ASSUME Typed, NEW c \in Calls, NEW d \in Descriptors, Shown(c, d)
  PROVE  Typed'
  <1>1. PICK new :
          /\ Opens(c, d, new)
          /\ new.at = "done" /\ new.answer = "ok"
          /\ new.id \in DOMAIN rows[d.name]
          /\ UNCHANGED <<rows, entries, restarts>>
    BY DEF Shown
  <1>2. /\ Moves(c, new) /\ call'[c] = new
        /\ DOMAIN new = DOMAIN IdleCall /\ new.items = Null /\ new.table = d.name
    BY <1>1, MovedCalls DEF Opens, Typed
  <1>3. d.name \in Tables
    BY TablesAssumption
  <1>4. CallOK(c)'
    BY <1>1, <1>2, <1>3 DEF CallOK, Answers
  <1>5. QED
    BY <1>1, <1>2, <1>4, TypedMove, RowsStay, EntriesStay DEF Typed

LEMMA TypedStored ==
  ASSUME Typed, NEW c \in Calls, NEW d \in Descriptors, Stored(c, d)
  PROVE  Typed'
  <1>1. PICK new, row :
          /\ Opens(c, d, new)
          /\ Fits(d, row, new.id)
          /\ Inserts(d, new, row) \/ Updates(d, new, row)
          /\ \/ new.at = "done" /\ new.answer = "error"
             \/ new.at = "audit" /\ new.answer = "none"
             \/ new.at = "done" /\ new.answer = "ok"
          /\ UNCHANGED <<entries, restarts>>
    BY DEF Stored
  <1>2. /\ Moves(c, new) /\ call'[c] = new
        /\ DOMAIN new = DOMAIN IdleCall /\ new.items = Null /\ new.table = d.name
    BY <1>1, MovedCalls DEF Opens, Typed
  <1>3. Grown(d, new.id, row) /\ Growing
    BY <1>1, StoringGrows, GrownGrows DEF Typed
  <1>4. /\ d.name \in Tables /\ new.id # Null
        /\ new.id \in DOMAIN rows'[d.name]
    BY <1>3, TablesAssumption, NumberIsNotNull DEF Grown
  <1>5. CallOK(c)'
    BY <1>1, <1>2, <1>4 DEF CallOK, Answers
  <1>6. QED
    BY <1>1, <1>2, <1>3, <1>5, TypedMove, EntriesStay DEF Typed, Grown

LEMMA TypedLists ==
  ASSUME Typed, NEW c \in Calls, NEW d \in Descriptors, Lists(c, d)
  PROVE  Typed'
  <1>1. PICK new :
          /\ Opens(c, d, new)
          /\ new.at = "listing" /\ new.answer = "none" /\ new.id = Null
          /\ UNCHANGED <<rows, entries, restarts>>
    BY DEF Lists
  <1>2. /\ Moves(c, new) /\ call'[c] = new
        /\ DOMAIN new = DOMAIN IdleCall /\ new.items = Null
    BY <1>1, MovedCalls DEF Opens, Typed
  <1>3. CallOK(c)'
    BY <1>1, <1>2 DEF CallOK, Answers
  <1>4. QED
    BY <1>1, <1>2, <1>3, TypedMove, RowsStay, EntriesStay DEF Typed

(* What a listing's next record has of the one before.                     *)
Advanced(c, d, new) ==
  LET old == call[c]
      request == old.request
  IN /\ Moves(c, new) /\ DOMAIN new = DOMAIN IdleCall
     /\ old.at = "listing" /\ old.table = d.name
     /\ new.table = old.table /\ new.op = old.op /\ new.id = old.id
     /\ new.request = old.request /\ new.status = old.status
     /\ new.before = old.before
     /\ \/ new.items = old.items
        \/ new.items = IF Reachable(d, request)
                       THEN PageOf(Matching(d, request), request.page) ELSE {}
     /\ \/ new.total = old.total
        \/ new.total = IF Reachable(d, request)
                       THEN Cardinality(Matching(d, request)) ELSE 0
     /\ \/ new.at = "done" /\ new.answer = "error"
        \/ new.at = "listing" /\ new.answer = "none"
        \/ /\ new.at = "done" /\ new.answer = "ok"
           /\ new.items # Null /\ new.total # Null
     /\ UNCHANGED <<rows, entries, restarts>>

LEMMA AdvancesGivesRecord ==
  ASSUME NEW c, CallOK(c), NEW d, Advances(c, d)
  PROVE  \E new : Advanced(c, d, new)
  <1> DEFINE old == call[c]
             request == old.request
             page == IF Reachable(d, request)
                     THEN PageOf(Matching(d, request), request.page) ELSE {}
             count == IF Reachable(d, request)
                      THEN Cardinality(Matching(d, request)) ELSE 0
  <1>1. PICK items, total :
          LET next == [old EXCEPT !.items = items, !.total = total]
          IN /\ Listing(c, d)
             /\ items = old.items \/ items = page
             /\ total = old.total \/ total = count
             /\ \/ Moves(c, [next EXCEPT !.at = "done", !.answer = "error"])
                \/ Moves(c, next)
                \/ /\ items # Null /\ total # Null
                   /\ Moves(c, [next EXCEPT !.at = "done", !.answer = "ok"])
             /\ UNCHANGED <<rows, entries, restarts>>
    BY DEF Advances
  <1> HIDE DEF page, count
  <1> DEFINE next == [old EXCEPT !.items = items, !.total = total]
             New(at, answer) == [next EXCEPT !.at = at, !.answer = answer]
  <1>2. /\ DOMAIN old = DOMAIN IdleCall /\ old.at = "listing" /\ old.answer = "none"
        /\ old.table = d.name
    BY <1>1 DEF Listing, CallOK
  <1>3. next = New("listing", "none")
    BY <1>2 DEF IdleCall
  <1>4. \E at, answer :
          /\ Moves(c, New(at, answer))
          /\ \/ at = "done" /\ answer = "error"
             \/ at = "listing" /\ answer = "none"
             \/ /\ at = "done" /\ answer = "ok"
                /\ items # Null /\ total # Null
    BY <1>1, <1>3
  <1>5. PICK at, answer :
          /\ Moves(c, New(at, answer))
          /\ \/ at = "done" /\ answer = "error"
             \/ at = "listing" /\ answer = "none"
             \/ /\ at = "done" /\ answer = "ok"
                /\ items # Null /\ total # Null
    BY <1>4
  <1> DEFINE new == New(at, answer)
  <1>6. /\ DOMAIN new = DOMAIN IdleCall
        /\ new.table = old.table /\ new.op = old.op /\ new.id = old.id
        /\ new.request = old.request /\ new.status = old.status
        /\ new.before = old.before
        /\ new.items = items /\ new.total = total
        /\ new.at = at /\ new.answer = answer
    BY <1>2 DEF IdleCall
  <1> HIDE DEF new, next
  <1>7. Advanced(c, d, new)
    <2>1. Moves(c, new)
      BY <1>5 DEF new
    <2>2. QED
      BY <1>1, <1>2, <1>5, <1>6, <2>1 DEF Advanced, page, count
  <1>8. QED
    BY <1>7

LEMMA TypedAdvances ==
  ASSUME Typed, NEW c \in Calls, NEW d \in Descriptors, Advances(c, d)
  PROVE  Typed'
  <1>1. CallOK(c)
    BY DEF Typed
  <1>2. PICK new : Advanced(c, d, new)
    BY <1>1, AdvancesGivesRecord
  <1>3. call'[c] = new /\ UNCHANGED rows
    BY <1>2, MovedCalls DEF Advanced, Typed
  <1>4. \/ new.items = call[c].items
        \/ new.items \subseteq DOMAIN rows[d.name]
    BY <1>2 DEF Advanced, PageOf, Matching
  <1>5. d.name \in Tables
    BY TablesAssumption
  <1>6. CallOK(c)'
    BY <1>1, <1>2, <1>3, <1>4, <1>5 DEF CallOK, Advanced, Answers
  <1>7. QED
    BY <1>2, <1>6, TypedMove, RowsStay, EntriesStay DEF Typed, Advanced

(* What the answer to a write that reached the audit log leaves.           *)
Recorded(c, d, new) ==
  LET old == call[c]
      entry == [table |-> d.name, action |-> old.op, id |-> old.id,
                status |-> old.status, call |-> c]
  IN /\ Moves(c, new) /\ DOMAIN new = DOMAIN IdleCall
     /\ old.at = "audit" /\ old.table = d.name /\ d.audited
     /\ new.table = old.table /\ new.op = old.op /\ new.id = old.id
     /\ new.request = old.request /\ new.status = old.status
     /\ new.items = old.items
     /\ new.at = "done" /\ new.answer \in {"ok", "error"}
     /\ entries \subseteq entries' /\ entries' \subseteq entries \union {entry}
     /\ new.answer = "ok" => entry \in entries'
     /\ UNCHANGED <<rows, restarts>>

LEMMA RecordsGivesRecord ==
  ASSUME NEW c, CallOK(c), NEW d, Records(c, d)
  PROVE  \E new : Recorded(c, d, new)
  <1> DEFINE entry == [table |-> d.name, action |-> call[c].op,
                       id |-> call[c].id, status |-> call[c].status, call |-> c]
  <1>1. \E a \in {"ok", "error"} :
          /\ Answer(c, call[c], a)
          /\ entries \subseteq entries' /\ entries' \subseteq entries \union {entry}
          /\ a = "ok" => entry \in entries'
    <2> HIDE DEF entry
    <2>1. /\ call[c].at = "audit" /\ call[c].table = d.name
          /\ \/ /\ entries' = entries \union {entry}
                /\ Answer(c, call[c], "ok") \/ Answer(c, call[c], "error")
             \/ Answer(c, call[c], "error") /\ UNCHANGED entries
      BY DEF Records, entry
    <2>2. QED
      BY <2>1
  <1>2. PICK answer \in {"ok", "error"} :
          /\ Answer(c, call[c], answer)
          /\ entries \subseteq entries' /\ entries' \subseteq entries \union {entry}
          /\ answer = "ok" => entry \in entries'
    BY <1>1
  <1> DEFINE new == [call[c] EXCEPT !.at = "done", !.answer = answer]
  <1>3. /\ DOMAIN new = DOMAIN IdleCall
        /\ new.table = call[c].table /\ new.op = call[c].op
        /\ new.id = call[c].id /\ new.request = call[c].request
        /\ new.status = call[c].status /\ new.items = call[c].items
        /\ new.at = "done" /\ new.answer = answer
    BY DEF CallOK, IdleCall
  <1>4. Moves(c, new)
    BY <1>2 DEF Answer, Moves
  <1> HIDE DEF new, entry
  <1>5. Recorded(c, d, new)
    BY <1>2, <1>3, <1>4 DEF Records, Recorded, entry
  <1>6. QED
    BY <1>5

LEMMA TypedRecords ==
  ASSUME Typed, NEW c \in Calls, NEW d \in Descriptors, Records(c, d)
  PROVE  Typed'
  <1>1. CallOK(c)
    BY DEF Typed
  <1>2. PICK new : Recorded(c, d, new)
    BY <1>1, RecordsGivesRecord
  <1>3. call'[c] = new /\ UNCHANGED rows
    BY <1>2, MovedCalls DEF Recorded, Typed
  <1>4. CallOK(c)'
    BY <1>1, <1>2, <1>3 DEF CallOK, Recorded, Answers
  <1>5. EntriesOK'
    <2>1. d.name \in Tables /\ call[c].id \in DOMAIN rows[d.name]
      BY <1>1, <1>2, TablesAssumption DEF CallOK, Recorded
    <2>2. \A e \in entries' \ entries : e.table = d.name /\ e.id = call[c].id
      BY <1>2 DEF Recorded
    <2>3. QED
      BY <1>3, <2>1, <2>2 DEF Typed, EntriesOK
  <1>6. QED
    BY <1>2, <1>4, <1>5, TypedMove, RowsStay DEF Typed, Recorded

LEMMA TypedEffect ==
  ASSUME Typed, NEW c \in Calls, NEW d \in Descriptors, Effect(c, d)
  PROVE  Typed'
  BY TypedDeclined, TypedShown, TypedStored, TypedLists, TypedAdvances,
     TypedRecords
  DEF Effect

(* What a restart makes of a call.                                         *)
LEMMA Restarted ==
  ASSUME Typed, Restart
  PROVE  /\ DOMAIN call' = Calls
         /\ UNCHANGED <<rows, entries>>
         /\ \A c \in Calls :
              \/ call'[c] = call[c]
              \/ /\ call[c].at \in {"audit", "listing"}
                 /\ call'[c] = [call[c] EXCEPT !.at = "done", !.answer = "dropped"]
                 /\ DOMAIN call'[c] = DOMAIN IdleCall
                 /\ \A f \in DOMAIN IdleCall \ {"at", "answer"} :
                      call'[c][f] = call[c][f]
                 /\ call'[c].at = "done" /\ call'[c].answer = "dropped"
  <1>1. ASSUME NEW c \in Calls
        PROVE  LET new == [call[c] EXCEPT !.at = "done", !.answer = "dropped"]
               IN /\ DOMAIN new = DOMAIN IdleCall
                  /\ \A f \in DOMAIN IdleCall \ {"at", "answer"} :
                       new[f] = call[c][f]
                  /\ new.at = "done" /\ new.answer = "dropped"
    BY DEF Typed, CallOK, IdleCall
  <1>2. QED
    BY <1>1 DEF Restart

LEMMA TypedRestart ==
  ASSUME Typed, Restart
  PROVE  Typed'
  <1>1. ASSUME NEW c \in Calls
        PROVE  CallOK(c)'
    <2>1. CallOK(c)
      BY DEF Typed
    <2>2. UNCHANGED rows
      BY Restarted
    <2>3. CASE call'[c] = call[c]
      BY <2>1, <2>2, <2>3 DEF CallOK
    <2>4. CASE call'[c] # call[c]
      <3>1. /\ DOMAIN call'[c] = DOMAIN IdleCall
            /\ call'[c].at = "done" /\ call'[c].answer = "dropped"
            /\ \A f \in DOMAIN IdleCall \ {"at", "answer"} :
                 call'[c][f] = call[c][f]
        BY <2>4, Restarted
      <3>2. /\ call'[c].id = call[c].id /\ call'[c].table = call[c].table
            /\ call'[c].items = call[c].items
        BY <3>1 DEF IdleCall
      <3>3. QED
        BY <2>1, <2>2, <3>1, <3>2 DEF CallOK, Answers
    <2>5. QED
      BY <2>3, <2>4
  <1>2. restarts' \in 0 .. MaxRestarts
    <2>1. /\ restarts \in 0 .. MaxRestarts /\ MaxRestarts \in Nat
          /\ restarts < MaxRestarts /\ restarts' = restarts + 1
      BY CatalogConstants DEF Restart, Typed
    <2>2. QED
      BY <2>1
  <1>3. QED
    BY <1>1, <1>2, Restarted, RowsStay, EntriesStay DEF Typed

LEMMA TypedStutter ==
  ASSUME Typed, UNCHANGED tableVars
  PROVE  Typed'
  BY RowsStay, EntriesStay DEF Typed, tableVars, CallOK

LEMMA TypedStep ==
  ASSUME Typed, [Next]_tableVars
  PROVE  Typed'
  BY CallEffect, TypedEffect, TypedRestart, TypedStutter DEF Next

(* The tables keep the columns, the tenants' ids and the keys that the     *)
(* migrations ask for, and no call or entry points at a row that is not    *)
(* there, whatever calls meet and whenever the process restarts.           *)
THEOREM CatalogKept == Spec => []Typed
  <1>1. TableInit => Typed
    BY TypedInit
  <1>2. Typed /\ [Next]_tableVars => Typed'
    BY TypedStep
  <1>3. QED
    BY <1>1, <1>2, PTL DEF Spec

LEMMA TypedMeansTypeOK == Typed => CatalogTypeOK
  <1> SUFFICES ASSUME Typed PROVE CatalogTypeOK
    OBVIOUS
  <1>1. \A d \in Descriptors : \A i \in DOMAIN rows[d.name] :
          DOMAIN rows[d.name][i] = DOMAIN d.defaults
    BY DEF Typed, RowsOK, WellKept
  <1>2. \A c \in Calls :
          /\ call[c].at \in {"idle", "audit", "listing", "done"}
          /\ call[c].answer \in Answers
          /\ (call[c].answer = "none") = (call[c].at # "done")
    BY DEF Typed, CallOK
  <1>3. QED
    BY <1>1, <1>2 DEF CatalogTypeOK, Typed, EntriesOK

(* The types the statements and the audit log rely on.                     *)
THEOREM CatalogTypeCorrect == Spec => []CatalogTypeOK
  <1>1. Typed => CatalogTypeOK
    BY TypedMeansTypeOK
  <1>2. QED
    BY <1>1, CatalogKept, PTL

LEMMA TypedMeansNestedKeys == Typed => NestedKeysUnique
  BY TableNames DEF Typed, RowsOK, WellKept, NestedKeysUnique, Descriptors

(* Creations and updates of semantic models store lists of different keys  *)
(* only, though an update checks the lists of its own body alone.          *)
(* (assertUniqueNestedKeys.)                                               *)
THEOREM ModelsKeepKeysUnique == Spec => []NestedKeysUnique
  <1>1. Typed => NestedKeysUnique
    BY TypedMeansNestedKeys
  <1>2. QED
    BY <1>1, CatalogKept, PTL
===============================================================================
