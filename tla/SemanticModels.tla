---------------------------- MODULE SemanticModels ----------------------------
(***************************************************************************)
(* SemanticModelsService: a model carries three lists of keyed elements;   *)
(* a list is the sequence of its elements' keys.  The checks look at the   *)
(* lists of the body alone, never at the row.                              *)
(***************************************************************************)
EXTENDS CatalogTable, Functions

NestedLists == {"measures", "dimensions", "terms"}

SemanticModelDto ==
  [required |-> {"key", "body"},
   optional |-> {"status", "measures", "dimensions", "terms"}]

SemanticModelRoutes ==
  [create |-> Editors, update |-> Editors,
   archive |-> Editors, list |-> {}, find |-> {}]

SemanticModelTable == [
  name |-> "semantic_models", scoped |-> TRUE, audited |-> TRUE,
  defaults |-> [tenant |-> Null, key |-> Null,
               status |-> "draft",
               measures |-> <<>>, dimensions |-> <<>>, terms |-> <<>>,
               body |-> Null],
  nullable |-> {}, unique |-> {"tenant", "key"}, uuids |-> {"tenant"},
  references |-> [tenant |-> "tenants"],
  dto |-> SemanticModelDto, routes |-> SemanticModelRoutes]

(* handlePersistenceError: a unique violation is told as a conflict.       *)
SemanticModelErrors ==
  [v \in Violations |-> IF v = "unique" THEN "conflict" ELSE "error"]

(* The sanitizer makes an empty list of one that is null.                  *)
Sanitized(set) ==
  [col \in DOMAIN set |->
     IF col \in NestedLists /\ set[col] = Null THEN <<>> ELSE set[col]]

(* Defect: only the first of the lists is looked at.                       *)
UniqueKeysOfMeasures(set) ==
  "measures" \in DOMAIN set => IsInjective(set["measures"])

(* assertUniqueNestedKeys: no key twice in a list the body carries.        *)
UniqueNestedKeys(set) ==
  \A col \in NestedLists \intersect DOMAIN set : IsInjective(set[col])

SanitizedRequests(c, op) ==
  {[r EXCEPT !.request.set = Sanitized(@)] :
     r \in Received(c, SemanticModelTable, op)}

InsertSemanticModel(c, r) ==
  Insert(c, SemanticModelTable, r, SemanticModelErrors)

RejectDuplicates(c, op, r) ==
  /\ Answer(c, Begun(SemanticModelTable, op, r), "bad_request")
  /\ UNCHANGED <<rows, entries, restarts>>

CreateSemanticModel(c) ==
  \E r \in SanitizedRequests(c, "create") :
    IF UniqueNestedKeys(r.request.set)
    THEN InsertSemanticModel(c, r)
    ELSE RejectDuplicates(c, "create", r)

UpdateSemanticModelRow(c, op, r, set, errors) ==
  UpdateRow(c, SemanticModelTable, op, r, set, errors)

UpdateSemanticModel(c) ==
  \E r \in SanitizedRequests(c, "update") :
    IF UniqueNestedKeys(r.request.set)
    THEN UpdateSemanticModelRow(c, "update", r, r.request.set,
                                SemanticModelErrors)
    ELSE RejectDuplicates(c, "update", r)

ArchiveSemanticModelRow(c, r) ==
  UpdateSemanticModelRow(c, "archive", r, [status |-> "archived"], RawErrors)

ArchiveSemanticModel(c) ==
  \E r \in Received(c, SemanticModelTable, "archive") :
    ArchiveSemanticModelRow(c, r)

SelectSemanticModel(c, r) == SelectRow(c, SemanticModelTable, r)

FindSemanticModel(c) ==
  \E r \in Received(c, SemanticModelTable, "find") : SelectSemanticModel(c, r)

SelectSemanticModelPage(c) == SelectPage(c, SemanticModelTable)

CountSemanticModels(c) == CountRows(c, SemanticModelTable)

FindSemanticModels(c) ==
  \/ \E r \in Received(c, SemanticModelTable, "list") :
       BeginListing(c, SemanticModelTable, r)
  \/ SelectSemanticModelPage(c)
  \/ CountSemanticModels(c)

RecordSemanticModelAudit(c) == RecordAudit(c, SemanticModelTable)

SemanticModelCall(c) ==
  \/ CreateSemanticModel(c) \/ UpdateSemanticModel(c)
  \/ ArchiveSemanticModel(c)
  \/ FindSemanticModel(c) \/ FindSemanticModels(c)
  \/ RecordSemanticModelAudit(c)
  \/ Refuse(c, SemanticModelTable)
===============================================================================
