------------------------ MODULE BridgeResolver_proofs ------------------------
(***************************************************************************)
(* The bridge resolver keeps the contract that the preparation of commands *)
(* stands on, and what it prepares is what the catalogue holds: the        *)
(* resolution is a stack machine, whose program (pending) and stack        *)
(* (partials) are explained, at every step, by the definitions that the    *)
(* bundles on the stack stand for.                                         *)
(***************************************************************************)
EXTENDS BridgeResolver, Readiness_proofs

(* The initial state is one of the contract's.                             *)
LEMMA ContractBegins == Init => Contract!Init
  BY CodesAssumption DEF Codes, Init, Contract!Init, EventStatus

(* The statuses that the codes of a result stand for.                      *)
LEMMA StatusOfCode ==
  ASSUME NEW code \in Codes, verdict' = code
  PROVE  /\ EventStatus' \in Contract!OutcomeStatuses
         /\ code \in {"execution_request_not_found", "readiness_blocked",
                      "references_blocked"} => EventStatus' = "blocked"
  BY CodesAssumption DEF Codes, EventStatus, Contract!OutcomeStatuses

(* A result comes at the stage that may give it, with a status it may have. *)
LEMMA ConcludingKeepsContract ==
  ASSUME NEW code \in Codes, Conclude(code),
         \/ stage = "request" /\ code = "execution_request_not_found"
         \/ stage = "readiness" /\ code = "readiness_blocked"
         \/ stage = "references"
  PROVE  Contract!Next
  <1> USE DEF Conclude, Become, Contract!End, Contract!Endings
  <1>1. CASE stage = "request" /\ code = "execution_request_not_found"
    BY <1>1, StatusOfCode DEF Contract!Next
  <1>2. CASE stage = "readiness" /\ code = "readiness_blocked"
    BY <1>2, StatusOfCode DEF Contract!Next
  <1>3. CASE stage = "references"
    BY <1>3, StatusOfCode DEF Contract!Next
  <1>4. QED
    BY <1>1, <1>2, <1>3

(* Without a result the stage alone moves, or nothing does.                *)
LEMMA ProceedingKeepsContract ==
  ASSUME UNCHANGED verdict,
         \/ stage = "request" /\ stage' = "readiness"
         \/ stage = "readiness" /\ stage' = "references"
         \/ stage \in {"request", "readiness"} /\ stage' = "threw"
  PROVE  Contract!Next
  BY DEF Contract!Next, Contract!Find, Contract!Judge, Contract!Raise,
         Contract!Raising, Contract!Proceed, EventStatus

LEMMA WorkIsUnseen ==
  ASSUME UNCHANGED <<stage, verdict>>
  PROVE  UNCHANGED Contract!contractVars
  BY DEF Contract!contractVars, EventStatus

(* Every step of the resolver is one of the contract's or none.            *)
LEMMA StepKeepsContract ==
  ASSUME [Next]_vars
  PROVE  [Contract!Next]_(Contract!contractVars)
  <1> USE DEF bridgeVars
  <1>1. CASE ReadRequest
    <2>1. CASE Conclude("execution_request_not_found")
      BY <1>1, <2>1, ConcludingKeepsContract DEF ReadRequest, Codes
    <2>2. CASE Become("readiness") /\ UNCHANGED verdict
      BY <1>1, <2>2, ProceedingKeepsContract DEF ReadRequest, Become
    <2>3. QED
      BY <1>1, <2>1, <2>2 DEF ReadRequest
  <1>2. CASE EvaluateReadiness
    BY <1>2, WorkIsUnseen DEF EvaluateReadiness
  <1>3. CASE JudgeReadiness
    <2>1. CASE blockers # {}
      BY <1>3, <2>1, ConcludingKeepsContract DEF JudgeReadiness, Codes
    <2>2. CASE blockers = {}
      BY <1>3, <2>2, ProceedingKeepsContract DEF JudgeReadiness, Become
    <2>3. QED
      BY <2>1, <2>2
  <1>4. CASE ResolveReferences
    BY <1>4, WorkIsUnseen DEF ResolveReferences
  <1>5. CASE BlockOnReferences
    BY <1>5, ConcludingKeepsContract DEF BlockOnReferences, Codes
  <1>6. CASE PrepareCommand
    <2>1. PICK valid \in BOOLEAN : ValidateCommand(valid)
      BY <1>6 DEF PrepareCommand
    <2>2. QED
      BY <1>6, <2>1, ConcludingKeepsContract
      DEF PrepareCommand, ValidateCommand, Codes
  <1>7. CASE FailRead
    BY <1>7, ProceedingKeepsContract DEF FailRead, Become
  <1>8. CASE EditCatalog
    BY <1>8, WorkIsUnseen DEF EditCatalog
  <1>9. CASE UNCHANGED vars
    BY <1>9, WorkIsUnseen DEF vars
  <1>10. QED
    BY <1>1, <1>2, <1>3, <1>4, <1>5, <1>6, <1>7, <1>8, <1>9 DEF Next, Step

(* prepareCommand implements the contract, for any catalogue, any edits    *)
(* that meet the walk and any reads that fail: one result, settled by the  *)
(* first part that objects, an exception only before the references.       *)
(* (RuntimeConnectorBridgeResolver.prepareCommand.)                        *)
THEOREM BridgeImplementsContract == Spec => KeepsContract
  <1>1. Init => Contract!Init
    BY ContractBegins
  <1>2. [Next]_vars => [Contract!Next]_(Contract!contractVars)
    BY StepKeepsContract
  <1>3. QED
    BY <1>1, <1>2, PTL DEF Spec, KeepsContract, Contract!Spec

-------------------------------------------------------------------------------
(* The walk of the readiness evaluation, inside the bridge.                *)

LEMMA StepKeepsWalk == WalkInv /\ [Next]_vars => WalkInv'
  <1> SUFFICES ASSUME WalkInv, [Next]_vars PROVE WalkInv'
    OBVIOUS
  <1>1. CASE EvaluateReadiness
    BY <1>1, WalkInvEvaluate DEF EvaluateReadiness
  <1>2. CASE EditCatalog
    BY <1>2, WalkInvEdit DEF EditCatalog
  <1>3. CASE UNCHANGED readinessVars
    BY <1>3, WalkInvStutter
  <1>4. ReadRequest => UNCHANGED readinessVars
    BY DEF ReadRequest
  <1>5. JudgeReadiness => UNCHANGED readinessVars
    BY DEF JudgeReadiness
  <1>6. ResolveReferences => UNCHANGED readinessVars
    BY DEF ResolveReferences
  <1>7. BlockOnReferences => UNCHANGED readinessVars
    BY DEF BlockOnReferences
  <1>8. PrepareCommand => UNCHANGED readinessVars
    BY DEF PrepareCommand
  <1>9. FailRead => UNCHANGED readinessVars
    BY DEF FailRead
  <1>10. UNCHANGED vars => UNCHANGED readinessVars
    BY DEF vars
  <1>11. QED
    BY <1>1, <1>2, <1>3, <1>4, <1>5, <1>6, <1>7, <1>8, <1>9, <1>10 DEF Next, Step

LEMMA BridgeKeepsWalk == Spec => []WalkInv
  <1>1. Init => WalkInv
    BY WalkInvInit DEF Init
  <1>2. QED
    BY <1>1, StepKeepsWalk, PTL DEF Spec

(* Left alone, the readiness evaluation finds exactly the blockers and the *)
(* warnings of the catalogue, whatever it holds: none behind another one,  *)
(* none made up, none of another tenant's rows.                            *)
(* (ExecutionRequestReadinessService.evaluate.)                            *)
THEOREM WalkFindsTheCatalog == Spec => []WalkMatchesCatalog
  <1>1. WalkInv => WalkMatchesCatalog
    BY WalkInvMatches
  <1>2. QED
    BY <1>1, BridgeKeepsWalk, PTL

(* Definitions created and statuses changed while the evaluation reads one *)
(* definition after another do not mislead it.                             *)
(* (ExecutionRequestReadinessService.evaluate among the services that edit *)
(* the catalogue.)                                                         *)
THEOREM WalkSurvivesGrowth == Spec => []GrowthDoesNotMislead
  <1>1. WalkInv => GrowthDoesNotMislead
    BY WalkInvMatches
  <1>2. QED
    BY <1>1, BridgeKeepsWalk, PTL

-------------------------------------------------------------------------------
(* The steps of the reference resolver, one by one.  A read that finds     *)
(* nothing, or that fails, ends the resolution.                            *)

Nothing(code, found) ==
  /\ Unresolved(code)
  /\ failed' \in BOOLEAN /\ (failed => failed')
  /\ failed' \/ found = {}

LEMMA ReaderAnswer ==
  ASSUME failed \in BOOLEAN, NEW found, NEW answer \in Reader(found),
         failed' = (failed \/ (answer = {} /\ Reader(found) # {{}}))
  PROVE  /\ failed' \in BOOLEAN /\ (failed => failed')
         /\ answer = {} => failed' \/ found = {}
         /\ answer # {} => answer = found /\ UNCHANGED failed
  <1>1. failed' \in BOOLEAN /\ (failed => failed')
    OBVIOUS
  <1>2. answer = {} => failed' \/ found = {}
    <2>1. found # {} => Reader(found) # {{}}
      BY DEF Reader
    <2>2. QED
      BY <2>1
  <1>3. answer # {} => answer = found /\ UNCHANGED failed
    BY DEF Reader
  <1>4. QED
    BY <1>1, <1>2, <1>3

LEMMA LookUpQueryStep ==
  ASSUME failed \in BOOLEAN, LookUpQuery
  PROVE  /\ Due("lookup")
         /\ \/ Nothing("query_definition_missing", Found(catalog, "query", Head(pending).id))
            \/ /\ Found(catalog, "query", Head(pending).id) # {}
               /\ pending' = <<>> \o Tail(pending)
               /\ UNCHANGED <<chain, partials, blocked, failed>>
  <1> DEFINE found == {query.dataset : query \in Found(catalog, "query", Head(pending).id)}
             Use(x) ==
                  GoOn(<<>>) /\ UNCHANGED <<chain, partials, blocked>>
  <1>1. /\ Due("lookup")
        /\ \E answer \in Reader(found) :
             /\ failed' = (failed \/ (answer = {} /\ Reader(found) # {{}}))
             /\ IF answer = {} THEN Unresolved("query_definition_missing")
                ELSE \E x \in answer : Use(x)
    BY Zenon DEF LookUpQuery, ReadDue, QueryReader
  <1>2. found = {} => Found(catalog, "query", Head(pending).id) = {}
    OBVIOUS
  <1> HIDE DEF found, Use
  <1>3. PICK answer \in Reader(found) :
             /\ failed' = (failed \/ (answer = {} /\ Reader(found) # {{}}))
             /\ IF answer = {} THEN Unresolved("query_definition_missing")
                ELSE \E x \in answer : Use(x)
    BY <1>1
  <1>4. /\ failed' \in BOOLEAN /\ (failed => failed')
        /\ answer = {} => failed' \/ found = {}
        /\ answer # {} => answer = found /\ UNCHANGED failed
    BY <1>3, ReaderAnswer
  <1>5. CASE answer = {}
    BY <1>1, <1>2, <1>3, <1>4, <1>5 DEF Nothing
  <1>6. CASE answer # {}
    <2>1. UNCHANGED failed /\ \E x \in found : Use(x)
      BY <1>3, <1>4, <1>6
    <2>2. QED
      BY <1>1, <2>1 DEF GoOn, found, Use
  <1>7. QED
    BY <1>5, <1>6

LEMMA ResolveQueryStep ==
  ASSUME failed \in BOOLEAN, ResolveQuery
  PROVE  /\ Due("query")
         /\ \/ Nothing("query_definition_missing", Found(catalog, "query", Head(pending).id))
            \/ \E row \in Found(catalog, "query", Head(pending).id) :
                 /\ chain' = [NoChain EXCEPT !.query = Head(pending).id]
                 /\ pending' = <<Read("dataset", row.dataset)>> \o Tail(pending)
                 /\ UNCHANGED <<partials, blocked, failed>>
  <1> DEFINE found == {query.dataset : query \in Found(catalog, "query", Head(pending).id)}
             Use(x) ==
                  /\ chain' = [NoChain EXCEPT !.query = Head(pending).id]
                  /\ GoOn(<<Read("dataset", x)>>)
                  /\ UNCHANGED <<partials, blocked>>
  <1>1. /\ Due("query")
        /\ \E answer \in Reader(found) :
             /\ failed' = (failed \/ (answer = {} /\ Reader(found) # {{}}))
             /\ IF answer = {} THEN Unresolved("query_definition_missing")
                ELSE \E x \in answer : Use(x)
    BY Zenon DEF ResolveQuery, ReadDue, QueryReader
  <1>2. found = {} => Found(catalog, "query", Head(pending).id) = {}
    OBVIOUS
  <1> HIDE DEF found, Use
  <1>3. PICK answer \in Reader(found) :
             /\ failed' = (failed \/ (answer = {} /\ Reader(found) # {{}}))
             /\ IF answer = {} THEN Unresolved("query_definition_missing")
                ELSE \E x \in answer : Use(x)
    BY <1>1
  <1>4. /\ failed' \in BOOLEAN /\ (failed => failed')
        /\ answer = {} => failed' \/ found = {}
        /\ answer # {} => answer = found /\ UNCHANGED failed
    BY <1>3, ReaderAnswer
  <1>5. CASE answer = {}
    BY <1>1, <1>2, <1>3, <1>4, <1>5 DEF Nothing
  <1>6. CASE answer # {}
    <2>1. UNCHANGED failed /\ \E x \in found : Use(x)
      BY <1>3, <1>4, <1>6
    <2>2. QED
      BY <1>1, <2>1 DEF GoOn, found, Use
  <1>7. QED
    BY <1>5, <1>6

TakeDataset(row) ==
  /\ chain' = [chain EXCEPT !.dataset = Head(pending).id, !.connection = row.connection]
  /\ pending' = <<Read("mapping", row.key)>> \o Tail(pending)
  /\ UNCHANGED <<partials, blocked, failed>>

LEMMA ResolveDatasetStep ==
  ASSUME failed \in BOOLEAN, ResolveDataset
  PROVE  /\ Due("dataset")
         /\ \/ Nothing("dataset_missing", Found(catalog, "dataset", Head(pending).id))
            \/ \E row \in Found(catalog, "dataset", Head(pending).id) : TakeDataset(row)
  <1> DEFINE found == {[id |-> Head(pending).id, key |-> dataset.key,
                         connection |-> dataset.connection] :
                          dataset \in Found(catalog, "dataset", Head(pending).id)}
             Use(x) ==
               /\ chain' = [chain EXCEPT !.dataset = x.id, !.connection = x.connection]
               /\ GoOn(<<Read("mapping", x.key)>>)
               /\ UNCHANGED <<partials, blocked>>
  <1>1. /\ Due("dataset")
        /\ \E answer \in Reader(found) :
             /\ failed' = (failed \/ (answer = {} /\ Reader(found) # {{}}))
             /\ IF answer = {} THEN Unresolved("dataset_missing")
                ELSE \E x \in answer : Use(x)
    BY Zenon DEF ResolveDataset, ReadDue, DatasetReader
  <1>2. found = {} => Found(catalog, "dataset", Head(pending).id) = {}
    OBVIOUS
  <1> HIDE DEF found, Use
  <1>3. PICK answer \in Reader(found) :
             /\ failed' = (failed \/ (answer = {} /\ Reader(found) # {{}}))
             /\ IF answer = {} THEN Unresolved("dataset_missing")
                ELSE \E x \in answer : Use(x)
    BY <1>1
  <1>4. /\ failed' \in BOOLEAN /\ (failed => failed')
        /\ answer = {} => failed' \/ found = {}
        /\ answer # {} => answer = found /\ UNCHANGED failed
    BY <1>3, ReaderAnswer
  <1>5. CASE answer = {}
    BY <1>1, <1>2, <1>3, <1>4, <1>5 DEF Nothing
  <1>6. CASE answer # {}
    <2>1. UNCHANGED failed /\ \E x \in found : Use(x)
      BY <1>3, <1>4, <1>6
    <2>2. QED
      <3>1. PICK x \in found : Use(x)
        BY <2>1
      <3>2. PICK row \in Found(catalog, "dataset", Head(pending).id) :
              x = [id |-> Head(pending).id, key |-> row.key, connection |-> row.connection]
        BY DEF found
      <3>3. x.id = Head(pending).id /\ x.key = row.key /\ x.connection = row.connection
        BY <3>2
      <3>4. TakeDataset(row)
        BY <2>1, <3>1, <3>3 DEF TakeDataset, Use, GoOn
      <3>5. QED
        BY <1>1, <3>4
  <1>7. QED
    BY <1>5, <1>6

TakeMappings(mappings, connection) ==
  IF connection = None
  THEN Unresolved("connection_missing") /\ UNCHANGED failed
  ELSE /\ chain' = [chain EXCEPT !.mappings = mappings, !.connection = connection]
       /\ pending' = <<Read("connection", connection)>> \o Tail(pending)
       /\ UNCHANGED <<partials, blocked, failed>>

LEMMA ResolveMappingsStep ==
  ASSUME failed \in BOOLEAN, ResolveMappings
  PROVE  /\ Due("mapping")
         /\ \/ Nothing("field_mappings_missing", FoundMappings(catalog, Head(pending).id))
            \/ /\ FoundMappings(catalog, Head(pending).id) # {}
               /\ LET mappings == NewestFirst(FoundMappings(catalog, Head(pending).id))
                  IN TakeMappings(mappings, ConnectionOf(catalog, chain.connection, mappings))
  <1> DEFINE found == IF FoundMappings(catalog, Head(pending).id) = {} THEN {}
                     ELSE {NewestFirst(FoundMappings(catalog, Head(pending).id))}
             Use(x) ==
               LET c == ConnectionOf(catalog, chain.connection, x)
               IN IF c = None THEN Unresolved("connection_missing")
                  ELSE /\ chain' = [chain EXCEPT !.mappings = x, !.connection = c]
                       /\ GoOn(<<Read("connection", c)>>)
                       /\ UNCHANGED <<partials, blocked>>
  <1>1. /\ Due("mapping")
        /\ \E answer \in Reader(found) :
             /\ failed' = (failed \/ (answer = {} /\ Reader(found) # {{}}))
             /\ IF answer = {} THEN Unresolved("field_mappings_missing")
                ELSE \E x \in answer : Use(x)
    BY Zenon DEF ResolveMappings, ReadDue, MappingReader
  <1>2. found = {} => FoundMappings(catalog, Head(pending).id) = {}
    OBVIOUS
  <1> HIDE DEF found, Use
  <1>3. PICK answer \in Reader(found) :
             /\ failed' = (failed \/ (answer = {} /\ Reader(found) # {{}}))
             /\ IF answer = {} THEN Unresolved("field_mappings_missing")
                ELSE \E x \in answer : Use(x)
    BY <1>1
  <1>4. /\ failed' \in BOOLEAN /\ (failed => failed')
        /\ answer = {} => failed' \/ found = {}
        /\ answer # {} => answer = found /\ UNCHANGED failed
    BY <1>3, ReaderAnswer
  <1>5. CASE answer = {}
    BY <1>1, <1>2, <1>3, <1>4, <1>5 DEF Nothing
  <1>6. CASE answer # {}
    <2>1. UNCHANGED failed /\ \E x \in found : Use(x)
      BY <1>3, <1>4, <1>6
    <2>2. QED
      <3> DEFINE mappings == NewestFirst(FoundMappings(catalog, Head(pending).id))
      <3>1. FoundMappings(catalog, Head(pending).id) # {} /\ found = {mappings}
        BY <2>1 DEF found
      <3>2. Use(mappings)
        BY <2>1, <3>1
      <3> HIDE DEF mappings
      <3>3. TakeMappings(mappings, ConnectionOf(catalog, chain.connection, mappings))
        BY <2>1, <3>2 DEF TakeMappings, Use, GoOn
      <3>4. QED
        BY <1>1, <3>1, <3>3 DEF mappings
  <1>7. QED
    BY <1>5, <1>6

LEMMA ResolveConnectionStep ==
  ASSUME failed \in BOOLEAN, ResolveConnection
  PROVE  /\ Due("connection")
         /\ \/ Nothing("connection_missing", Found(catalog, "connection", Head(pending).id))
            \/ \E row \in Found(catalog, "connection", Head(pending).id) :
                 /\ row.protected
                 /\ Unresolved("credential_ref_missing")
                 /\ UNCHANGED failed
            \/ \E row \in Found(catalog, "connection", Head(pending).id) :
                 /\ ~row.protected
                 /\ partials' = Append(partials, ChainBundle)
                 /\ chain' = NoChain
                 /\ pending' = <<>> \o Tail(pending)
                 /\ UNCHANGED <<blocked, failed>>
  <1> DEFINE found == {[id |-> Head(pending).id, protected |-> connection.protected] :
                          connection \in Found(catalog, "connection", Head(pending).id)}
             Use(x) ==
                  IF CredentialMissing(x) THEN Unresolved("credential_ref_missing")
                  ELSE /\ partials' = Append(partials, ChainBundle)
                       /\ chain' = NoChain
                       /\ GoOn(<<>>)
                       /\ UNCHANGED blocked
  <1>1. /\ Due("connection")
        /\ \E answer \in Reader(found) :
             /\ failed' = (failed \/ (answer = {} /\ Reader(found) # {{}}))
             /\ IF answer = {} THEN Unresolved("connection_missing")
                ELSE \E x \in answer : Use(x)
    BY Zenon DEF ResolveConnection, ReadDue, ConnectionReader
  <1>2. found = {} => Found(catalog, "connection", Head(pending).id) = {}
    OBVIOUS
  <1> HIDE DEF found, Use
  <1>3. PICK answer \in Reader(found) :
             /\ failed' = (failed \/ (answer = {} /\ Reader(found) # {{}}))
             /\ IF answer = {} THEN Unresolved("connection_missing")
                ELSE \E x \in answer : Use(x)
    BY <1>1
  <1>4. /\ failed' \in BOOLEAN /\ (failed => failed')
        /\ answer = {} => failed' \/ found = {}
        /\ answer # {} => answer = found /\ UNCHANGED failed
    BY <1>3, ReaderAnswer
  <1>5. CASE answer = {}
    BY <1>1, <1>2, <1>3, <1>4, <1>5 DEF Nothing
  <1>6. CASE answer # {}
    <2>1. UNCHANGED failed /\ \E x \in found : Use(x)
      BY <1>3, <1>4, <1>6
    <2>2. QED
      <3>1. PICK x \in found : Use(x)
        BY <2>1
      <3>2. PICK row \in Found(catalog, "connection", Head(pending).id) : x.protected = row.protected
        BY DEF found
      <3>3. CredentialMissing(x) <=> row.protected
        BY <3>2 DEF CredentialMissing
      <3>4. QED
        BY <1>1, <2>1, <3>1, <3>3 DEF GoOn, Use
  <1>7. QED
    BY <1>5, <1>6

(* The references of a dashboard or of a report.                           *)
Spread(owner, reads) ==
  /\ reads # <<>>
  /\ pending' = Append(reads, Merge(owner, Len(reads))) \o Tail(pending)
  /\ UNCHANGED <<chain, partials, blocked, failed>>

LEMMA ResolveDashboardStep ==
  ASSUME failed \in BOOLEAN, ResolveDashboard
  PROVE  /\ Due("dashboard")
         /\ \/ Nothing("dashboard_definition_missing", Found(catalog, "dashboard", Head(pending).id))
            \/ \E row \in Found(catalog, "dashboard", Head(pending).id) :
                 \/ /\ WidgetReads(row.widgets) = <<>>
                    /\ Unresolved("query_definition_missing")
                    /\ UNCHANGED failed
                 \/ Spread(Head(pending), WidgetReads(row.widgets))
  <1> DEFINE found == {WidgetReads(row.widgets) : row \in Found(catalog, "dashboard", Head(pending).id)}
             Use(x) ==
                  ResolveAll(Head(pending), x, "query_definition_missing")
  <1>1. /\ Due("dashboard")
        /\ \E answer \in Reader(found) :
             /\ failed' = (failed \/ (answer = {} /\ Reader(found) # {{}}))
             /\ IF answer = {} THEN Unresolved("dashboard_definition_missing")
                ELSE \E x \in answer : Use(x)
    BY Zenon DEF ResolveDashboard, ReadDue, DashboardReader
  <1>2. found = {} => Found(catalog, "dashboard", Head(pending).id) = {}
    OBVIOUS
  <1> HIDE DEF found, Use
  <1>3. PICK answer \in Reader(found) :
             /\ failed' = (failed \/ (answer = {} /\ Reader(found) # {{}}))
             /\ IF answer = {} THEN Unresolved("dashboard_definition_missing")
                ELSE \E x \in answer : Use(x)
    BY <1>1
  <1>4. /\ failed' \in BOOLEAN /\ (failed => failed')
        /\ answer = {} => failed' \/ found = {}
        /\ answer # {} => answer = found /\ UNCHANGED failed
    BY <1>3, ReaderAnswer
  <1>5. CASE answer = {}
    BY <1>1, <1>2, <1>3, <1>4, <1>5 DEF Nothing
  <1>6. CASE answer # {}
    <2>1. UNCHANGED failed /\ \E x \in found : Use(x)
      BY <1>3, <1>4, <1>6
    <2>2. QED
      BY <1>1, <2>1 DEF GoOn, found, Use, ResolveAll, Spread
  <1>7. QED
    BY <1>5, <1>6

LEMMA ResolveReportStep ==
  ASSUME failed \in BOOLEAN, ResolveReport
  PROVE  /\ Due("report")
         /\ \/ Nothing("report_definition_missing", Found(catalog, "report", Head(pending).id))
            \/ \E row \in Found(catalog, "report", Head(pending).id) :
                 \/ /\ ReportReads(row) = <<>>
                    /\ Unresolved("report_definition_missing")
                    /\ UNCHANGED failed
                 \/ Spread(Head(pending), ReportReads(row))
  <1> DEFINE found == {ReportReads(row) : row \in Found(catalog, "report", Head(pending).id)}
             Use(x) ==
                  ResolveAll(Head(pending), x, "report_definition_missing")
  <1>1. /\ Due("report")
        /\ \E answer \in Reader(found) :
             /\ failed' = (failed \/ (answer = {} /\ Reader(found) # {{}}))
             /\ IF answer = {} THEN Unresolved("report_definition_missing")
                ELSE \E x \in answer : Use(x)
    BY Zenon DEF ResolveReport, ReadDue, ReportReader
  <1>2. found = {} => Found(catalog, "report", Head(pending).id) = {}
    OBVIOUS
  <1> HIDE DEF found, Use
  <1>3. PICK answer \in Reader(found) :
             /\ failed' = (failed \/ (answer = {} /\ Reader(found) # {{}}))
             /\ IF answer = {} THEN Unresolved("report_definition_missing")
                ELSE \E x \in answer : Use(x)
    BY <1>1
  <1>4. /\ failed' \in BOOLEAN /\ (failed => failed')
        /\ answer = {} => failed' \/ found = {}
        /\ answer # {} => answer = found /\ UNCHANGED failed
    BY <1>3, ReaderAnswer
  <1>5. CASE answer = {}
    BY <1>1, <1>2, <1>3, <1>4, <1>5 DEF Nothing
  <1>6. CASE answer # {}
    <2>1. UNCHANGED failed /\ \E x \in found : Use(x)
      BY <1>3, <1>4, <1>6
    <2>2. QED
      BY <1>1, <2>1 DEF GoOn, found, Use, ResolveAll, Spread
  <1>7. QED
    BY <1>5, <1>6

-------------------------------------------------------------------------------
(* What the resolution has still to do, and what it has come to.           *)

LookupReads == {Lookup(q) : q \in QueryIds}
ConnectionReads == {Read("connection", c) : c \in ConnectionIds}
Merges == {Merge(owner, n) : owner \in Definitions, n \in Nat \ {0}}

Work == Task \union LookupReads \union ConnectionReads \union Merges

(* Only the head of pending is part of a chain.                            *)
Later == QueryReads \union DashboardReads \union Merges

ChainTables == {"dataset", "mapping", "connection"}

ChainType == [query : OptionalQuery, dataset : DatasetIds \union {None},
              connection : OptionalConnection, mappings : Seq(MappingIds)]

(* A row that is there, and the tenant's.                                  *)
Held(cat, table, id) == cat[table][id] # None /\ cat[table][id].tenant = Tenant

(* The connections that a dataset may take its data from.                  *)
OffersOf(cat, dataset) ==
  IF dataset.connection # None THEN {dataset.connection}
  ELSE {cat.mapping[m].connection :
          m \in {n \in MappingIds : /\ Found(cat, "mapping", n) # {}
                                    /\ cat.mapping[n].key = dataset.key}}

DatasetOf(cat, q) == cat.dataset[cat.query[q].dataset]

(* The chain when w is due: what it has found is there, ...                *)
ChainHeld(cat, w) ==
  /\ w.table \in ChainTables =>
       chain.query \in QueryIds /\ Held(cat, "query", chain.query)
  /\ w.table \in {"mapping", "connection"} =>
       chain.dataset \in DatasetIds /\ Held(cat, "dataset", chain.dataset)
  /\ w.table = "connection" =>
       /\ chain.connection = w.id
       /\ chain.mappings # <<>>
       /\ \A m \in Elements(chain.mappings) : Held(cat, "mapping", m)

(* ... belongs together, if no reference has been changed, ...             *)
ChainFits(cat, w) ==
  /\ w.table = "dataset" => cat.query[chain.query].dataset = w.id
  /\ w.table \in {"mapping", "connection"} =>
       cat.query[chain.query].dataset = chain.dataset
  /\ w.table = "mapping" => /\ cat.dataset[chain.dataset].key = w.id
                            /\ cat.dataset[chain.dataset].connection = chain.connection
  /\ w.table = "connection" =>
       /\ \A m \in Elements(chain.mappings) :
            cat.mapping[m].key = cat.dataset[chain.dataset].key
       /\ chain.connection \in OffersOf(cat, cat.dataset[chain.dataset])

(* ... and is all there is, if nothing has.                                *)
ChainExact(cat, w) ==
  w.table = "connection" =>
    /\ Elements(chain.mappings) = FoundMappings(cat, cat.dataset[chain.dataset].key)
    /\ IsInjective(chain.mappings)
    /\ chain.connection = SourceOf(cat, chain.dataset)

(* What a bundle says of the definition d that it was resolved from.       *)
BundleNames(b, d) ==
  CASE d.table = "query" -> /\ b.queries = <<d.id>>
                            /\ b.dashboards = <<>> /\ b.reports = <<>>
    [] d.table = "dashboard" -> b.dashboards = <<d.id>> /\ b.reports = <<>>
    [] d.table = "report" -> b.reports = <<d.id>>

BundleHeld(cat, b) ==
  /\ \A q \in Elements(b.queries) : Held(cat, "query", q)
  /\ \A x \in Elements(b.dashboards) : Held(cat, "dashboard", x)
  /\ \A r \in Elements(b.reports) : Held(cat, "report", r)
  /\ \A m \in Elements(b.mappings) : Held(cat, "mapping", m)
  /\ Held(cat, "dataset", b.dataset)
  /\ Held(cat, "connection", b.connection)

BundleFits(cat, b) ==
  /\ cat.query[b.queries[1]].dataset = b.dataset
  /\ cat.mapping[b.mappings[1]].key = cat.dataset[b.dataset].key
  /\ \A q \in Elements(b.queries) :
       /\ cat.query[q].dataset \in DatasetIds
       /\ Held(cat, "dataset", cat.query[q].dataset)
       /\ b.connection \in OffersOf(cat, DatasetOf(cat, q))

BundleExact(cat, b, d) ==
  /\ \A q : q \in Elements(b.queries) <=> q \in ReachedQueries(cat, d)
  /\ \A x : x \in Elements(b.dashboards) <=> x \in ReachedDashboards(cat, d)
  /\ \A m : m \in Elements(b.mappings) <=>
              \E q \in ReachedQueries(cat, d) : m \in FoundMappings(cat, DatasetOf(cat, q).key)
  /\ IsInjective(b.queries) /\ IsInjective(b.mappings)
  /\ \A q \in ReachedQueries(cat, d) : SourceOf(cat, cat.query[q].dataset) = b.connection
  /\ \A c \in Found(cat, "connection", b.connection) : ~c.protected

Describes(b, d) ==
  /\ b \in Bundle /\ b.queries # <<>> /\ b.mappings # <<>>
  /\ BundleNames(b, d)
  /\ BundleHeld(catalog, b)
  /\ ~repointed => BundleFits(catalog, b)
  /\ edits = 0 => BundleExact(catalog, b, d)

-------------------------------------------------------------------------------
(* The resolution as a stack machine: pending is its program, partials its *)
(* stack.  A plan says which definitions the bundles on the stack stand    *)
(* for, before and after each piece of work, down to the one asked for.    *)

(* The definition that a piece of work is going to add a bundle for.       *)
Subject(w) == IF w.table \in ChainTables THEN Read("query", chain.query) ELSE w

(* What the bundles that an owner merges stand for.                        *)
Referred(owner, parts) ==
  /\ \/ owner.table = "dashboard" /\ \A t \in Elements(parts) : t \in QueryReads
     \/ /\ owner.table = "report"
        /\ \A t \in Elements(parts) : t \in QueryReads \union DashboardReads
  /\ edits = 0 => \A t : t \in Elements(parts) <=> t \in Needs(catalog, owner)

Advance(w, before, after) ==
  /\ w.table = "lookup" => after = before
  /\ w.table = "merge" =>
       \E kept, parts \in Seq(Definitions) :
         /\ before = kept \o parts /\ Len(parts) = w.count
         /\ after = Append(kept, w.id)
         /\ Referred(w.id, parts)
  /\ w.table \notin {"lookup", "merge"} => after = Append(before, Subject(w))

Plan(stack) ==
  /\ stack \in [0..Len(pending) -> Seq(Definitions)]
  /\ \A i \in 1..Len(pending) : Advance(pending[i], stack[i - 1], stack[i])
  /\ stack[Len(pending)] = <<asked>>

Stands(bundles, definitions) ==
  /\ Len(bundles) = Len(definitions)
  /\ \A i \in 1..Len(bundles) : Describes(bundles[i], definitions[i])

(* d is part of what is asked for.                                         *)
PartOf(d) ==
  edits = 0 => \A q : q \in ReachedQueries(catalog, d) => q \in ReachedQueries(catalog, asked)

(* What is still to be done concerns what was asked for, and was ready.    *)
Justified(w) ==
  /\ w \in Definitions => PartOf(w)
  /\ w.table \in ChainTables => PartOf(Read("query", chain.query))
  /\ w.table = "merge" => PartOf(w.id) /\ Held(catalog, w.id.table, w.id.id)
  /\ w.table = "lookup" /\ ~repointed => Clear(catalog, {Read("query", w.id)})
  /\ w \in Task /\ ~repointed => Clear(catalog, {w})

SourceCodes == {"connection_missing", "credential_ref_missing",
                "multiple_sources_not_supported"}

Untouched == pending = <<>> /\ chain = NoChain /\ partials = <<>> /\ blocked = None

Resolving == (stage = "references" /\ blocked = None) \/ command # None

PendingInv ==
  pending # <<>> =>
    LET w == Head(pending)
    IN /\ Tail(pending) \in Seq(Later)
       /\ stage = "references" /\ blocked = None
       /\ ChainHeld(catalog, w)
       /\ ~repointed => ChainFits(catalog, w)
       /\ edits = 0 => ChainExact(catalog, w)
       /\ \A i \in 1..Len(pending) : Justified(pending[i])

BlockedInv ==
  blocked # None /\ ~failed =>
    /\ ~repointed => blocked \in SourceCodes
    /\ edits = 0 => blocked \in SourceProblems(catalog, asked)

StageInv ==
  /\ stage \in {"request", "readiness"} =>
       Untouched /\ verdict = None /\ command = None
  /\ stage \in {"references", "threw"} => verdict = None /\ command = None
  /\ stage = "references" => todo = <<>> /\ blockers = {}
  /\ stage = "concluded" =>
       \/ verdict = "execution_request_not_found" /\ command = None
       \/ /\ verdict = "readiness_blocked" /\ command = None
          /\ todo = <<>> /\ blockers # {}
       \/ /\ verdict = "references_blocked" /\ command = None /\ blocked # None
          /\ todo = <<>> /\ blockers = {}
       \/ /\ verdict \in {"command_validation_failed", "command_prepared"}
          /\ todo = <<>> /\ blockers = {}
          /\ pending = <<>> /\ blocked = None /\ command # None
          /\ \E own \in [dashboard : OptionalDashboard, report : ReportIds \union {None}],
                mode \in Modes : command = BuildCommand(partials[1], own, mode)

BridgeInv ==
  /\ WalkInv
  /\ edits = 0 => ~repointed
  /\ pending \in Seq(Work)
  /\ chain \in ChainType
  /\ partials \in Seq(Bundle)
  /\ blocked \in ReferenceBlockers \union {None}
  /\ failed \in BOOLEAN
  /\ stage \in {"request", "readiness", "references", "concluded", "threw"}
  /\ StageInv
  /\ PendingInv
  /\ BlockedInv
  /\ Resolving => \E stack : Plan(stack) /\ Stands(partials, stack[0])

(* What a step leaves to be done later advances the stack as before.       *)
LEMMA LaterAdvances ==
  ASSUME NEW w \in Later, NEW before, NEW after, Advance(w, before, after),
         edits' = 0 => edits = 0 /\ UNCHANGED catalog
  PROVE  Advance(w, before, after)'
  <1>1. w.table \notin ChainTables
    BY DEF Later, QueryReads, DashboardReads, Merges, Merge, Read, ChainTables
  <1>2. Subject(w) = w /\ Subject(w)' = w
    BY <1>1 DEF Subject
  <1>3. ASSUME NEW owner, NEW parts, Referred(owner, parts)
        PROVE  Referred(owner, parts)'
    BY <1>3 DEF Referred
  <1>4. QED
    BY <1>2, <1>3 DEF Advance

LEMMA LaterIsWork == Later \subseteq Work
  BY ReadsAreTasks DEF Later, Work

(* When the head of pending is replaced by work that comes to the same     *)
(* stack, there is a plan again.                                           *)
LEMMA PlanAfter ==
  ASSUME NEW stack, Plan(stack),
         pending \in Seq(Work), pending # <<>>, Tail(pending) \in Seq(Later),
         NEW new \in Seq(Work), pending' = new \o Tail(pending),
         UNCHANGED <<catalog, edits, asked>>,
         NEW start \in [0..Len(new) -> Seq(Definitions)],
         \A i \in 1..Len(new) : Advance(new[i], start[i - 1], start[i])',
         start[Len(new)] = stack[1]
  PROVE  \E next : Plan(next)' /\ next[0] = start[0]
  <1>0. PICK m : m = Len(pending)
    OBVIOUS
  <1> DEFINE n == Len(new)
             rest == Tail(pending)
             next == [i \in 0..(n + m - 1) |->
                        IF i <= n THEN start[i] ELSE stack[i - n + 1]]
  <1>1. /\ m \in Nat /\ m >= 1 /\ Len(rest) = m - 1 /\ rest \in Seq(Work)
        /\ \A i \in 1..(m - 1) : rest[i] = pending[i + 1] /\ rest[i] \in Later
    <2>1. m \in Nat /\ m # 0
      BY <1>0, EmptySeq, LenProperties
    <2>2. Len(rest) = m - 1 /\ rest \in Seq(Work)
          /\ \A i \in 1..Len(rest) : rest[i] = pending[i + 1]
      BY <1>0, HeadTailProperties
    <2>3. \A i \in 1..Len(rest) : rest[i] \in Later
      BY ElementOfSeq
    <2>4. QED
      BY <2>1, <2>2, <2>3
  <1>2. /\ n \in Nat /\ Len(pending') = n + m - 1
        /\ \A i \in 1..(n + m - 1) : pending'[i] = IF i <= n THEN new[i] ELSE rest[i - n]
    <2>1. n \in Nat
      BY LenProperties
    <2>2. rest \in Seq(Work) /\ pending' = new \o rest
      BY <1>1
    <2> HIDE DEF n, rest
    <2>3. /\ Len(new \o rest) = Len(new) + Len(rest)
          /\ \A i \in 1..(Len(new) + Len(rest)) :
               (new \o rest)[i] = IF i <= Len(new) THEN new[i] ELSE rest[i - Len(new)]
      BY <2>2, ConcatProperties
    <2>4. Len(new) + Len(rest) = n + m - 1 /\ Len(new) = n
      BY <1>1, <2>1 DEF n
    <2>5. QED
      BY <2>1, <2>2, <2>3, <2>4
  <1>3. /\ stack \in [0..m -> Seq(Definitions)] /\ stack[m] = <<asked>>
        /\ \A i \in 1..m : Advance(pending[i], stack[i - 1], stack[i])
    BY <1>0 DEF Plan
  <1> HIDE DEF n, rest
  <1>4. /\ next \in [0..(n + m - 1) -> Seq(Definitions)]
        /\ \A i \in 0..(n + m - 1) :
             next[i] = IF i <= n THEN start[i] ELSE stack[i - n + 1]
    <2>1. \A i \in 0..(n + m - 1) :
            (IF i <= n THEN start[i] ELSE stack[i - n + 1]) \in Seq(Definitions)
      <3>1. \A i \in 0..n : start[i] \in Seq(Definitions)
        BY DEF n
      <3>2. \A i \in 0..(n + m - 1) : i <= n => i \in 0..n
        BY <1>1, <1>2
      <3>3. \A i \in 0..(n + m - 1) : ~(i <= n) => i - n + 1 \in 0..m
        BY <1>1, <1>2
      <3>4. QED
        BY <1>3, <3>1, <3>2, <3>3
    <2>2. QED
      BY <2>1
  <1>5. start[n] = stack[1]
    BY DEF n
  <1> HIDE DEF next
  <1>last. next[n + m - 1] = <<asked>>
    <2>1. CASE m = 1
      <3>1. n + m - 1 = n /\ n \in 0..(n + m - 1)
        BY <1>1, <1>2, <2>1
      <3>2. QED
        BY <1>3, <1>4, <1>5, <2>1, <3>1
    <2>2. CASE m > 1
      <3>1. /\ n + m - 1 \in 0..(n + m - 1) /\ ~(n + m - 1 <= n)
            /\ (n + m - 1) - n + 1 = m
        BY <1>1, <1>2, <2>2
      <3>2. QED
        BY <1>3, <1>4, <3>1
    <2>3. QED
      BY <1>1, <2>1, <2>2
  <1>6. ASSUME NEW i \in 1..(n + m - 1), NEW w, w = pending'[i]
        PROVE  Advance(w, next[i - 1], next[i])'
    <2>0. i \in Nat /\ i >= 1 /\ i <= n + m - 1 /\ n \in Nat /\ m \in Nat /\ m >= 1
      BY <1>1, <1>2, <1>6
    <2>1. CASE i <= n
      <3>1. w = new[i] /\ next[i - 1] = start[i - 1] /\ next[i] = start[i]
        <4>1. i - 1 \in 0..(n + m - 1) /\ i \in 0..(n + m - 1) /\ i - 1 <= n
          BY <1>1, <1>2, <1>6, <2>1
        <4>2. QED
          BY <1>2, <1>4, <1>6, <2>1, <4>1
      <3>2. Advance(new[i], start[i - 1], start[i])'
        BY <1>2, <2>1 DEF n
      <3>3. QED
        BY <3>1, <3>2
    <2>2. CASE i > n
      <3> DEFINE k == i - n + 1
      <3>1. k \in 1..m /\ i - n \in 1..(m - 1) /\ k - 1 \in 0..m /\ k = (i - n) + 1
        BY <2>0, <2>2
      <3>2. w = pending[k] /\ pending[k] \in Later
        <4>1. ~(i <= n)
          BY <2>0, <2>2
        <4>2. pending'[i] = rest[i - n]
          BY <1>2, <4>1
        <4>3. rest[i - n] = pending[(i - n) + 1] /\ rest[i - n] \in Later
          BY <1>1, <3>1
        <4>4. QED
          BY <1>6, <3>1, <4>2, <4>3
      <3>3. next[i] = stack[k]
        <4>1. i \in 0..(n + m - 1) /\ ~(i <= n)
          BY <1>1, <1>2, <2>2
        <4>2. QED
          BY <1>4, <4>1
      <3>4. next[i - 1] = stack[k - 1]
        <4>1. i - 1 \in 0..(n + m - 1) /\ k - 1 = (i - 1) - n + 1
          BY <2>0, <2>2
        <4>2. CASE i = n + 1
          <5>1. i - 1 = n /\ i - 1 <= n /\ k - 1 = 1
            BY <2>0, <4>2
          <5>2. QED
            BY <1>4, <1>5, <4>1, <5>1
        <4>3. CASE i > n + 1
          <5>1. ~(i - 1 <= n)
            BY <1>1, <1>2, <4>3
          <5>2. QED
            BY <1>4, <4>1, <5>1
        <4>4. QED
          BY <1>2, <2>2, <4>2, <4>3
      <3>5. Advance(pending[k], stack[k - 1], stack[k])
        BY <1>3, <3>1
      <3> HIDE DEF k
      <3>6. Advance(w, stack[k - 1], stack[k])'
        <4>1. w \in Later /\ Advance(w, stack[k - 1], stack[k])
          BY <3>2, <3>5
        <4>2. QED
          BY <4>1, LaterAdvances
      <3>7. QED
        BY <3>3, <3>4, <3>6
    <2>3. QED
      BY <1>2, <2>1, <2>2
  <1>7. next[0] = start[0]
    BY <1>1, <1>2, <1>4
  <1>8. Plan(next)'
    BY <1>2, <1>4, <1>last, <1>6 DEF Plan
  <1>9. QED
    BY <1>7, <1>8

(* The tables of definitions and of reads.                                 *)
LEMMA ReadTables ==
  /\ QueryReads \union DashboardReads \subseteq Definitions
  /\ Definitions \subseteq Work
  /\ \A w \in QueryReads \union DashboardReads :
       w.table \in {"query", "dashboard"} /\ w \in Later
  /\ \A w \in Definitions : w.table \in {"query", "dashboard", "report"}
  /\ \A w \in Definitions : Subject(w) = w /\ Subject(w)' = w
  <1>1. \A w \in Definitions : w.table \in {"query", "dashboard", "report"}
    BY DEF Definitions, Read
  <1>2. QueryReads \union DashboardReads \subseteq Definitions
        /\ Definitions \subseteq Work
    BY DEF QueryReads, DashboardReads, Definitions, Work, Task
  <1>3. \A w \in QueryReads \union DashboardReads :
          w.table \in {"query", "dashboard"} /\ w \in Later
    BY DEF QueryReads, DashboardReads, Read, Later
  <1>4. \A w \in Definitions : Subject(w) = w /\ Subject(w)' = w
    BY <1>1 DEF Subject, ChainTables
  <1>5. QED
    BY <1>1, <1>2, <1>3, <1>4

LEMMA AppendLast ==
  ASSUME NEW S, NEW s \in Seq(S), NEW t \in Seq(S), NEW x \in S
  PROVE  s \o Append(t, x) = Append(s \o t, x)
  <1> DEFINE long == Append(t, x)
             short == s \o t
             left == s \o long
             right == Append(short, x)
  <1>1. /\ long \in Seq(S) /\ Len(long) = Len(t) + 1
        /\ \A i \in 1..Len(t) : long[i] = t[i]
        /\ long[Len(t) + 1] = x
    BY AppendProperties
  <1>2. /\ short \in Seq(S) /\ Len(short) = Len(s) + Len(t)
        /\ \A i \in 1..(Len(s) + Len(t)) :
             short[i] = IF i <= Len(s) THEN s[i] ELSE t[i - Len(s)]
    BY ConcatProperties
  <1>3. Len(s) \in Nat /\ Len(t) \in Nat
    BY LenProperties
  <1> HIDE DEF long, short
  <1>4. /\ left \in Seq(S) /\ Len(left) = Len(s) + Len(long)
        /\ \A i \in 1..(Len(s) + Len(long)) :
             left[i] = IF i <= Len(s) THEN s[i] ELSE long[i - Len(s)]
    BY <1>1, <1>3
  <1>5. /\ right \in Seq(S) /\ Len(right) = Len(short) + 1
        /\ \A i \in 1..Len(short) : right[i] = short[i]
        /\ right[Len(short) + 1] = x
    BY <1>2, <1>3
  <1> HIDE DEF left, right
  <1>6. ASSUME NEW i \in 1..Len(left) PROVE left[i] = right[i]
    <2>1. i \in 1..(Len(s) + Len(t) + 1) /\ Len(left) = Len(s) + Len(t) + 1
      BY <1>1, <1>3, <1>4
    <2>2. CASE i <= Len(s)
      BY <1>1, <1>2, <1>3, <1>4, <1>5, <2>1, <2>2
    <2>3. CASE i > Len(s) /\ i <= Len(s) + Len(t)
      <3>1. i - Len(s) \in 1..Len(t) /\ i \in 1..Len(short) /\ ~(i <= Len(s))
        BY <1>2, <1>3, <2>1, <2>3
      <3>2. QED
        BY <1>1, <1>2, <1>4, <1>5, <2>1, <3>1
    <2>4. CASE i = Len(s) + Len(t) + 1
      <3>1. i - Len(s) = Len(t) + 1 /\ ~(i <= Len(s)) /\ i = Len(short) + 1
        BY <1>2, <1>3, <2>4
      <3>2. QED
        BY <1>1, <1>4, <1>5, <2>1, <3>1
    <2>5. QED
      BY <1>3, <2>1, <2>2, <2>3, <2>4
  <1>7. Len(left) = Len(right)
    BY <1>1, <1>2, <1>3, <1>4, <1>5
  <1>8. left = right
    BY <1>4, <1>5, <1>6, <1>7, SeqEqual
  <1>9. QED
    BY <1>8 DEF left, right, long, short

LEMMA GrowingPrefix ==
  ASSUME NEW S, NEW base \in Seq(S), NEW reads \in Seq(S), NEW i \in 1..Len(reads)
  PROVE  /\ reads[i] \in S
         /\ SubSeq(reads, 1, i - 1) \in Seq(S)
         /\ base \o SubSeq(reads, 1, i) = Append(base \o SubSeq(reads, 1, i - 1), reads[i])
  <1> DEFINE before == SubSeq(reads, 1, i - 1)
  <1>1. Len(reads) \in Nat /\ \A k \in 1..Len(reads) : reads[k] \in S
    BY LenProperties, ElementOfSeq
  <1>2. before \in Seq(S)
    BY <1>1, SubSeqProperties
  <1>3. SubSeq(reads, 1, i) = before \o <<reads[i]>>
    BY <1>1, SubSeqRecursiveSecond
  <1> HIDE DEF before
  <1>4. SubSeq(reads, 1, i) = Append(before, reads[i])
    BY <1>1, <1>2, <1>3, AppendIsConcat
  <1>5. base \o Append(before, reads[i]) = Append(base \o before, reads[i])
    BY <1>1, <1>2, AppendLast
  <1>6. QED
    BY <1>1, <1>2, <1>4, <1>5 DEF before

(* An owner is replaced by its references and the merge of what they give. *)
LEMMA SpreadPlan ==
  ASSUME NEW stack, Plan(stack),
         pending \in Seq(Work), pending # <<>>, Tail(pending) \in Seq(Later),
         UNCHANGED <<catalog, edits, asked>>,
         NEW owner \in Definitions, owner = Head(pending),
         NEW reads \in Seq(QueryReads \union DashboardReads), Referred(owner, reads),
         Spread(owner, reads)
  PROVE  /\ \E next : Plan(next)' /\ next[0] = stack[0]
         /\ pending' \in Seq(Work)
         /\ pending' # <<>> /\ Head(pending') = reads[1]
         /\ Tail(pending') \in Seq(Later)
         /\ \A i \in 1..Len(pending') :
              \/ pending'[i] \in Elements(reads)
              \/ pending'[i] = Merge(owner, Len(reads))
              \/ \E k \in 2..Len(pending) : pending'[i] = pending[k]
  <1> DEFINE n == Len(reads)
             merge == Merge(owner, n)
             new == Append(reads, merge)
             rest == Tail(pending)
             base == stack[0]
             start == [i \in 0..(n + 1) |-> IF i <= n THEN base \o SubSeq(reads, 1, i)
                                                      ELSE Append(base, owner)]
  <1>1. /\ n \in Nat \ {0} /\ reads \in Seq(Definitions) /\ reads \in Seq(Later)
        /\ \A i \in 1..n : reads[i] \in QueryReads \union DashboardReads
    <2>1. n \in Nat /\ \A i \in 1..n : reads[i] \in QueryReads \union DashboardReads
      BY LenProperties, ElementOfSeq
    <2>2. n # 0
      BY EmptySeq DEF Spread
    <2>3. QueryReads \union DashboardReads \subseteq Definitions
          /\ QueryReads \union DashboardReads \subseteq Later
      BY ReadTables
    <2>4. reads \in Seq(Definitions) /\ reads \in Seq(Later)
      BY <2>3, SeqMonotonic
    <2>5. QED
      BY <2>1, <2>2, <2>4
  <1>2. /\ merge \in Merges /\ merge \in Later /\ merge.table = "merge"
        /\ merge.id = owner /\ merge.count = n
    BY <1>1 DEF Merges, Merge, Later
  <1>3. /\ new \in Seq(Later) /\ Len(new) = n + 1 /\ new # <<>>
        /\ \A i \in 1..n : new[i] = reads[i]
        /\ new[n + 1] = merge
    <2> HIDE DEF merge
    <2>1. QED
      BY <1>1, <1>2, AppendProperties DEF n
  <1>4. new \in Seq(Work)
    BY <1>3, LaterIsWork, SeqMonotonic
  <1>5. /\ stack[0] \in Seq(Definitions) /\ stack[1] = Append(base, owner)
    <2>1. Len(pending) \in Nat /\ Len(pending) # 0
      BY EmptySeq, LenProperties
    <2>2. stack[0] \in Seq(Definitions) /\ Advance(pending[1], stack[0], stack[1])
      BY <2>1 DEF Plan
    <2>3. pending[1] = owner
      OBVIOUS
    <2>4. owner.table \notin {"lookup", "merge"} /\ Subject(owner) = owner
      BY ReadTables
    <2>5. QED
      BY <2>2, <2>3, <2>4 DEF Advance
  <1>6. pending' = new \o rest
    BY DEF Spread
  <1> HIDE DEF base, merge, new, rest, n
  <1>7. /\ start \in [0..(n + 1) -> Seq(Definitions)]
        /\ \A i \in 0..n : start[i] = base \o SubSeq(reads, 1, i)
        /\ start[n + 1] = stack[1]
    <2>1. ASSUME NEW i \in 0..n
          PROVE  base \o SubSeq(reads, 1, i) \in Seq(Definitions)
      <3>1. \A k \in 1..i : reads[k] \in Definitions
        BY <1>1, ReadTables
      <3>2. SubSeq(reads, 1, i) \in Seq(Definitions)
        BY <1>1, <3>1, SubSeqProperties
      <3>3. QED
        BY <1>5, <3>2, ConcatProperties DEF base
    <2>2. Append(base, owner) \in Seq(Definitions)
      BY <1>5, AppendProperties DEF base
    <2> DEFINE value(i) == IF i <= n THEN base \o SubSeq(reads, 1, i) ELSE Append(base, owner)
    <2>3. /\ \A i \in 0..n : value(i) = base \o SubSeq(reads, 1, i)
          /\ value(n + 1) = Append(base, owner)
          /\ \A i \in 0..(n + 1) : i \in 0..n \/ i = n + 1
      BY <1>1
    <2>4. start = [i \in 0..(n + 1) |-> value(i)]
      OBVIOUS
    <2>5. \A i \in 0..(n + 1) : value(i) \in Seq(Definitions)
      BY <2>1, <2>2, <2>3, Zenon
    <2> HIDE DEF value, start
    <2>6. 0..n \subseteq 0..(n + 1) /\ n + 1 \in 0..(n + 1)
      BY <1>1
    <2>7. QED
      BY <1>5, <2>3, <2>4, <2>5, <2>6
  <1> HIDE DEF start
  <1>8. start[0] = stack[0]
    <2>1. SubSeq(reads, 1, 0) = <<>>
      BY SubSeqEmpty
    <2>2. 0 \in 0..n /\ base \in Seq(Definitions)
      BY <1>1, <1>5 DEF base
    <2>3. base \o <<>> = base
      BY <2>2, ConcatEmptySeq
    <2>4. start[0] = base
      BY <1>7, <2>1, <2>2, <2>3, Zenon
    <2>5. QED
      BY <2>4 DEF base
  <1>9. ASSUME NEW i \in 1..(n + 1)
        PROVE  Advance(new[i], start[i - 1], start[i])'
    <2>1. CASE i \in 1..n
      <3>1. new[i] = reads[i] /\ reads[i] \in Definitions
            /\ reads[i].table \notin {"lookup", "merge"} /\ Subject(reads[i])' = reads[i]
        BY <1>1, <1>3, <2>1, ReadTables
      <3>2. start[i] = Append(start[i - 1], reads[i])
        <4>1. i - 1 \in 0..n /\ i \in 0..n
          BY <1>1, <2>1
        <4>2. base \o SubSeq(reads, 1, i) = Append(base \o SubSeq(reads, 1, i - 1), reads[i])
          <5>1. base \in Seq(Definitions) /\ i \in 1..Len(reads)
            BY <1>5, <2>1 DEF base, n
          <5>2. \A S : \A s \in Seq(S), t \in Seq(S) : \A k \in 1..Len(t) :
                  s \o SubSeq(t, 1, k) = Append(s \o SubSeq(t, 1, k - 1), t[k])
            BY GrowingPrefix
          <5>3. QED
            BY <1>1, <5>1, <5>2, Zenon
        <4>3. QED
          BY <1>7, <4>1, <4>2
      <3>3. Advance(reads[i], start[i - 1], start[i])'
        BY <3>1, <3>2 DEF Advance
      <3>4. QED
        BY <3>1, <3>3
    <2>2. CASE i = n + 1
      <3>1. start[n] = base \o reads
        BY <1>1, <1>7, SubSeqFull DEF n
      <3>2. Referred(owner, reads)'
        BY DEF Referred
      <3>3. Advance(merge, start[n], start[n + 1])'
        <4>1. base \in Seq(Definitions) /\ start[n + 1] = Append(base, owner)
          BY <1>5, <1>7 DEF base
        <4>2. QED
          BY <1>1, <1>2, <3>1, <3>2, <4>1 DEF Advance, n
      <3>4. i - 1 = n /\ new[i] = merge
        BY <1>1, <1>3, <2>2
      <3>5. QED
        BY <2>2, <3>3, <3>4
    <2>3. QED
      BY <1>1, <2>1, <2>2
  <1>10. \E next : Plan(next)' /\ next[0] = start[0]
    <2>1. pending' = new \o Tail(pending) /\ new \in Seq(Work)
      BY <1>3, <1>4, <1>6 DEF rest
    <2>2. Len(new) = n + 1 /\ start \in [0..Len(new) -> Seq(Definitions)]
          /\ start[Len(new)] = stack[1]
      BY <1>3, <1>7
    <2>3. \A i \in 1..Len(new) : Advance(new[i], start[i - 1], start[i])'
      BY <1>9, <2>2
    <2>4. UNCHANGED <<catalog, edits, asked>>
      OBVIOUS
    <2>5. QED
      BY <2>1, <2>2, <2>3, <2>4, PlanAfter
  <1>11. /\ rest \in Seq(Later) /\ pending' \in Seq(Later)
         /\ Len(rest) = Len(pending) - 1 /\ Len(pending) \in Nat
         /\ \A i \in 1..Len(rest) : rest[i] = pending[i + 1]
    <2>1. rest \in Seq(Later)
      BY DEF rest
    <2>2. pending' \in Seq(Later)
      BY <1>3, <1>6, <2>1, ConcatProperties
    <2>3. Len(rest) = Len(pending) - 1 /\ \A i \in 1..Len(rest) : rest[i] = pending[i + 1]
      BY HeadTailProperties DEF rest
    <2>4. QED
      BY <2>1, <2>2, <2>3, LenProperties
  <1>12. /\ Len(pending') = n + 1 + Len(rest)
         /\ \A i \in 1..Len(pending') :
              pending'[i] = IF i <= n + 1 THEN new[i] ELSE rest[i - (n + 1)]
    <2>1. /\ Len(new \o rest) = Len(new) + Len(rest)
          /\ \A i \in 1..(Len(new) + Len(rest)) :
               (new \o rest)[i] = IF i <= Len(new) THEN new[i] ELSE rest[i - Len(new)]
      BY <1>3, <1>11, ConcatProperties
    <2>2. QED
      BY <1>3, <1>6, <2>1
  <1>13. pending' # <<>> /\ Head(pending') = reads[1] /\ Tail(pending') \in Seq(Later)
    <2>1. Len(pending') \in Nat \ {0} /\ Len(rest) \in Nat
      BY <1>1, <1>11, <1>12, LenProperties
    <2>2. pending' # <<>>
      BY <2>1, EmptySeq
    <2>3. pending'[1] = reads[1]
      BY <1>1, <1>3, <1>12, <2>1
    <2>4. Tail(pending') \in Seq(Later)
      BY <1>11, <2>2, HeadTailProperties
    <2>5. QED
      BY <2>2, <2>3, <2>4
  <1>14. ASSUME NEW i \in 1..Len(pending')
         PROVE  \/ pending'[i] \in Elements(reads)
                \/ pending'[i] = merge
                \/ \E k \in 2..Len(pending) : pending'[i] = pending[k]
    <2>1. Len(rest) \in Nat /\ i \in Nat
      BY <1>1, <1>11, <1>12, LenProperties
    <2>2. CASE i \in 1..n
      <3>1. pending'[i] = reads[i] /\ i \in DOMAIN reads
        BY <1>1, <1>3, <1>12, <2>2, LenProperties DEF n
      <3>2. QED
        BY <3>1 DEF Elements
    <2>3. CASE i = n + 1
      BY <1>1, <1>3, <1>12, <2>3
    <2>4. CASE i > n + 1
      <3> DEFINE k == i - (n + 1)
      <3>1. k \in 1..Len(rest) /\ k + 1 \in 2..Len(pending)
        BY <1>1, <1>11, <1>12, <2>1, <2>4
      <3>2. pending'[i] = rest[k]
        BY <1>1, <1>12, <2>1, <2>4
      <3> HIDE DEF k
      <3>3. QED
        BY <1>11, <3>1, <3>2
    <2>5. QED
      BY <1>1, <2>1, <2>2, <2>3, <2>4
  <1>15. pending' \in Seq(Work)
    BY <1>11, LaterIsWork, SeqMonotonic
  <1>16. QED
    BY <1>8, <1>10, <1>13, <1>14, <1>15 DEF merge, n

LEMMA HeadAdvances ==
  ASSUME NEW stack, Plan(stack), pending \in Seq(Work), pending # <<>>
  PROVE  /\ Head(pending) \in Work /\ Head(pending) = pending[1] /\ 1 \in 1..Len(pending)
         /\ Advance(Head(pending), stack[0], stack[1])
         /\ stack[0] \in Seq(Definitions) /\ stack[1] \in Seq(Definitions)
  <1>1. Len(pending) \in Nat \ {0}
    BY EmptySeq
  <1>2. Head(pending) \in Work /\ Head(pending) = pending[1]
    BY <1>1, HeadTailProperties
  <1>3. 1 \in 1..Len(pending) /\ 0 \in 0..Len(pending) /\ 1 \in 0..Len(pending)
    BY <1>1
  <1>4. QED
    BY <1>2, <1>3 DEF Plan

(* The rest of pending, when its head is done.                             *)
LEMMA RestOfPending ==
  ASSUME pending \in Seq(Work), pending # <<>>, Tail(pending) \in Seq(Later)
  PROVE  /\ <<>> \o Tail(pending) = Tail(pending)
         /\ Tail(pending) \in Seq(Work)
         /\ \A i \in 1..Len(Tail(pending)) :
              i + 1 \in 2..Len(pending) /\ Tail(pending)[i] = pending[i + 1]
         /\ Tail(pending) # <<>> =>
              /\ Head(Tail(pending)) \in Later
              /\ Tail(Tail(pending)) \in Seq(Later)
  <1>1. /\ Len(pending) \in Nat \ {0} /\ Len(Tail(pending)) = Len(pending) - 1
        /\ \A i \in 1..Len(Tail(pending)) : Tail(pending)[i] = pending[i + 1]
    BY EmptySeq, HeadTailProperties
  <1> DEFINE rest == Tail(pending)
  <1>2. rest \in Seq(Later)
    OBVIOUS
  <1> HIDE DEF rest
  <1>3. /\ <<>> \o rest = rest
        /\ rest \in Seq(Work)
        /\ rest # <<>> => Head(rest) \in Later /\ Tail(rest) \in Seq(Later)
    BY <1>2, ConcatEmptySeq, LaterIsWork, SeqMonotonic, HeadTailProperties
  <1>4. QED
    BY <1>1, <1>3 DEF rest

LEMMA PopPlan ==
  ASSUME NEW stack, Plan(stack),
         pending \in Seq(Work), pending # <<>>, Tail(pending) \in Seq(Later),
         pending' = <<>> \o Tail(pending), UNCHANGED <<catalog, edits, asked>>
  PROVE  \E next : Plan(next)' /\ next[0] = stack[1]
  <1> DEFINE start == [i \in 0..0 |-> stack[1]]
  <1>1. stack[1] \in Seq(Definitions)
    BY HeadAdvances
  <1>2. /\ <<>> \in Seq(Work) /\ Len(<<>>) = 0
        /\ start \in [0..0 -> Seq(Definitions)]
        /\ start[0] = stack[1]
    BY <1>1
  <1> HIDE DEF start
  <1>3. \A i \in 1..0 : Advance(<<>>[i], start[i - 1], start[i])'
    OBVIOUS
  <1>4. QED
    BY <1>2, <1>3, PlanAfter

LEMMA ReplacePlan ==
  ASSUME NEW stack, Plan(stack),
         pending \in Seq(Work), pending # <<>>, Tail(pending) \in Seq(Later),
         NEW w \in Work, pending' = <<w>> \o Tail(pending),
         UNCHANGED <<catalog, edits, asked>>,
         w.table \notin {"lookup", "merge"},
         stack[1] = Append(stack[0], Subject(w)')
  PROVE  /\ \E next : Plan(next)' /\ next[0] = stack[0]
         /\ pending' \in Seq(Work) /\ pending' # <<>>
         /\ Head(pending') = w /\ Tail(pending') = Tail(pending)
         /\ \A i \in 1..Len(pending') :
              pending'[i] = w \/ \E k \in 2..Len(pending) : pending'[i] = pending[k]
  <1>0. PICK one, start, rest :
          one = <<w>> /\ start = [i \in 0..1 |-> stack[i]] /\ rest = Tail(pending)
    OBVIOUS
  <1>1. stack[0] \in Seq(Definitions) /\ stack[1] \in Seq(Definitions)
    BY HeadAdvances
  <1>2. one \in Seq(Work) /\ Len(one) = 1 /\ one[1] = w
    BY <1>0
  <1>3. /\ start \in [0..1 -> Seq(Definitions)]
        /\ start[0] = stack[0] /\ start[1] = stack[1]
    <2>1. \A i \in 0..1 : i = 0 \/ i = 1
      OBVIOUS
    <2>2. \A i \in 0..1 : stack[i] \in Seq(Definitions)
      BY <1>1, <2>1, Zenon
    <2>3. start \in [0..1 -> Seq(Definitions)]
      BY <1>0, <2>2, Zenon
    <2>4. start[0] = stack[0] /\ start[1] = stack[1]
      BY <1>0
    <2>5. QED
      BY <2>3, <2>4
  <1>4. \A i \in 1..Len(one) : Advance(one[i], start[i - 1], start[i])'
    <2>1. Advance(w, start[0], start[1])'
      BY <1>3 DEF Advance
    <2>2. \A i \in 1..Len(one) : i = 1 /\ i - 1 = 0
      BY <1>2
    <2>3. QED
      BY <1>2, <2>1, <2>2
  <1>5. \E next : Plan(next)' /\ next[0] = start[0]
    <2>1. start \in [0..Len(one) -> Seq(Definitions)] /\ start[Len(one)] = stack[1]
      BY <1>2, <1>3
    <2>2. pending' = one \o Tail(pending)
      BY <1>0
    <2>3. QED
      BY <1>2, <1>4, <2>1, <2>2, PlanAfter
  <1>6. rest \in Seq(Work) /\ Len(rest) \in Nat /\ \A i \in 1..Len(rest) :
              i + 1 \in 2..Len(pending) /\ rest[i] = pending[i + 1]
    BY <1>0, RestOfPending, LenProperties
  <1>7. /\ pending' = one \o rest /\ pending' \in Seq(Work)
        /\ Len(pending') = 1 + Len(rest)
        /\ \A i \in 1..Len(pending') : pending'[i] = IF i <= 1 THEN w ELSE rest[i - 1]
    <2>1. pending' = one \o rest
      BY <1>0
    <2>2. one \o rest \in Seq(Work)
      BY <1>2, <1>6, ConcatProperties
    <2>3. /\ Len(one \o rest) = Len(one) + Len(rest)
          /\ \A i \in 1..(Len(one) + Len(rest)) :
               (one \o rest)[i] = IF i <= Len(one) THEN one[i] ELSE rest[i - Len(one)]
      BY <1>2, <1>6, ConcatProperties
    <2>4. \A i \in 1..(1 + Len(rest)) : i <= 1 => i = 1
      BY <1>6
    <2>5. QED
      BY <1>2, <2>1, <2>2, <2>3, <2>4
  <1>8. pending' # <<>> /\ Head(pending') = w /\ Tail(pending') = rest
    <2>1. PICK after : after = pending'
      OBVIOUS
    <2>2. /\ after \in Seq(Work) /\ Len(after) = 1 + Len(rest) /\ after[1] = w
          /\ \A i \in 1..Len(rest) : after[i + 1] = rest[i]
      <3>1. 1 \in 1..(1 + Len(rest)) /\ \A i \in 1..Len(rest) :
              i + 1 \in 1..(1 + Len(rest)) /\ ~(i + 1 <= 1) /\ (i + 1) - 1 = i
        BY <1>6
      <3>2. after \in Seq(Work) /\ Len(after) = 1 + Len(rest)
        BY <1>7, <2>1
      <3>3. \A i \in 1..(1 + Len(rest)) : after[i] = IF i <= 1 THEN w ELSE rest[i - 1]
        BY <1>7, <2>1
      <3>4. after[1] = w
        BY <3>1, <3>3
      <3>5. ASSUME NEW i \in 1..Len(rest) PROVE after[i + 1] = rest[i]
        BY <3>1, <3>3, Zenon
      <3>6. QED
        BY <3>2, <3>4, <3>5
    <2>3. after # <<>> /\ Head(after) = w
      BY <1>6, <2>2
    <2>4. /\ Tail(after) \in Seq(Work) /\ Len(Tail(after)) = Len(rest)
          /\ \A i \in 1..Len(rest) : Tail(after)[i] = rest[i]
      BY <1>6, <2>2, <2>3, HeadTailProperties
    <2>5. Tail(after) = rest
      BY <1>6, <2>4, SeqEqual
    <2>6. QED
      BY <2>1, <2>3, <2>5
  <1>9. ASSUME NEW i \in 1..Len(pending')
        PROVE  pending'[i] = w \/ \E k \in 2..Len(pending) : pending'[i] = pending[k]
    <2>1. CASE i = 1
      BY <1>7, <2>1
    <2>2. CASE i # 1
      <3>1. i - 1 \in 1..Len(rest) /\ (i - 1) + 1 = i /\ ~(i <= 1)
        BY <1>7, <2>2
      <3>2. pending'[i] = pending[i] /\ i \in 2..Len(pending)
        BY <1>6, <1>7, <3>1
      <3>3. QED
        BY <3>2
    <2>3. QED
      BY <2>1, <2>2
  <1>10. QED
    BY <1>0, <1>3, <1>5, <1>7, <1>8, <1>9

-------------------------------------------------------------------------------
(* What a dashboard or a report reaches is what its references reach.      *)

LEMMA ReachedByQuery ==
  ASSUME NEW cat, NEW q
  PROVE  /\ \A x : x \in ReachedQueries(cat, Read("query", q)) <=> x = q
         /\ \A x : x \notin ReachedDashboards(cat, Read("query", q))
  <1> DEFINE d == Read("query", q)
  <1>1. d.table = "query" /\ d.id = q
    BY DEF Read
  <1> HIDE DEF d
  <1>2. ReachedDashboards(cat, d) = {}
    BY <1>1 DEF ReachedDashboards
  <1>3. Here(cat, "dashboard", ReachedDashboards(cat, d)) = {}
    BY <1>2 DEF Here
  <1>4. \A x : x \in ReachedQueries(cat, d) <=> x = q
    BY <1>1, <1>3 DEF ReachedQueries
  <1>5. QED
    BY <1>2, <1>4 DEF d

LEMMA ReachedByDashboard ==
  ASSUME NEW cat, NEW b
  PROVE  /\ \A x : x \in ReachedQueries(cat, Read("dashboard", b)) <=>
                     x # None /\ \E row \in Found(cat, "dashboard", b) : x \in Elements(row.widgets)
         /\ \A x : x \in ReachedDashboards(cat, Read("dashboard", b)) <=> x = b
  <1> DEFINE d == Read("dashboard", b)
  <1>1. d.table = "dashboard" /\ d.id = b
    BY DEF Read
  <1> HIDE DEF d
  <1>2. ReachedDashboards(cat, d) = {b}
    BY <1>1 DEF ReachedDashboards
  <1>3. Here(cat, "dashboard", ReachedDashboards(cat, d)) = Found(cat, "dashboard", b)
    BY <1>2, HereFound
  <1>4. \A x : x \in ReachedQueries(cat, d) <=>
          x # None /\ \E row \in Found(cat, "dashboard", b) : x \in Elements(row.widgets)
    BY <1>1, <1>3 DEF ReachedQueries
  <1>5. QED
    BY <1>2, <1>4 DEF d

LEMMA ReachedByReport ==
  ASSUME NEW cat, NEW r
  PROVE  /\ \A x : x \in ReachedDashboards(cat, Read("report", r)) <=>
                     \E row \in Found(cat, "report", r) : x \in ReportDashboards(row)
         /\ \A x : x \in ReachedQueries(cat, Read("report", r)) <=>
              \/ \E row \in Found(cat, "report", r) : x \in ReportQueries(row)
              \/ \E b \in ReachedDashboards(cat, Read("report", r)) :
                   x \in ReachedQueries(cat, Read("dashboard", b))
  <1> DEFINE d == Read("report", r)
             boards == ReachedDashboards(cat, d)
  <1>1. d.table = "report" /\ d.id = r
    BY DEF Read
  <1> HIDE DEF d
  <1>2. Here(cat, "report", {d.id}) = Found(cat, "report", r)
    BY <1>1, HereFound
  <1>3. \A x : x \in boards <=> \E row \in Found(cat, "report", r) : x \in ReportDashboards(row)
    BY <1>1, <1>2 DEF ReachedDashboards, ReportDashboards
  <1>4. \A x : x \in QueriesOf(cat, boards) <=>
          \E b \in boards : x \in ReachedQueries(cat, Read("dashboard", b))
    BY HereFound, ReachedByDashboard DEF QueriesOf
  <1>5. \A x : x \in ReachedQueries(cat, d) <=>
          \/ x \in QueriesOf(cat, boards)
          \/ \E row \in Found(cat, "report", r) : x \in ReportQueries(row)
    BY <1>1, <1>2 DEF ReachedQueries, QueriesOf, ReportQueries
  <1>6. QED
    BY <1>3, <1>4, <1>5 DEF d

LEMMA ReachedByParts ==
  ASSUME NEW cat, NEW owner \in Definitions, owner.table # "query"
  PROVE  /\ \A x : x \in ReachedQueries(cat, owner) <=>
                     \E t \in Needs(cat, owner) : x \in ReachedQueries(cat, t)
         /\ \A x : x \in ReachedDashboards(cat, owner) <=>
                     \/ owner.table = "dashboard" /\ x = owner.id
                     \/ \E t \in Needs(cat, owner) : x \in ReachedDashboards(cat, t)
  <1>1. CASE owner.table = "dashboard"
    <2>1. owner = Read("dashboard", owner.id)
      BY <1>1 DEF Definitions, Read
    <2>2. \A t : t \in Needs(cat, owner) <=>
            \E row \in Found(cat, "dashboard", owner.id) :
              \E q \in Elements(row.widgets) \ {None} : t = Read("query", q)
      BY <1>1 DEF Needs, FoundAt
    <2>3. \A x : (\E t \in Needs(cat, owner) : x \in ReachedQueries(cat, t)) <=>
            \E row \in Found(cat, "dashboard", owner.id) : x \in Elements(row.widgets) \ {None}
      BY <2>2, ReachedByQuery
    <2>4. \A x : ~\E t \in Needs(cat, owner) : x \in ReachedDashboards(cat, t)
      BY <2>2, ReachedByQuery
    <2>5. \A x : x \in ReachedQueries(cat, owner) <=>
            \E row \in Found(cat, "dashboard", owner.id) : x \in Elements(row.widgets) \ {None}
      BY <2>1, ReachedByDashboard
    <2>6. \A x : x \in ReachedDashboards(cat, owner) <=> x = owner.id
      BY <2>1, ReachedByDashboard
    <2>7. QED
      BY <1>1, <2>3, <2>4, <2>5, <2>6
  <1>2. CASE owner.table = "report"
    <2>1. owner = Read("report", owner.id)
      BY <1>2 DEF Definitions, Read
    <2>2. \A t : t \in Needs(cat, owner) <=>
            \E row \in Found(cat, "report", owner.id) :
              \/ \E q \in ReportQueries(row) : t = Read("query", q)
              \/ \E b \in ReportDashboards(row) : t = Read("dashboard", b)
      BY <1>2 DEF Needs, FoundAt
    <2>3. \A x : x \in ReachedDashboards(cat, owner) <=>
            \E row \in Found(cat, "report", owner.id) : x \in ReportDashboards(row)
      BY <2>1, ReachedByReport
    <2>4. \A x : x \in ReachedQueries(cat, owner) <=>
            \/ \E row \in Found(cat, "report", owner.id) : x \in ReportQueries(row)
            \/ \E b \in ReachedDashboards(cat, owner) :
                 x \in ReachedQueries(cat, Read("dashboard", b))
      BY <2>1, ReachedByReport
    <2>5. ASSUME NEW x
          PROVE  (\E t \in Needs(cat, owner) : x \in ReachedQueries(cat, t)) <=>
            \/ \E row \in Found(cat, "report", owner.id) : x \in ReportQueries(row)
            \/ \E row \in Found(cat, "report", owner.id) : \E b \in ReportDashboards(row) :
                 x \in ReachedQueries(cat, Read("dashboard", b))
      <3>1. \A q : x \in ReachedQueries(cat, Read("query", q)) <=> x = q
        BY ReachedByQuery
      <3>2. QED
        BY <2>2, <3>1
    <2>6. ASSUME NEW x
          PROVE  (\E t \in Needs(cat, owner) : x \in ReachedDashboards(cat, t)) <=>
            \E row \in Found(cat, "report", owner.id) : x \in ReportDashboards(row)
      <3>1. /\ \A q : x \notin ReachedDashboards(cat, Read("query", q))
            /\ \A b : x \in ReachedDashboards(cat, Read("dashboard", b)) <=> x = b
        BY ReachedByQuery, ReachedByDashboard
      <3>2. QED
        BY <2>2, <3>1
    <2>7. QED
      BY <1>2, <2>3, <2>4, <2>5, <2>6
  <1>3. QED
    BY <1>1, <1>2 DEF Definitions, Read

-------------------------------------------------------------------------------
(* What other calls leave of what was read: the rows, and, as long as no   *)
(* reference is changed, what they refer to.                               *)

LEMMA HeldRow ==
  ASSUME NEW cat, NEW table, NEW id
  PROVE  /\ Held(cat, table, id) <=> Found(cat, table, id) # {}
         /\ Held(cat, table, id) => Found(cat, table, id) = {cat[table][id]}
         /\ \A row \in Found(cat, table, id) : row = cat[table][id]
  BY DEF Held, Found

LEMMA TableIds ==
  /\ Tables = {"query", "dataset", "mapping", "connection", "dashboard", "report"}
  /\ Ids["query"] = QueryIds /\ Ids["dataset"] = DatasetIds
  /\ Ids["mapping"] = MappingIds /\ Ids["connection"] = ConnectionIds
  /\ Ids["dashboard"] = DashboardIds /\ Ids["report"] = ReportIds
  BY DEF Tables, Rows, Ids

LEMMA EditHolds ==
  ASSUME WalkInv, Edit
  PROVE  /\ \A q \in QueryIds : Held(catalog, "query", q) => Held(catalog', "query", q)
         /\ \A d \in DatasetIds : Held(catalog, "dataset", d) => Held(catalog', "dataset", d)
         /\ \A m \in MappingIds : Held(catalog, "mapping", m) => Held(catalog', "mapping", m)
         /\ \A c \in ConnectionIds :
              Held(catalog, "connection", c) => Held(catalog', "connection", c)
         /\ \A b \in DashboardIds :
              Held(catalog, "dashboard", b) => Held(catalog', "dashboard", b)
         /\ \A r \in ReportIds : Held(catalog, "report", r) => Held(catalog', "report", r)
  <1>1. ASSUME NEW table \in Tables, NEW id \in Ids[table], Held(catalog, table, id)
        PROVE  Held(catalog', table, id)
    BY <1>1, EditStores DEF Held
  <1>2. QED
    BY <1>1, TableIds

LEMMA GrownReferences ==
  ASSUME NEW old, NEW new, CatalogOK(old), CatalogOK(new), Grew(old, new)
  PROVE  /\ \A q \in QueryIds : Held(old, "query", q) =>
              new.query[q].dataset = old.query[q].dataset
         /\ \A d \in DatasetIds : Held(old, "dataset", d) =>
              /\ Held(new, "dataset", d)
              /\ new.dataset[d].key = old.dataset[d].key
              /\ new.dataset[d].connection = old.dataset[d].connection
         /\ \A m \in MappingIds : Held(old, "mapping", m) =>
              /\ Held(new, "mapping", m)
              /\ new.mapping[m].key = old.mapping[m].key
              /\ new.mapping[m].connection = old.mapping[m].connection
         /\ \A d \in DatasetIds : Held(old, "dataset", d) =>
              \A c : c \in OffersOf(old, old.dataset[d]) => c \in OffersOf(new, new.dataset[d])
  <1>1. ASSUME NEW q \in QueryIds, Held(old, "query", q)
        PROVE  new.query[q].dataset = old.query[q].dataset
    <2>1. old.query[q] \in Found(old, "query", q)
      BY <1>1, HeldRow
    <2>2. QED
      BY <2>1, GrownRow, HeldRow
  <1>2. ASSUME NEW d \in DatasetIds, Held(old, "dataset", d)
        PROVE  /\ Held(new, "dataset", d)
               /\ new.dataset[d].key = old.dataset[d].key
               /\ new.dataset[d].connection = old.dataset[d].connection
    <2>1. old.dataset[d] \in Found(old, "dataset", d)
      BY <1>2, HeldRow
    <2>2. PICK now \in Found(new, "dataset", d) :
            now.key = old.dataset[d].key /\ now.connection = old.dataset[d].connection
      BY <2>1, GrownRow
    <2>3. QED
      BY <2>2, HeldRow
  <1>3. ASSUME NEW m \in MappingIds, Held(old, "mapping", m)
        PROVE  /\ Held(new, "mapping", m)
               /\ new.mapping[m].key = old.mapping[m].key
               /\ new.mapping[m].connection = old.mapping[m].connection
    <2>1. old.mapping[m] \in Found(old, "mapping", m)
      BY <1>3, HeldRow
    <2>2. PICK now \in Found(new, "mapping", m) :
            now.key = old.mapping[m].key /\ now.connection = old.mapping[m].connection
      BY <2>1, GrownRow
    <2>3. QED
      BY <2>2, HeldRow
  <1>4. ASSUME NEW d \in DatasetIds, Held(old, "dataset", d),
               NEW c, c \in OffersOf(old, old.dataset[d])
        PROVE  c \in OffersOf(new, new.dataset[d])
    <2>1. /\ new.dataset[d].key = old.dataset[d].key
          /\ new.dataset[d].connection = old.dataset[d].connection
      BY <1>2, <1>4
    <2>2. CASE old.dataset[d].connection # None
      BY <1>4, <2>1, <2>2 DEF OffersOf
    <2>3. CASE old.dataset[d].connection = None
      <3>1. PICK m \in MappingIds : /\ Found(old, "mapping", m) # {}
                                    /\ old.mapping[m].key = old.dataset[d].key
                                    /\ c = old.mapping[m].connection
        BY <1>4, <2>3 DEF OffersOf
      <3>2. /\ Held(new, "mapping", m)
            /\ new.mapping[m].key = old.mapping[m].key
            /\ new.mapping[m].connection = old.mapping[m].connection
        BY <1>3, <3>1, HeldRow
      <3>3. Found(new, "mapping", m) # {} /\ new.mapping[m].key = new.dataset[d].key
        BY <2>1, <3>1, <3>2, HeldRow
      <3>4. QED
        BY <2>1, <2>3, <3>1, <3>2, <3>3 DEF OffersOf
    <2>4. QED
      BY <2>2, <2>3
  <1>5. QED
    BY <1>1, <1>2, <1>3, <1>4

(* The rows a bundle names.                                                *)
LEMMA BundleRows ==
  ASSUME NEW b \in Bundle
  PROVE  /\ Elements(b.queries) \subseteq QueryIds
         /\ Elements(b.dashboards) \subseteq DashboardIds
         /\ Elements(b.reports) \subseteq ReportIds
         /\ Elements(b.mappings) \subseteq MappingIds
         /\ b.dataset \in DatasetIds /\ b.connection \in ConnectionIds
         /\ b.queries # <<>> => b.queries[1] \in Elements(b.queries)
         /\ b.mappings # <<>> => b.mappings[1] \in Elements(b.mappings)
  <1>1. /\ b.queries \in Seq(QueryIds) /\ b.dashboards \in Seq(DashboardIds)
        /\ b.reports \in Seq(ReportIds) /\ b.mappings \in Seq(MappingIds)
        /\ b.dataset \in DatasetIds /\ b.connection \in ConnectionIds
    BY DEF Bundle
  <1>2. ASSUME NEW S, NEW s \in Seq(S)
        PROVE  Elements(s) \subseteq S /\ (s # <<>> => s[1] \in Elements(s))
    <2>1. Elements(s) \subseteq S
      BY ListElements
    <2>2. ASSUME s # <<>> PROVE s[1] \in Elements(s)
      <3>1. 1 \in DOMAIN s
        BY <2>2, EmptySeq, LenProperties
      <3>2. QED
        BY <3>1 DEF Elements
    <2>3. QED
      BY <2>1, <2>2
  <1>3. QED
    BY <1>1, <1>2

LEMMA GrownBundle ==
  ASSUME NEW old, NEW new, CatalogOK(old), CatalogOK(new), Grew(old, new),
         NEW b \in Bundle, b.queries # <<>>, b.mappings # <<>>,
         BundleHeld(old, b), BundleFits(old, b)
  PROVE  BundleFits(new, b)
  <1>1. new.query[b.queries[1]].dataset = b.dataset
    <2>1. b.queries[1] \in QueryIds /\ Held(old, "query", b.queries[1])
      BY BundleRows DEF BundleHeld
    <2>2. QED
      BY <2>1, GrownReferences DEF BundleFits
  <1>2. new.mapping[b.mappings[1]].key = new.dataset[b.dataset].key
    <2>1. /\ b.mappings[1] \in MappingIds /\ Held(old, "mapping", b.mappings[1])
          /\ b.dataset \in DatasetIds /\ Held(old, "dataset", b.dataset)
      BY BundleRows DEF BundleHeld
    <2>2. old.mapping[b.mappings[1]].key = old.dataset[b.dataset].key
      BY DEF BundleFits
    <2>3. QED
      BY <2>1, <2>2, GrownReferences
  <1>3. ASSUME NEW q \in Elements(b.queries)
        PROVE  /\ new.query[q].dataset \in DatasetIds
               /\ Held(new, "dataset", new.query[q].dataset)
               /\ b.connection \in OffersOf(new, DatasetOf(new, q))
    <2>1. q \in QueryIds /\ Held(old, "query", q)
      BY BundleRows DEF BundleHeld
    <2>2. /\ old.query[q].dataset \in DatasetIds
          /\ Held(old, "dataset", old.query[q].dataset)
          /\ b.connection \in OffersOf(old, DatasetOf(old, q))
      BY DEF BundleFits
    <2>3. new.query[q].dataset = old.query[q].dataset
      BY <2>1, GrownReferences
    <2>4. /\ Held(new, "dataset", old.query[q].dataset)
          /\ b.connection \in OffersOf(new, new.dataset[old.query[q].dataset])
      BY <2>2, GrownReferences DEF DatasetOf
    <2>5. QED
      BY <2>2, <2>3, <2>4 DEF DatasetOf
  <1>4. QED
    BY <1>1, <1>2, <1>3 DEF BundleFits

LEMMA WorkTables ==
  ASSUME NEW w \in Work
  PROVE  \/ w \in Definitions /\ w.table \in {"query", "dashboard", "report"}
         \/ w \in Task /\ w.table = "dataset" /\ w.id \in DatasetIds
         \/ w \in Task /\ w.table = "mapping" /\ w.id \in Keys
         \/ w \in LookupReads /\ w.table = "lookup" /\ w.id \in QueryIds
         \/ w \in ConnectionReads /\ w.table = "connection" /\ w.id \in ConnectionIds
         \/ w \in Merges /\ w.table = "merge" /\ w.id \in Definitions /\ w.count \in Nat \ {0}
  BY DEF Work, Task, Definitions, LookupReads, Lookup, ConnectionReads, Merges, Merge, Read

LEMMA GrownChain ==
  ASSUME NEW old, NEW new, CatalogOK(old), CatalogOK(new), Grew(old, new),
         chain \in ChainType, NEW w \in Work, ChainHeld(old, w), ChainFits(old, w)
  PROVE  ChainFits(new, w)
  <1>1. w.table \in ChainTables => new.query[chain.query].dataset = old.query[chain.query].dataset
    BY GrownReferences DEF ChainHeld
  <1>2. w.table \in {"mapping", "connection"} =>
          /\ new.dataset[chain.dataset].key = old.dataset[chain.dataset].key
          /\ new.dataset[chain.dataset].connection = old.dataset[chain.dataset].connection
          /\ \A c : c \in OffersOf(old, old.dataset[chain.dataset]) =>
                    c \in OffersOf(new, new.dataset[chain.dataset])
    BY GrownReferences DEF ChainHeld
  <1>3. w.table = "connection" =>
          \A m \in Elements(chain.mappings) : new.mapping[m].key = old.mapping[m].key
    <2>1. Elements(chain.mappings) \subseteq MappingIds
      BY ListElements DEF ChainType
    <2>2. QED
      BY <2>1, GrownReferences DEF ChainHeld
  <1>4. QED
    BY <1>1, <1>2, <1>3 DEF ChainFits, ChainTables

LEMMA EditKeepsBundle ==
  ASSUME WalkInv, Edit, NEW b, NEW d, Describes(b, d)
  PROVE  Describes(b, d)'
  <1>1. /\ b \in Bundle /\ b.queries # <<>> /\ b.mappings # <<>>
        /\ BundleNames(b, d) /\ BundleHeld(catalog, b)
        /\ ~repointed => BundleFits(catalog, b)
    BY DEF Describes
  <1>2. BundleHeld(catalog', b)
    <2>1. /\ \A q \in Elements(b.queries) : q \in QueryIds
          /\ \A x \in Elements(b.dashboards) : x \in DashboardIds
          /\ \A r \in Elements(b.reports) : r \in ReportIds
          /\ \A m \in Elements(b.mappings) : m \in MappingIds
          /\ b.dataset \in DatasetIds /\ b.connection \in ConnectionIds
      BY <1>1, BundleRows
    <2>2. QED
      BY <1>1, <2>1, EditHolds DEF BundleHeld
  <1>3. CatalogOK(catalog) /\ CatalogOK(catalog') /\ edits' # 0
        /\ (~repointed' => ~repointed /\ Grew(catalog, catalog'))
    BY EditStores DEF WalkInv, ReadinessTypeOK
  <1>4. ~repointed' => BundleFits(catalog', b)
    BY <1>1, <1>3, GrownBundle
  <1>5. QED
    BY <1>1, <1>2, <1>3, <1>4 DEF Describes

LEMMA EditKeepsJustified ==
  ASSUME WalkInv, Edit, UNCHANGED chain, NEW w \in Work, Justified(w)
  PROVE  Justified(w)'
  <1>1. CatalogOK(catalog) /\ CatalogOK(catalog') /\ edits' # 0
        /\ (~repointed' => ~repointed /\ Grew(catalog, catalog'))
    BY EditStores DEF WalkInv, ReadinessTypeOK
  <1>2. \A d : PartOf(d)'
    BY <1>1 DEF PartOf
  <1>3. w.table = "merge" => Held(catalog', w.id.table, w.id.id)
    <2>1. ASSUME w.table = "merge" PROVE w.id \in Definitions
      BY <2>1, WorkTables
    <2>2. ASSUME NEW d \in Definitions, Held(catalog, d.table, d.id)
          PROVE  Held(catalog', d.table, d.id)
      <3>1. \/ d.table = "query" /\ d.id \in QueryIds
            \/ d.table = "dashboard" /\ d.id \in DashboardIds
            \/ d.table = "report" /\ d.id \in ReportIds
        BY DEF Definitions, Read
      <3>2. QED
        BY <2>2, <3>1, EditHolds
    <2>3. w.table = "merge" => Held(catalog, w.id.table, w.id.id)
      BY DEF Justified
    <2>4. QED
      BY <2>1, <2>2, <2>3
  <1>4. ASSUME NEW t \in Task, Clear(catalog, {t}), ~repointed'
        PROVE  Clear(catalog', {t})
    <2>1. {t} \in SUBSET Task
      OBVIOUS
    <2>2. QED
      BY <1>1, <1>4, <2>1, GrownClear
  <1>5. w.table = "lookup" => Read("query", w.id) \in Task
    <2>1. w.table = "lookup" => w.id \in QueryIds
      BY WorkTables
    <2>2. QED
      BY <2>1 DEF Task, Definitions
  <1>6. w.table = "lookup" /\ ~repointed' => Clear(catalog', {Read("query", w.id)})
    BY <1>1, <1>4, <1>5 DEF Justified
  <1>7. w \in Task /\ ~repointed' => Clear(catalog', {w})
    BY <1>1, <1>4 DEF Justified
  <1>8. QED
    BY <1>2, <1>3, <1>6, <1>7 DEF Justified

(* An edit leaves no obligation that the catalog be as it was at first.    *)
LEMMA EditKeepsAdvance ==
  ASSUME edits' # 0, UNCHANGED chain, NEW w, NEW before, NEW after, Advance(w, before, after)
  PROVE  Advance(w, before, after)'
  <1>1. Subject(w)' = Subject(w)
    BY DEF Subject
  <1>2. ASSUME NEW owner, NEW parts, Referred(owner, parts)
        PROVE  Referred(owner, parts)'
    BY <1>2 DEF Referred
  <1>3. QED
    BY <1>1, <1>2 DEF Advance

LEMMA EditKeepsPlan ==
  ASSUME WalkInv, Edit, UNCHANGED <<pending, chain, partials>>,
         NEW stack, Plan(stack), Stands(partials, stack[0])
  PROVE  Plan(stack)' /\ Stands(partials, stack[0])'
  <1>0. PICK work, bundles : work = pending /\ bundles = partials
    OBVIOUS
  <1>1. edits' # 0 /\ asked' = asked
    BY EditStores DEF evaluation
  <1>2. ASSUME NEW i \in 1..Len(work)
        PROVE  Advance(work[i], stack[i - 1], stack[i])'
    <2>1. Advance(work[i], stack[i - 1], stack[i])
      BY <1>0 DEF Plan
    <2>2. QED
      BY <1>1, <2>1, EditKeepsAdvance
  <1>3. work' = work /\ bundles' = bundles /\ pending' = work /\ partials' = bundles
    BY <1>0
  <1>4. Plan(stack)'
    <2>1. /\ stack \in [0..Len(work) -> Seq(Definitions)]
          /\ stack[Len(work)] = <<asked>>
      BY <1>0 DEF Plan
    <2>2. QED
      BY <1>1, <1>2, <1>3, <2>1 DEF Plan
  <1>5. Stands(partials, stack[0])'
    <2>1. /\ Len(bundles) = Len(stack[0])
          /\ \A i \in 1..Len(bundles) : Describes(bundles[i], stack[0][i])
      BY <1>0 DEF Stands
    <2>2. \A i \in 1..Len(bundles) : Describes(bundles[i], stack[0][i])'
      BY <2>1, EditKeepsBundle
    <2>3. QED
      BY <1>3, <2>1, <2>2 DEF Stands
  <1>6. QED
    BY <1>4, <1>5

LEMMA EditKeepsPending ==
  ASSUME WalkInv, Edit, UNCHANGED <<resolverVars, bridgeVars>>,
         pending \in Seq(Work), chain \in ChainType, PendingInv
  PROVE  PendingInv'
  <1> SUFFICES ASSUME pending # <<>> PROVE PendingInv'
    BY DEF PendingInv, resolverVars
  <1>0. PICK work, w : work = pending /\ w = Head(pending)
    OBVIOUS
  <1>1. /\ Tail(work) \in Seq(Later) /\ stage = "references" /\ blocked = None
        /\ ChainHeld(catalog, w)
        /\ ~repointed => ChainFits(catalog, w)
        /\ \A i \in 1..Len(work) : Justified(work[i])
    BY <1>0 DEF PendingInv
  <1>2. w \in Work /\ \A i \in 1..Len(work) : work[i] \in Work
    BY <1>0, HeadTailProperties, ElementOfSeq
  <1>3. CatalogOK(catalog) /\ CatalogOK(catalog') /\ edits' # 0
        /\ (~repointed' => ~repointed /\ Grew(catalog, catalog'))
    BY EditStores DEF WalkInv, ReadinessTypeOK
  <1>4. UNCHANGED <<pending, chain, stage, blocked>>
    BY DEF resolverVars, bridgeVars
  <1>5. ChainHeld(catalog', w)
    <2>1. w.table = "connection" => Elements(chain.mappings) \subseteq MappingIds
      BY ListElements DEF ChainType
    <2>2. QED
      BY <1>1, <2>1, EditHolds DEF ChainHeld
  <1>6. ~repointed' => ChainFits(catalog', w)
    BY <1>1, <1>2, <1>3, GrownChain
  <1>7. \A i \in 1..Len(work) : Justified(work[i])'
    BY <1>1, <1>2, <1>4, EditKeepsJustified
  <1>8. ChainHeld(catalog, w)' /\ (~repointed' => ChainFits(catalog, w)')
    BY <1>4, <1>5, <1>6 DEF ChainHeld, ChainFits
  <1>9. pending' = work /\ Head(work) = w /\ stage' = "references" /\ blocked' = None
    BY <1>0, <1>1, <1>4
  <1>10. QED
    BY <1>1, <1>3, <1>7, <1>8, <1>9 DEF PendingInv

LEMMA EditKeepsBridge == BridgeInv /\ EditCatalog => BridgeInv'
  <1> SUFFICES ASSUME BridgeInv, EditCatalog PROVE BridgeInv'
    OBVIOUS
  <1>1. WalkInv /\ Edit /\ UNCHANGED <<resolverVars, bridgeVars>>
    BY DEF BridgeInv, EditCatalog
  <1>2. UNCHANGED <<pending, chain, partials, blocked, failed, stage, verdict, command>>
    BY <1>1 DEF resolverVars, bridgeVars
  <1>3. edits' # 0 /\ UNCHANGED <<todo, blockers, asked>> /\ (~repointed' => ~repointed)
    BY <1>1, EditStores DEF evaluation
  <1>4. WalkInv'
    BY <1>1, WalkInvEdit
  <1>5. PendingInv'
    BY <1>1, EditKeepsPending DEF BridgeInv
  <1>6. BlockedInv'
    BY <1>2, <1>3 DEF BridgeInv, BlockedInv
  <1>7. StageInv'
    <2>1. \A own, mode : BuildCommand(partials[1], own, mode)' = BuildCommand(partials[1], own, mode)
      BY <1>2, <1>3 DEF BuildCommand
    <2>2. Untouched' <=> Untouched
      BY <1>2 DEF Untouched
    <2>3. stage \notin {"concluded", "threw"}
      BY DEF EditCatalog
    <2>4. QED
      BY <1>2, <1>3, <2>2, <2>3 DEF BridgeInv, StageInv
  <1>8. Resolving' => \E stack : (Plan(stack) /\ Stands(partials, stack[0]))'
    <2>1. ASSUME Resolving' PROVE \E stack : Plan(stack) /\ Stands(partials, stack[0])
      BY <1>2, <2>1 DEF Resolving, BridgeInv
    <2>2. QED
      BY <1>1, <1>2, <2>1, EditKeepsPlan
  <1>9. /\ pending' \in Seq(Work) /\ chain' \in ChainType /\ partials' \in Seq(Bundle)
        /\ blocked' \in ReferenceBlockers \union {None} /\ failed' \in BOOLEAN
        /\ stage' \in {"request", "readiness", "references", "concluded", "threw"}
    BY <1>2 DEF BridgeInv
  <1>10. QED
    BY <1>3, <1>4, <1>5, <1>6, <1>7, <1>8, <1>9 DEF BridgeInv

-------------------------------------------------------------------------------
(* The stages before and after the resolution.                             *)

LEMMA SameDescribes ==
  ASSUME UNCHANGED readinessVars, NEW b, NEW d, Describes(b, d)
  PROVE  Describes(b, d)'
  BY DEF Describes, readinessVars

LEMMA SameJustified ==
  ASSUME UNCHANGED readinessVars, NEW w \in Work, Justified(w),
         w \in Later \/ UNCHANGED chain
  PROVE  Justified(w)'
  <1>1. w \in Later => w.table \notin ChainTables
    BY DEF Later, QueryReads, DashboardReads, Merges, Merge, Read, ChainTables
  <1>2. \A d : PartOf(d)' <=> PartOf(d)
    BY DEF PartOf, readinessVars, evaluation
  <1>3. UNCHANGED <<catalog, repointed>>
    BY DEF readinessVars
  <1>4. QED
    BY <1>1, <1>2, <1>3 DEF Justified

LEMMA SameAdvance ==
  ASSUME UNCHANGED <<readinessVars, chain>>, NEW w, NEW before, NEW after,
         Advance(w, before, after)
  PROVE  Advance(w, before, after)'
  <1>1. Subject(w)' = Subject(w)
    BY DEF Subject
  <1>2. ASSUME NEW owner, NEW parts, Referred(owner, parts)
        PROVE  Referred(owner, parts)'
    BY <1>2 DEF Referred, readinessVars
  <1>3. QED
    BY <1>1, <1>2 DEF Advance

LEMMA SameStands ==
  ASSUME UNCHANGED <<readinessVars, partials>>, NEW definitions, Stands(partials, definitions)
  PROVE  Stands(partials, definitions)'
  <1>0. PICK bundles : bundles = partials
    OBVIOUS
  <1>1. /\ Len(bundles) = Len(definitions)
        /\ \A i \in 1..Len(bundles) : Describes(bundles[i], definitions[i])
    BY <1>0 DEF Stands
  <1>2. \A i \in 1..Len(bundles) : Describes(bundles[i], definitions[i])'
    BY <1>1, SameDescribes
  <1>3. partials' = bundles
    BY <1>0
  <1>4. QED
    BY <1>1, <1>2, <1>3 DEF Stands

LEMMA SamePlan ==
  ASSUME UNCHANGED <<readinessVars, pending, chain>>, NEW stack, Plan(stack)
  PROVE  Plan(stack)'
  <1>0. PICK work : work = pending
    OBVIOUS
  <1>1. ASSUME NEW i \in 1..Len(work)
        PROVE  Advance(work[i], stack[i - 1], stack[i])'
    <2>1. Advance(work[i], stack[i - 1], stack[i])
      BY <1>0 DEF Plan
    <2>2. QED
      BY <2>1, SameAdvance
  <1>2. stack \in [0..Len(work) -> Seq(Definitions)] /\ stack[Len(work)] = <<asked>>
    BY <1>0 DEF Plan
  <1>3. pending' = work /\ asked' = asked
    BY <1>0 DEF readinessVars, evaluation
  <1>4. QED
    BY <1>1, <1>2, <1>3 DEF Plan

LEMMA SamePending ==
  ASSUME UNCHANGED <<readinessVars, resolverVars, stage>>, pending \in Seq(Work), PendingInv
  PROVE  PendingInv'
  <1> SUFFICES ASSUME pending # <<>> PROVE PendingInv'
    BY DEF PendingInv, resolverVars
  <1>0. PICK work, w : work = pending /\ w = Head(pending)
    OBVIOUS
  <1>1. /\ Tail(work) \in Seq(Later) /\ stage = "references" /\ blocked = None
        /\ ChainHeld(catalog, w)
        /\ ~repointed => ChainFits(catalog, w)
        /\ edits = 0 => ChainExact(catalog, w)
        /\ \A i \in 1..Len(work) : Justified(work[i])
    BY <1>0 DEF PendingInv
  <1>2. \A i \in 1..Len(work) : work[i] \in Work
    BY <1>0, ElementOfSeq
  <1>3. UNCHANGED <<pending, chain, stage, blocked, catalog, repointed, edits>>
    BY DEF resolverVars, readinessVars
  <1>4. \A i \in 1..Len(work) : Justified(work[i])'
    BY <1>1, <1>2, <1>3, SameJustified
  <1>5. /\ ChainHeld(catalog, w)'
        /\ (~repointed => ChainFits(catalog, w))'
        /\ (edits = 0 => ChainExact(catalog, w))'
    BY <1>1, <1>3 DEF ChainHeld, ChainFits, ChainExact
  <1>6. pending' = work /\ Head(work) = w /\ stage' = "references" /\ blocked' = None
    BY <1>0, <1>1, <1>3
  <1>7. QED
    BY <1>1, <1>4, <1>5, <1>6 DEF PendingInv

(* What a stage that leaves catalog and resolution alone owes.             *)
LEMMA StageKeeps ==
  ASSUME BridgeInv, UNCHANGED <<readinessVars, pending, chain, partials, blocked>>,
         failed' \in BOOLEAN, failed => failed', pending = <<>> \/ UNCHANGED <<stage, failed>>,
         stage' \in {"request", "readiness", "references", "concluded", "threw"},
         StageInv', Resolving' => Resolving
  PROVE  BridgeInv'
  <1>1. UNCHANGED <<edits, repointed, catalog, asked>>
    BY DEF readinessVars, evaluation
  <1>2. WalkInv'
    BY WalkInvStutter DEF BridgeInv
  <1>3. PendingInv'
    <2>1. CASE pending = <<>>
      BY <2>1 DEF PendingInv
    <2>2. CASE UNCHANGED <<stage, failed>>
      BY <2>2, SamePending DEF BridgeInv, resolverVars
    <2>3. QED
      BY <2>1, <2>2
  <1>4. BlockedInv'
    BY <1>1 DEF BridgeInv, BlockedInv
  <1>5. Resolving' => \E stack : (Plan(stack) /\ Stands(partials, stack[0]))'
    <2>1. ASSUME Resolving' PROVE \E stack : Plan(stack) /\ Stands(partials, stack[0])
      BY <2>1 DEF BridgeInv
    <2>2. QED
      BY <2>1, SamePlan, SameStands
  <1>6. QED
    BY <1>1, <1>2, <1>3, <1>4, <1>5 DEF BridgeInv

LEMMA BridgeBegins == Init => BridgeInv
  <1> SUFFICES ASSUME Init PROVE BridgeInv
    OBVIOUS
  <1>1. WalkInv /\ edits = 0 /\ repointed = FALSE
    BY WalkInvInit DEF Init, ReadinessInit
  <1>2. /\ pending = <<>> /\ chain = NoChain /\ partials = <<>> /\ blocked = None
        /\ failed = FALSE /\ stage = "request" /\ verdict = None /\ command = None
    BY DEF Init, ResolverInit
  <1>3. NoChain \in ChainType
    BY DEF NoChain, ChainType, OptionalQuery, OptionalConnection
  <1>4. pending \in Seq(Work) /\ partials \in Seq(Bundle)
    BY <1>2
  <1>5. StageInv /\ PendingInv /\ BlockedInv /\ ~Resolving
    BY <1>2 DEF StageInv, PendingInv, BlockedInv, Resolving, Untouched
  <1>6. QED
    BY <1>1, <1>2, <1>3, <1>4, <1>5 DEF BridgeInv

LEMMA ReadRequestKeeps == BridgeInv /\ ReadRequest => BridgeInv'
  <1> SUFFICES ASSUME BridgeInv, ReadRequest PROVE BridgeInv'
    OBVIOUS
  <1>1. /\ UNCHANGED <<readinessVars, pending, chain, partials, blocked, failed, command>>
        /\ Untouched /\ command = None
    BY DEF ReadRequest, resolverVars, BridgeInv, StageInv
  <1>2. \/ stage' = "concluded" /\ verdict' = "execution_request_not_found"
        \/ stage' = "readiness" /\ verdict' = None
    BY DEF ReadRequest, Conclude, Become, BridgeInv, StageInv
  <1>3. StageInv' /\ ~Resolving'
    BY <1>1, <1>2 DEF StageInv, Resolving, Untouched
  <1>4. QED
    BY <1>1, <1>2, <1>3, StageKeeps DEF BridgeInv, Untouched

LEMMA EvaluateReadinessKeeps == BridgeInv /\ EvaluateReadiness => BridgeInv'
  <1> SUFFICES ASSUME BridgeInv, EvaluateReadiness PROVE BridgeInv'
    OBVIOUS
  <1>1. WalkInv /\ Evaluate /\ stage = "readiness" /\ UNCHANGED <<resolverVars, bridgeVars>>
    BY DEF BridgeInv, EvaluateReadiness
  <1>2. UNCHANGED <<edits, repointed>>
    BY <1>1, WalkStep DEF WalkInv, ReadinessTypeOK, Continue
  <1>3. WalkInv'
    BY <1>1, WalkInvEvaluate
  <1>4. /\ UNCHANGED <<pending, chain, partials, blocked, failed, stage, verdict, command>>
        /\ Untouched /\ command = None /\ verdict = None
    BY <1>1 DEF resolverVars, bridgeVars, BridgeInv, StageInv
  <1>5. StageInv' /\ PendingInv' /\ BlockedInv' /\ ~Resolving'
    BY <1>1, <1>4 DEF StageInv, PendingInv, BlockedInv, Resolving, Untouched
  <1>6. QED
    BY <1>2, <1>3, <1>4, <1>5 DEF BridgeInv

LEMMA FailReadKeeps == BridgeInv /\ FailRead => BridgeInv'
  <1> SUFFICES ASSUME BridgeInv, FailRead PROVE BridgeInv'
    OBVIOUS
  <1>1. /\ UNCHANGED <<readinessVars, pending, chain, partials, blocked, verdict, command>>
        /\ Untouched /\ command = None /\ verdict = None
        /\ stage' = "threw" /\ failed' = TRUE
    BY DEF FailRead, Become, BridgeInv, StageInv
  <1>2. StageInv' /\ ~Resolving'
    BY <1>1 DEF StageInv, Resolving, Untouched
  <1>3. QED
    BY <1>1, <1>2, StageKeeps DEF BridgeInv, Untouched

LEMMA BlockOnReferencesKeeps == BridgeInv /\ BlockOnReferences => BridgeInv'
  <1> SUFFICES ASSUME BridgeInv, BlockOnReferences PROVE BridgeInv'
    OBVIOUS
  <1>1. /\ UNCHANGED <<readinessVars, pending, chain, partials, blocked, failed, command>>
        /\ stage = "references" /\ blocked # None
        /\ stage' = "concluded" /\ verdict' = "references_blocked"
    BY DEF BlockOnReferences, resolverVars, Conclude, Become
  <1>2. pending = <<>> /\ command = None /\ todo = <<>> /\ blockers = {}
    BY <1>1 DEF BridgeInv, PendingInv, StageInv
  <1>3. StageInv' /\ ~Resolving'
    BY <1>1, <1>2 DEF StageInv, Resolving, Untouched, readinessVars, evaluation
  <1>4. QED
    BY <1>1, <1>2, <1>3, StageKeeps DEF BridgeInv

LEMMA StutterKeeps == BridgeInv /\ UNCHANGED vars => BridgeInv'
  <1> SUFFICES ASSUME BridgeInv, UNCHANGED vars PROVE BridgeInv'
    OBVIOUS
  <1>1. UNCHANGED <<readinessVars, resolverVars, bridgeVars>>
    BY DEF vars
  <1>2. UNCHANGED <<readinessVars, pending, chain, partials, blocked, failed, stage,
                    verdict, command, todo, blockers, asked>>
    BY <1>1 DEF resolverVars, bridgeVars, readinessVars, evaluation
  <1>3. StageInv' /\ (Resolving' => Resolving)
    <2>1. \A own, mode : BuildCommand(partials[1], own, mode)' = BuildCommand(partials[1], own, mode)
      BY <1>2 DEF BuildCommand
    <2>2. Untouched' <=> Untouched
      BY <1>2 DEF Untouched
    <2>3. Resolving' <=> Resolving
      BY <1>2 DEF Resolving
    <2>4. StageInv
      BY DEF BridgeInv
    <2>5. StageInv'
      BY <1>2, <2>1, <2>2, <2>4 DEF StageInv
    <2>6. QED
      BY <2>3, <2>5
  <1>4. QED
    BY <1>2, <1>3, StageKeeps DEF BridgeInv

(* The references of a definition that is ready are still to be resolved.  *)
LEMMA JudgeReadinessKeeps == BridgeInv /\ JudgeReadiness => BridgeInv'
  <1> SUFFICES ASSUME BridgeInv, JudgeReadiness PROVE BridgeInv'
    OBVIOUS
  <1>1. /\ UNCHANGED <<readinessVars, chain, partials, blocked, failed, command>>
        /\ Untouched /\ command = None /\ verdict = None /\ todo = <<>>
    BY DEF JudgeReadiness, BridgeInv, StageInv
  <1>2. UNCHANGED <<catalog, todo, blockers, asked, edits, repointed>>
    BY <1>1 DEF readinessVars, evaluation
  <1>3. CASE blockers # {}
    <2>1. /\ stage' = "concluded" /\ verdict' = "readiness_blocked" /\ UNCHANGED pending
      BY <1>3 DEF JudgeReadiness, Conclude, Become
    <2>2. StageInv' /\ ~Resolving'
      BY <1>1, <1>2, <1>3, <2>1 DEF StageInv, Resolving, Untouched
    <2>3. QED
      BY <1>1, <2>1, <2>2, StageKeeps DEF BridgeInv, Untouched
  <1>4. CASE blockers = {}
    <2>1. pending' = RootReads(asked) /\ stage' = "references" /\ verdict' = None
      BY <1>1, <1>4 DEF JudgeReadiness, Become
    <2>2. PICK d, work : d = asked /\ work = RootReads(asked)
      OBVIOUS
    <2>3. d \in Definitions /\ CatalogOK(catalog)
      BY <2>2 DEF BridgeInv, WalkInv, ReadinessTypeOK
    <2>4. ~repointed => Clear(catalog, {d})
      BY <1>1, <1>4, <2>2, <2>3, WalkInvMatches, ClearIsReady
      DEF BridgeInv, GrowthDoesNotMislead, Done
    <2>5. d \in Work /\ d \in Task /\ d.table \in {"query", "dashboard", "report"}
          /\ Subject(d)' = d
      BY <2>3, ReadTables DEF Work, Task
    <2>6. PartOf(d)'
      BY <1>2, <2>2 DEF PartOf
    <2>7. Justified(d)'
      BY <1>2, <2>4, <2>5, <2>6 DEF Justified, ChainTables
    <2>8. /\ work \in Seq(Work) /\ work # <<>> /\ Tail(work) \in Seq(Later)
          /\ Head(work).table \notin ChainTables
          /\ \A i \in 1..Len(work) : Justified(work[i])'
          /\ \E stack : /\ stack \in [0..Len(work) -> Seq(Definitions)]
                        /\ \A i \in 1..Len(work) : Advance(work[i], stack[i - 1], stack[i])'
                        /\ stack[0] = <<>> /\ stack[Len(work)] = <<d>>
      <3>1. CASE d.table = "query"
        <4> DEFINE look == Lookup(d.id)
        <4>1. /\ look.table = "lookup" /\ look.id = d.id /\ d.id \in QueryIds
              /\ d = Read("query", d.id)
          BY <2>3, <3>1 DEF Lookup, Definitions, Read
        <4>2. look \in Work /\ d \in Later /\ work = <<look, d>>
          BY <2>2, <3>1, <4>1 DEF Work, LookupReads, Later, QueryReads, RootReads
        <4>3. look \notin Definitions /\ look \notin Task
          BY <4>1 DEF Definitions, Task, Read
        <4> HIDE DEF look
        <4>4. Justified(look)'
          BY <1>2, <2>4, <4>1, <4>3 DEF Justified, ChainTables
        <4>5. /\ Len(work) = 2 /\ work[1] = look /\ work[2] = d
              /\ work \in Seq(Work) /\ work # <<>>
              /\ Head(work) = look /\ Tail(work) = <<d>> /\ Tail(work) \in Seq(Later)
          BY <2>5, <4>2
        <4>6. \A i \in 1..Len(work) : i = 1 \/ i = 2
          BY <4>5
        <4>7. PICK stack : stack = [i \in 0..2 |-> IF i = 2 THEN <<d>> ELSE <<>>]
          OBVIOUS
        <4>8. /\ stack \in [0..2 -> Seq(Definitions)]
              /\ stack[0] = <<>> /\ stack[1] = <<>> /\ stack[2] = <<d>>
          <5>1. <<d>> \in Seq(Definitions) /\ <<>> \in Seq(Definitions)
            BY <2>3
          <5>2. QED
            BY <4>7, <5>1
        <4>9. Advance(look, <<>>, <<>>)'
          BY <4>1 DEF Advance
        <4>10. Advance(d, <<>>, <<d>>)'
          <5>1. Append(<<>>, d) = <<d>>
            OBVIOUS
          <5>2. QED
            BY <2>5, <5>1 DEF Advance
        <4>11. \A i \in 1..Len(work) : Advance(work[i], stack[i - 1], stack[i])'
          BY <4>5, <4>6, <4>8, <4>9, <4>10
        <4>12. \A i \in 1..Len(work) : Justified(work[i])'
          BY <2>7, <4>4, <4>5, <4>6
        <4>13. Head(work).table \notin ChainTables
          BY <4>1, <4>5 DEF ChainTables
        <4>14. QED
          BY <4>5, <4>8, <4>11, <4>12, <4>13
      <3>2. CASE d.table # "query"
        <4>1. work = <<d>>
          BY <2>2, <3>2 DEF RootReads
        <4>2. /\ Len(work) = 1 /\ work[1] = d
              /\ work \in Seq(Work) /\ work # <<>>
              /\ Head(work) = d /\ Tail(work) = <<>> /\ Tail(work) \in Seq(Later)
          BY <2>5, <4>1
        <4>3. \A i \in 1..Len(work) : i = 1
          BY <4>2
        <4>4. PICK stack : stack = [i \in 0..1 |-> IF i = 1 THEN <<d>> ELSE <<>>]
          OBVIOUS
        <4>5. /\ stack \in [0..1 -> Seq(Definitions)]
              /\ stack[0] = <<>> /\ stack[1] = <<d>>
          <5>1. <<d>> \in Seq(Definitions) /\ <<>> \in Seq(Definitions)
            BY <2>3
          <5>2. QED
            BY <4>4, <5>1
        <4>6. Advance(d, <<>>, <<d>>)'
          <5>1. Append(<<>>, d) = <<d>>
            OBVIOUS
          <5>2. QED
            BY <2>5, <5>1 DEF Advance
        <4>7. \A i \in 1..Len(work) : Advance(work[i], stack[i - 1], stack[i])'
          BY <4>2, <4>3, <4>5, <4>6
        <4>8. \A i \in 1..Len(work) : Justified(work[i])'
          BY <2>7, <4>2, <4>3
        <4>9. Head(work).table \notin ChainTables
          BY <2>5, <4>2 DEF ChainTables
        <4>10. QED
          BY <4>2, <4>5, <4>7, <4>8, <4>9
      <3>3. QED
        BY <3>1, <3>2
    <2>9. pending' = work /\ asked' = d
      BY <1>2, <2>1, <2>2
    <2>10. \E stack : (Plan(stack) /\ Stands(partials, stack[0]))'
      <3>1. PICK stack : /\ stack \in [0..Len(work) -> Seq(Definitions)]
                         /\ \A i \in 1..Len(work) : Advance(work[i], stack[i - 1], stack[i])'
                         /\ stack[0] = <<>> /\ stack[Len(work)] = <<d>>
        BY <2>8
      <3>2. Plan(stack)'
        BY <2>9, <3>1 DEF Plan
      <3>3. partials' = <<>>
        BY <1>1 DEF Untouched
      <3>4. Stands(partials, stack[0])'
        BY <3>1, <3>3 DEF Stands
      <3>5. QED
        BY <3>2, <3>4
    <2>11. PendingInv'
      <3>1. /\ ChainHeld(catalog, Head(work))' /\ ChainFits(catalog, Head(work))'
            /\ ChainExact(catalog, Head(work))'
        BY <2>8 DEF ChainHeld, ChainFits, ChainExact, ChainTables
      <3>2. blocked' = None
        BY <1>1 DEF Untouched
      <3>3. QED
        BY <2>1, <2>8, <2>9, <3>1, <3>2 DEF PendingInv
    <2>12. StageInv' /\ BlockedInv'
      BY <1>1, <1>2, <1>4, <2>1 DEF StageInv, BlockedInv, Untouched
    <2>13. WalkInv'
      BY <1>1, WalkInvStutter DEF BridgeInv
    <2>14. QED
      BY <1>1, <1>2, <2>1, <2>8, <2>9, <2>10, <2>11, <2>12, <2>13 DEF BridgeInv
  <1>5. QED
    BY <1>3, <1>4

-------------------------------------------------------------------------------
(* A resolution that ends, and one that goes on.                           *)

LEMMA ClearHead ==
  ASSUME NEW cat, CatalogOK(cat), NEW t \in Task, Clear(cat, {t})
  PROVE  /\ Own(cat, t) \intersect BlockerCodes = {}
         /\ \A n \in Needs(cat, t) : n \in Task /\ Clear(cat, {n})
  <1>1. Own(cat, t) \intersect BlockerCodes = {} /\ Clear(cat, Needs(cat, t))
    <2>1. PICK none : none = {}
      OBVIOUS
    <2>2. none \in SUBSET Task /\ IsUnion({t}, {t}, none)
          /\ IsUnion(Needs(cat, t), Needs(cat, t), none)
      BY <2>1 DEF IsUnion
    <2>3. QED
      BY <2>2, FindsFrom
  <1>2. ASSUME NEW n \in Needs(cat, t) PROVE Clear(cat, {n})
    <2>1. \A A, B : A \subseteq B => NeedsOf(cat, A) \subseteq NeedsOf(cat, B)
      BY DEF NeedsOf
    <2>2. {n} \subseteq Needs(cat, t)
      OBVIOUS
    <2>3. Reached(cat, {n}) \subseteq Reached(cat, Needs(cat, t))
      BY <2>1, <2>2 DEF Reached
    <2>4. QED
      BY <1>1, <2>3 DEF Clear
  <1>3. Needs(cat, t) \subseteq Task
    BY NeedsAreLower DEF TasksOn
  <1>4. QED
    BY <1>1, <1>2, <1>3

(* What is ready is there, and refers to something.                        *)
LEMMA ClearFound ==
  ASSUME NEW cat, CatalogOK(cat), NEW t \in Task, Clear(cat, {t})
  PROVE  /\ t.table # "mapping" => Found(cat, t.table, t.id) # {}
         /\ t.table = "mapping" => FoundMappings(cat, t.id) # {}
         /\ t.table = "dashboard" =>
              \A row \in Found(cat, "dashboard", t.id) : WidgetReads(row.widgets) # <<>>
         /\ t.table = "report" =>
              \A row \in Found(cat, "report", t.id) : ReportReads(row) # <<>>
  <1>1. \A code \in BlockerCodes : code \notin Own(cat, t)
    BY ClearHead
  <1>2. \/ t.table \in {"query", "dataset", "mapping"}
        \/ t.table = "dashboard" /\ t.id \in DashboardIds
        \/ t.table = "report" /\ t.id \in ReportIds
    BY TaskTables
  <1>3. t.table # "mapping" => FoundAt(cat, t) # {}
    BY <1>1, <1>2, OwnCodes DEF BlockerCodes
  <1>4. t.table = "mapping" => FoundMappings(cat, t.id) # {}
    BY <1>1, OwnCodes DEF BlockerCodes
  <1>5. ASSUME t.table = "dashboard", NEW row \in Found(cat, "dashboard", t.id)
        PROVE  WidgetReads(row.widgets) # <<>>
    <2>1. row.widgets \in Widgets
      BY <1>2, <1>5, FoundRow
    <2>2. /\ row.widgets \in Seq(OptionalQuery)
          /\ WidgetReads(row.widgets) \in Seq(QueryReads)
          /\ Elements(WidgetReads(row.widgets)) =
               {Read("query", q) : q \in Elements(row.widgets) \ {None}}
      BY <2>1, WidgetReadsList
    <2>3. row \in FoundAt(cat, t)
      BY <1>5 DEF FoundAt
    <2>4. row.widgets # <<>>
      BY <1>1, <1>5, <2>3, OwnCodes DEF BlockerCodes
    <2>5. ~(Elements(row.widgets) \subseteq {None})
      BY <1>1, <1>5, <2>3, <2>4, OwnCodes DEF BlockerCodes
    <2>6. Elements(WidgetReads(row.widgets)) # {}
      BY <2>2, <2>5
    <2>7. QED
      BY <2>2, <2>6, ListElements
  <1>6. ASSUME t.table = "report", NEW row \in Found(cat, "report", t.id)
        PROVE  ReportReads(row) # <<>>
    <2>1. row \in ReportRow
      BY <1>2, <1>6, FoundRow DEF ReportRow
    <2>2. /\ ReportReads(row) \in Seq(QueryReads \union DashboardReads)
          /\ Elements(ReportReads(row)) =
               {Read("query", q) : q \in ReportQueries(row)} \union
               {Read("dashboard", b) : b \in ReportDashboards(row)}
      BY <2>1, ReportReadsList
    <2>3. row \in FoundAt(cat, t)
      BY <1>6 DEF FoundAt
    <2>4. ~(ReportQueries(row) = {} /\ ReportDashboards(row) = {})
      BY <1>1, <1>6, <2>3, OwnCodes DEF BlockerCodes
    <2>5. Elements(ReportReads(row)) # {}
      BY <2>2, <2>4
    <2>6. QED
      BY <2>2, <2>5, ListElements
  <1>7. QED
    BY <1>3, <1>4, <1>5, <1>6 DEF FoundAt

LEMMA ResolutionEnds ==
  ASSUME BridgeInv, UNCHANGED <<readinessVars, bridgeVars>>, pending # <<>>,
         NEW code \in ReferenceBlockers, Unresolved(code), failed' \in BOOLEAN,
         BlockedInv'
  PROVE  BridgeInv'
  <1>1. /\ stage = "references" /\ verdict = None /\ command = None /\ todo = <<>>
        /\ blockers = {}
    BY DEF BridgeInv, PendingInv, StageInv
  <1>2. UNCHANGED <<chain, partials, edits, repointed, todo, blockers, stage, verdict, command>>
        /\ pending' = <<>> /\ blocked' = code /\ blocked' # None
    BY CodesAssumption DEF Unresolved, readinessVars, bridgeVars, evaluation
  <1>3. WalkInv'
    BY WalkInvStutter DEF BridgeInv
  <1>4. StageInv' /\ PendingInv' /\ ~Resolving'
    BY <1>1, <1>2 DEF StageInv, PendingInv, Resolving
  <1>5. pending' \in Seq(Work)
    BY <1>2
  <1>6. QED
    BY <1>2, <1>3, <1>4, <1>5 DEF BridgeInv

LEMMA ResolutionGoesOn ==
  ASSUME BridgeInv, UNCHANGED <<readinessVars, bridgeVars, blocked, failed>>, pending # <<>>,
         pending' \in Seq(Work), chain' \in ChainType, partials' \in Seq(Bundle),
         PendingInv', \E next : (Plan(next) /\ Stands(partials, next[0]))'
  PROVE  BridgeInv'
  <1>1. /\ stage = "references" /\ verdict = None /\ command = None /\ todo = <<>>
        /\ blockers = {} /\ blocked = None
    BY DEF BridgeInv, PendingInv, StageInv
  <1>2. UNCHANGED <<edits, repointed, todo, blockers, stage, verdict, command>>
    BY DEF readinessVars, bridgeVars, evaluation
  <1>3. WalkInv'
    BY WalkInvStutter DEF BridgeInv
  <1>4. StageInv' /\ BlockedInv'
    BY <1>1, <1>2 DEF StageInv, BlockedInv
  <1>5. QED
    BY <1>1, <1>2, <1>3, <1>4 DEF BridgeInv

(* Nothing is found missing that was ready.                                *)
LEMMA MissingEnds ==
  ASSUME BridgeInv, UNCHANGED <<readinessVars, bridgeVars>>, pending # <<>>,
         NEW code \in ReferenceBlockers, NEW found, Nothing(code, found),
         ~repointed => found # {}
  PROVE  BridgeInv'
  <1>1. UNCHANGED <<edits, repointed>> /\ (edits = 0 => ~repointed)
    BY DEF readinessVars, BridgeInv
  <1>2. BlockedInv'
    BY <1>1 DEF Nothing, BlockedInv
  <1>3. QED
    BY <1>2, ResolutionEnds DEF Nothing

LEMMA HeadOfPending ==
  ASSUME BridgeInv, pending # <<>>, NEW w, w = Head(pending)
  PROVE  /\ w \in Work /\ Justified(w)
         /\ CatalogOK(catalog) /\ chain \in ChainType /\ partials \in Seq(Bundle)
         /\ failed \in BOOLEAN /\ (edits = 0 => ~repointed)
         /\ stage = "references" /\ blocked = None
         /\ ChainHeld(catalog, w) /\ (~repointed => ChainFits(catalog, w))
         /\ (edits = 0 => ChainExact(catalog, w))
         /\ pending \in Seq(Work) /\ Tail(pending) \in Seq(Later)
         /\ \A i \in 1..Len(pending) : pending[i] \in Work /\ Justified(pending[i])
         /\ \A i \in 2..Len(pending) : pending[i] \in Later
         /\ \E stack : Plan(stack) /\ Stands(partials, stack[0])
  <1>1. /\ pending \in Seq(Work) /\ Tail(pending) \in Seq(Later)
        /\ stage = "references" /\ blocked = None
        /\ ChainHeld(catalog, w) /\ (~repointed => ChainFits(catalog, w))
        /\ (edits = 0 => ChainExact(catalog, w))
        /\ \A i \in 1..Len(pending) : Justified(pending[i])
    BY DEF BridgeInv, PendingInv
  <1>2. w \in Work /\ w = pending[1] /\ 1 \in 1..Len(pending)
    BY <1>1, EmptySeq, LenProperties, HeadTailProperties
  <1>3. \A i \in 1..Len(pending) : pending[i] \in Work
    BY <1>1, ElementOfSeq
  <1>4. \A i \in 2..Len(pending) : pending[i] \in Later
    <2>1. /\ Len(Tail(pending)) = Len(pending) - 1 /\ Len(pending) \in Nat
          /\ \A i \in 1..Len(Tail(pending)) : Tail(pending)[i] = pending[i + 1]
      BY <1>1, HeadTailProperties, LenProperties
    <2>2. \A i \in 1..Len(Tail(pending)) : Tail(pending)[i] \in Later
      BY <1>1, ElementOfSeq
    <2>3. ASSUME NEW i \in 2..Len(pending) PROVE pending[i] \in Later
      <3>1. i - 1 \in 1..Len(Tail(pending)) /\ (i - 1) + 1 = i
        BY <2>1
      <3>2. QED
        BY <2>1, <2>2, <3>1
    <2>4. QED
      BY <2>3
  <1>5. Resolving
    BY <1>1 DEF Resolving
  <1>6. QED
    BY <1>1, <1>2, <1>3, <1>4, <1>5 DEF BridgeInv, WalkInv, ReadinessTypeOK

(* The head is done, and what follows it is no part of a chain.            *)
LEMMA PendingPops ==
  ASSUME BridgeInv, UNCHANGED <<readinessVars, bridgeVars, blocked>>, pending # <<>>,
         pending' = <<>> \o Tail(pending)
  PROVE  PendingInv' /\ pending' \in Seq(Work)
  <1>0. PICK rest : rest = Tail(pending)
    OBVIOUS
  <1>1. /\ pending' = rest /\ rest \in Seq(Work)
        /\ \A i \in 1..Len(rest) : i + 1 \in 2..Len(pending) /\ rest[i] = pending[i + 1]
        /\ rest # <<>> => Head(rest) \in Later /\ Tail(rest) \in Seq(Later)
    BY <1>0, HeadOfPending, RestOfPending
  <1>2. \A i \in 1..Len(rest) : Justified(rest[i])'
    <2>1. \A i \in 2..Len(pending) : Justified(pending[i]) /\ pending[i] \in Later
      BY HeadOfPending, LenProperties
    <2>2. \A i \in 1..Len(rest) : Justified(rest[i]) /\ rest[i] \in Later
      BY <1>1, <2>1
    <2>3. QED
      BY <2>2, LaterIsWork, SameJustified
  <1>3. ASSUME rest # <<>>
        PROVE  /\ ChainHeld(catalog, Head(rest))' /\ ChainFits(catalog, Head(rest))'
               /\ ChainExact(catalog, Head(rest))'
    <2>1. PICK w : w = Head(rest)
      OBVIOUS
    <2>2. w.table \notin ChainTables
      BY <1>1, <1>3, <2>1
      DEF Later, QueryReads, DashboardReads, Merges, Merge, Read, ChainTables
    <2>3. ChainHeld(catalog, w)' /\ ChainFits(catalog, w)' /\ ChainExact(catalog, w)'
      BY <2>2 DEF ChainHeld, ChainFits, ChainExact, ChainTables
    <2>4. QED
      BY <2>1, <2>3
  <1>4. stage' = "references" /\ blocked' = None
    BY HeadOfPending DEF bridgeVars
  <1>5. QED
    BY <1>1, <1>2, <1>3, <1>4 DEF PendingInv

(* The head is replaced by what is to be read next.                        *)
LEMMA PendingReplaced ==
  ASSUME BridgeInv, UNCHANGED <<readinessVars, bridgeVars, blocked, partials>>, pending # <<>>,
         NEW w \in Work, pending' = <<w>> \o Tail(pending),
         w.table \in ChainTables, Subject(w)' = Subject(Head(pending)),
         Head(pending).table \notin {"lookup", "merge"},
         (ChainHeld(catalog, w) /\ Justified(w))',
         (~repointed => ChainFits(catalog, w))', (edits = 0 => ChainExact(catalog, w))'
  PROVE  /\ PendingInv' /\ pending' \in Seq(Work)
         /\ \E next : (Plan(next) /\ Stands(partials, next[0]))'
  <1>0. PICK stack : Plan(stack) /\ Stands(partials, stack[0])
    BY HeadOfPending
  <1>1. UNCHANGED <<catalog, edits, asked>>
    BY DEF readinessVars, evaluation
  <1>2. stack[1] = Append(stack[0], Subject(w)')
    <2>1. Advance(Head(pending), stack[0], stack[1])
      BY <1>0, HeadOfPending, HeadAdvances
    <2>2. QED
      BY <2>1 DEF Advance
  <1>3. /\ \E next : Plan(next)' /\ next[0] = stack[0]
        /\ pending' \in Seq(Work) /\ pending' # <<>>
        /\ Head(pending') = w /\ Tail(pending') = Tail(pending)
        /\ \A i \in 1..Len(pending') :
              pending'[i] = w \/ \E k \in 2..Len(pending) : pending'[i] = pending[k]
    BY <1>0, <1>1, <1>2, HeadOfPending, ReplacePlan DEF ChainTables
  <1>4. \E next : (Plan(next) /\ Stands(partials, next[0]))'
    <2>1. PICK next : Plan(next)' /\ next[0] = stack[0]
      BY <1>3
    <2>2. PICK definitions : definitions = stack[0]
      OBVIOUS
    <2>3. Stands(partials, definitions)'
      BY <1>0, <2>2, SameStands
    <2>4. QED
      BY <2>1, <2>2, <2>3
  <1>5. PICK work : work = pending'
    OBVIOUS
  <1>6. \A i \in 1..Len(work) : Justified(work[i])'
    <2>1. \A k \in 2..Len(pending) : pending[k] \in Later /\ Justified(pending[k])
      BY HeadOfPending, LenProperties
    <2>2. \A i \in 1..Len(work) : work[i] = w \/ (work[i] \in Later /\ Justified(work[i]))
      <3>1. \A i \in 1..Len(work) :
              work[i] = w \/ \E k \in 2..Len(pending) : work[i] = pending[k]
        BY <1>3, <1>5
      <3>2. QED
        BY <2>1, <3>1, Zenon
    <2>3. QED
      BY <2>2, LaterIsWork, SameJustified
  <1>7. stage' = "references" /\ blocked' = None /\ Tail(work) \in Seq(Later)
    BY <1>3, <1>5, HeadOfPending DEF bridgeVars
  <1>8. PendingInv'
    BY <1>3, <1>5, <1>6, <1>7 DEF PendingInv
  <1>9. QED
    BY <1>3, <1>4, <1>8

-------------------------------------------------------------------------------
(* The reads of the resolution, one by one.                                *)

(* What the bundles stand for is not disturbed when the head just goes.    *)
LEMMA LookUpQueryKeeps ==
  ASSUME BridgeInv, UNCHANGED <<readinessVars, bridgeVars>>, LookUpQuery
  PROVE  BridgeInv'
  <1>1. pending # <<>> /\ Head(pending).table = "lookup"
    BY HeadOfPending, LookUpQueryStep DEF BridgeInv, Due
  <1>2. PICK w : w = Head(pending)
    OBVIOUS
  <1>3. /\ w \in Work /\ Justified(w) /\ CatalogOK(catalog) /\ failed \in BOOLEAN
        /\ w.table = "lookup" /\ chain \in ChainType /\ partials \in Seq(Bundle)
        /\ pending \in Seq(Work) /\ Tail(pending) \in Seq(Later)
    BY <1>1, <1>2, HeadOfPending
  <1>4. CASE Nothing("query_definition_missing", Found(catalog, "query", w.id))
    <2>1. Read("query", w.id) \in Task
      BY <1>3, WorkTables DEF Task, Definitions
    <2>2. ~repointed => Found(catalog, "query", w.id) # {}
      <3>1. ~repointed => Clear(catalog, {Read("query", w.id)})
        BY <1>3 DEF Justified
      <3>2. Read("query", w.id).table = "query" /\ Read("query", w.id).id = w.id
        BY DEF Read
      <3>3. QED
        BY <1>3, <2>1, <3>1, <3>2, ClearFound
    <2>3. "query_definition_missing" \in ReferenceBlockers
      BY DEF ReferenceBlockers
    <2>4. QED
      BY <1>1, <1>4, <2>2, <2>3, MissingEnds
  <1>5. CASE pending' = <<>> \o Tail(pending) /\ UNCHANGED <<chain, partials, blocked, failed>>
    <2>1. PendingInv' /\ pending' \in Seq(Work)
      BY <1>1, <1>5, PendingPops
    <2>2. PICK stack : Plan(stack) /\ Stands(partials, stack[0])
      BY <1>1, HeadOfPending
    <2>3. stack[1] = stack[0]
      BY <1>1, <1>3, <2>2, HeadAdvances DEF Advance
    <2>4. PICK next : Plan(next)' /\ next[0] = stack[1]
      <3>1. UNCHANGED <<catalog, edits, asked>>
        BY DEF readinessVars, evaluation
      <3>2. QED
        BY <1>1, <1>3, <1>5, <2>2, <3>1, PopPlan
    <2>5. PICK definitions : definitions = stack[0]
      OBVIOUS
    <2>6. Stands(partials, definitions)'
      BY <1>5, <2>2, <2>5, SameStands
    <2>7. \E to : (Plan(to) /\ Stands(partials, to[0]))'
      BY <2>3, <2>4, <2>5, <2>6
    <2>8. QED
      BY <1>1, <1>3, <1>5, <2>1, <2>7, ResolutionGoesOn
  <1>6. QED
    BY <1>2, <1>3, <1>4, <1>5, LookUpQueryStep

LEMMA ResolveQueryKeeps ==
  ASSUME BridgeInv, UNCHANGED <<readinessVars, bridgeVars>>, ResolveQuery
  PROVE  BridgeInv'
  <1>1. pending # <<>> /\ Head(pending).table = "query"
    BY HeadOfPending, ResolveQueryStep DEF BridgeInv, Due
  <1>2. PICK w : w = Head(pending)
    OBVIOUS
  <1>3. /\ w \in Work /\ Justified(w) /\ CatalogOK(catalog) /\ failed \in BOOLEAN
        /\ w.table = "query" /\ partials \in Seq(Bundle)
        /\ (edits = 0 => ~repointed)
    BY <1>1, <1>2, HeadOfPending
  <1>4. /\ w.id \in QueryIds /\ w = Read("query", w.id) /\ w \in Task /\ w \in Definitions
        /\ Subject(w) = w
    BY <1>3, WorkTables, ReadTables DEF Definitions, Read, Task
  <1>5. ~repointed => Clear(catalog, {w})
    BY <1>3, <1>4 DEF Justified
  <1>6. CASE Nothing("query_definition_missing", Found(catalog, "query", w.id))
    <2>1. ~repointed => Found(catalog, "query", w.id) # {}
      BY <1>3, <1>4, <1>5, ClearFound
    <2>2. "query_definition_missing" \in ReferenceBlockers
      BY DEF ReferenceBlockers
    <2>3. QED
      BY <1>1, <1>6, <2>1, <2>2, MissingEnds
  <1>7. ASSUME NEW row \in Found(catalog, "query", w.id),
               chain' = [NoChain EXCEPT !.query = w.id],
               pending' = <<Read("dataset", row.dataset)>> \o Tail(pending),
               UNCHANGED <<partials, blocked, failed>>
        PROVE  BridgeInv'
    <2>1. PICK next : next = Read("dataset", row.dataset)
      OBVIOUS
    <2>2. row = catalog.query[w.id] /\ row.dataset \in DatasetIds
      BY <1>3, <1>4, <1>7, FoundRow
    <2>3. /\ next \in Work /\ next \in Task /\ next.table = "dataset" /\ next.id = row.dataset
          /\ next \notin Definitions
      BY <2>1, <2>2 DEF Work, Task, Read, Definitions
    <2>4. chain'.query = w.id /\ chain' \in ChainType
      <3>1. chain' = [NoChain EXCEPT !.query = w.id]
        BY <1>7, Zenon
      <3>2. chain' = [query |-> w.id, dataset |-> None, connection |-> None, mappings |-> <<>>]
        BY <3>1 DEF NoChain
      <3>3. <<>> \in Seq(MappingIds)
        OBVIOUS
      <3>4. QED
        BY <1>4, <3>2, <3>3 DEF ChainType, OptionalQuery, OptionalConnection
    <2>5. UNCHANGED <<catalog, asked, edits, repointed>>
      BY DEF readinessVars, evaluation
    <2>6. Subject(next)' = Subject(w)
      BY <1>4, <2>3, <2>4 DEF Subject, ChainTables
    <2>7. ChainHeld(catalog, next)'
      <3>1. Held(catalog, "query", w.id)
        BY <1>7, HeldRow
      <3>2. QED
        BY <1>4, <2>3, <2>4, <2>5, <3>1 DEF ChainHeld
    <2>8. ChainFits(catalog, next)' /\ ChainExact(catalog, next)'
      BY <2>2, <2>3, <2>4, <2>5 DEF ChainFits, ChainExact
    <2>9. Justified(next)'
      <3>1. PartOf(w)
        BY <1>3, <1>4 DEF Justified
      <3>2. PartOf(w)'
        BY <2>5, <3>1 DEF PartOf
      <3>3. ~repointed => Clear(catalog, {next})
        <4>1. next \in Needs(catalog, w)
          BY <1>3, <1>7, <2>1 DEF Needs, FoundAt
        <4>2. QED
          BY <1>3, <1>4, <1>5, <4>1, ClearHead
      <3>4. QED
        BY <1>4, <2>3, <2>4, <2>5, <3>2, <3>3 DEF Justified, ChainTables
    <2>10. /\ PendingInv' /\ pending' \in Seq(Work)
           /\ \E to : (Plan(to) /\ Stands(partials, to[0]))'
      BY <1>1, <1>2, <1>7, <2>1, <2>3, <2>6, <2>7, <2>8, <2>9, PendingReplaced DEF ChainTables
    <2>11. QED
      BY <1>1, <1>3, <1>7, <2>4, <2>10, ResolutionGoesOn
  <1>8. QED
    BY <1>2, <1>3, <1>6, <1>7, ResolveQueryStep

LEMMA ResolveDatasetKeeps ==
  ASSUME BridgeInv, UNCHANGED <<readinessVars, bridgeVars>>, ResolveDataset
  PROVE  BridgeInv'
  <1>1. pending # <<>> /\ Head(pending).table = "dataset"
    BY HeadOfPending, ResolveDatasetStep DEF BridgeInv, Due
  <1>2. PICK w : w = Head(pending)
    OBVIOUS
  <1>3. /\ w \in Work /\ Justified(w) /\ CatalogOK(catalog) /\ failed \in BOOLEAN
        /\ w.table = "dataset" /\ chain \in ChainType /\ partials \in Seq(Bundle)
        /\ ChainHeld(catalog, w) /\ (~repointed => ChainFits(catalog, w))
        /\ (edits = 0 => ~repointed)
    BY <1>1, <1>2, HeadOfPending
  <1>4. w.id \in DatasetIds /\ w \in Task /\ Subject(w) = Read("query", chain.query)
    BY <1>3, WorkTables DEF Subject, ChainTables
  <1>5. ~repointed => Clear(catalog, {w})
    BY <1>3, <1>4 DEF Justified
  <1>6. CASE Nothing("dataset_missing", Found(catalog, "dataset", w.id))
    <2>1. ~repointed => Found(catalog, "dataset", w.id) # {}
      BY <1>3, <1>4, <1>5, ClearFound
    <2>2. "dataset_missing" \in ReferenceBlockers
      BY DEF ReferenceBlockers
    <2>3. QED
      BY <1>1, <1>6, <2>1, <2>2, MissingEnds
  <1>7. ASSUME NEW row \in Found(catalog, "dataset", w.id), TakeDataset(row)
        PROVE  BridgeInv'
    <2>1. PICK next : next = Read("mapping", row.key)
      OBVIOUS
    <2>2. row = catalog.dataset[w.id] /\ row.key \in Keys /\ row.connection \in OptionalConnection
      BY <1>3, <1>4, <1>7, FoundRow
    <2>3. /\ next \in Work /\ next \in Task /\ next.table = "mapping" /\ next.id = row.key
          /\ next \notin Definitions
      BY <2>1, <2>2 DEF Work, Task, Read, Definitions
    <2>4. /\ chain'.query = chain.query /\ chain'.dataset = w.id
          /\ chain'.connection = row.connection /\ chain' \in ChainType
          /\ pending' = <<next>> \o Tail(pending)
          /\ UNCHANGED <<partials, blocked, failed>>
      BY <1>2, <1>3, <1>4, <1>7, <2>1, <2>2 DEF TakeDataset, ChainType
    <2>5. UNCHANGED <<catalog, asked, edits, repointed>>
      BY DEF readinessVars, evaluation
    <2>6. Subject(next)' = Subject(w)
      BY <1>4, <2>3, <2>4 DEF Subject, ChainTables
    <2>7. ChainHeld(catalog, next)'
      <3>1. Held(catalog, "dataset", w.id)
        BY <1>7, HeldRow
      <3>2. Held(catalog, "query", chain.query) /\ chain.query \in QueryIds
        BY <1>3 DEF ChainHeld, ChainTables
      <3>3. QED
        BY <1>4, <2>3, <2>4, <2>5, <3>1, <3>2 DEF ChainHeld
    <2>8. (~repointed => ChainFits(catalog, next))' /\ ChainExact(catalog, next)'
      <3>1. ~repointed => catalog.query[chain.query].dataset = w.id
        BY <1>3 DEF ChainFits
      <3>2. QED
        BY <2>2, <2>3, <2>4, <2>5, <3>1 DEF ChainFits, ChainExact
    <2>9. Justified(next)'
      <3>1. PartOf(Read("query", chain.query))
        BY <1>3 DEF Justified, ChainTables
      <3>2. PartOf(Read("query", chain.query))'
        BY <2>4, <2>5, <3>1 DEF PartOf
      <3>3. ~repointed => Clear(catalog, {next})
        <4>1. next \in Needs(catalog, w)
          BY <1>3, <1>7, <2>1 DEF Needs, FoundAt
        <4>2. QED
          BY <1>3, <1>4, <1>5, <4>1, ClearHead
      <3>4. QED
        BY <1>4, <2>3, <2>4, <2>5, <3>2, <3>3 DEF Justified, ChainTables
    <2>10. /\ PendingInv' /\ pending' \in Seq(Work)
           /\ \E to : (Plan(to) /\ Stands(partials, to[0]))'
      BY <1>1, <1>2, <1>3, <2>3, <2>4, <2>6, <2>7, <2>8, <2>9, PendingReplaced DEF ChainTables
    <2>11. QED
      BY <1>1, <1>3, <2>4, <2>10, ResolutionGoesOn
  <1>8. QED
    BY <1>2, <1>3, <1>6, <1>7, ResolveDatasetStep

(* The mappings of a key, newest first.                                    *)
LEMMA MappingList ==
  ASSUME NEW cat, NEW key, FoundMappings(cat, key) # {},
         NEW list, list = NewestFirst(FoundMappings(cat, key))
  PROVE  /\ list \in Seq(MappingIds) /\ list # <<>>
         /\ Elements(list) = FoundMappings(cat, key)
         /\ IsInjective(list)
         /\ \A i, k \in DOMAIN list : i < k => list[i] > list[k]
         /\ DOMAIN list \subseteq Nat
  <1> DEFINE ids == FoundMappings(cat, key)
             n == Cardinality(ids)
  <1>1. ids \in SUBSET Nat /\ IsFiniteSet(ids) /\ ids \subseteq MappingIds /\ ids # {}
    BY MappingsOfKey
  <1> HIDE DEF ids
  <1>2. list = Newest(ids)
    BY DEF NewestFirst, Newest, Newer, ids
  <1>3. /\ n \in Nat /\ list \in Bijection(1..n, ids)
        /\ \A i, k \in 1..n : i < k => list[i] > list[k]
    BY <1>1, <1>2, NewestList
  <1>4. /\ DOMAIN list = 1..n /\ \A i \in 1..n : list[i] \in ids
        /\ \A m \in ids : \E i \in 1..n : list[i] = m
        /\ \A i, k \in 1..n : list[i] = list[k] => i = k
    <2>1. list \in [1..n -> ids] /\ IsInjective(list)
      BY <1>3 DEF Bijection, Injection
    <2>2. \A m \in ids : \E i \in 1..n : list[i] = m
      BY <1>3 DEF Bijection, Surjection
    <2>3. QED
      BY <2>1, <2>2 DEF IsInjective
  <1> HIDE DEF n
  <1>5. list \in [1..n -> ids]
    BY <1>3 DEF Bijection, Injection
  <1>6. list \in Seq(MappingIds)
    <2>1. n \in Nat /\ list \in [1..n -> MappingIds]
      BY <1>1, <1>3, <1>5
    <2>2. Seq(MappingIds) = UNION {[1..k -> MappingIds] : k \in Nat}
      BY SeqDef
    <2>3. QED
      BY <2>1, <2>2
  <1>7. Elements(list) = ids
    BY <1>4 DEF Elements
  <1>8. list # <<>>
    BY <1>1, <1>6, <1>7, ListElements
  <1>9. QED
    BY <1>3, <1>4, <1>6, <1>7, <1>8 DEF IsInjective, ids

(* The connection of a chain is the one that its dataset comes to.         *)
LEMMA ConnectionOfChain ==
  ASSUME NEW cat, CatalogOK(cat), NEW key, FoundMappings(cat, key) # {},
         NEW list, list = NewestFirst(FoundMappings(cat, key)),
         NEW own \in OptionalConnection, NEW connection, connection = ConnectionOf(cat, own, list)
  PROVE  /\ connection \in OptionalConnection
         /\ own # None => connection = own
         /\ own = None /\ connection # None =>
              \E m \in FoundMappings(cat, key) : connection = cat.mapping[m].connection
         /\ \A d : cat.dataset[d].key = key /\ cat.dataset[d].connection = own =>
              SourceOf(cat, d) = connection
  <1> DEFINE page == FoundMappings(cat, key)
             offers == {m \in page : cat.mapping[m].connection # None}
             places == {i \in DOMAIN list : cat.mapping[list[i]].connection # None}
  <1>1. /\ page \in SUBSET Nat /\ IsFiniteSet(page) /\ page \subseteq MappingIds
        /\ page \subseteq Matching(cat, key)
    BY MappingsOfKey
  <1>2. /\ Elements(list) = page /\ DOMAIN list \subseteq Nat
        /\ \A i, k \in DOMAIN list : i < k => list[i] > list[k]
    BY MappingList
  <1>3. \A m \in page : cat.mapping[m].connection \in OptionalConnection
    <2>1. ASSUME NEW m \in page PROVE cat.mapping[m].connection \in OptionalConnection
      <3>1. PICK row \in Found(cat, "mapping", m) : TRUE
        BY <1>1 DEF Matching
      <3>2. row = cat.mapping[m] /\ row.connection \in OptionalConnection
        BY <1>1, <3>1, FoundRow
      <3>3. QED
        BY <3>2
    <2>2. QED
      BY <2>1
  <1>4. offers \in SUBSET Nat /\ IsFiniteSet(offers)
    BY <1>1, FS_Subset
  <1>5. \A d : cat.dataset[d].key = key /\ cat.dataset[d].connection = own =>
          SourceOf(cat, d) =
            IF own # None THEN own
            ELSE IF offers = {} THEN None
            ELSE cat.mapping[CHOOSE m \in offers : \A n \in offers : m >= n].connection
    BY DEF SourceOf
  <1>6. connection = IF own # None THEN own
                     ELSE IF places = {} THEN None ELSE cat.mapping[list[Min(places)]].connection
    BY DEF ConnectionOf
  <1>7. places = {} <=> offers = {}
    BY <1>2 DEF Elements
  <1>8. ASSUME offers # {}
        PROVE  /\ list[Min(places)] = CHOOSE m \in offers : \A n \in offers : m >= n
               /\ list[Min(places)] \in offers
    <2> HIDE DEF page
    <2>1. PICK top \in offers : \A m \in offers : m <= top
      BY <1>4, <1>8, GreatestMember
    <2>2. PICK i \in DOMAIN list : list[i] = top
      BY <1>2, <2>1 DEF Elements
    <2>3. i \in places /\ \A k \in places : k \in Nat /\ list[k] \in offers
      BY <1>2, <2>1, <2>2 DEF Elements
    <2>4. ASSUME NEW k \in places PROVE i <= k
      <3>1. i \in Nat /\ k \in Nat /\ list[k] \in Nat /\ list[i] \in Nat /\ list[k] <= list[i]
        BY <1>4, <2>1, <2>2, <2>3
      <3>2. k < i => list[k] > list[i]
        BY <1>2, <2>3
      <3>3. QED
        BY <3>1, <3>2
    <2> HIDE DEF offers, places
    <2>5. Min(places) = i
      <3>1. \A x \in places : (\A y \in places : x <= y) => x = i
        BY <2>3, <2>4
      <3>2. QED
        BY <2>3, <2>4, <3>1 DEF Min
    <2>6. top = CHOOSE m \in offers : \A n \in offers : m >= n
      <3>1. \A m \in offers : top >= m
        BY <1>4, <2>1
      <3>2. \A m \in offers : (\A n \in offers : m >= n) => m = top
        BY <1>4, <2>1
      <3>3. QED
        BY <3>1, <3>2
    <2>7. QED
      BY <2>1, <2>2, <2>5, <2>6
  <1>9. own = None /\ connection # None => \E m \in page : connection = cat.mapping[m].connection
    BY <1>6, <1>7, <1>8
  <1>10. connection \in OptionalConnection
    <2>1. None \in OptionalConnection
      BY DEF OptionalConnection
    <2>2. CASE own # None \/ connection = None
      BY <1>6, <2>1, <2>2
    <2>3. CASE own = None /\ connection # None
      BY <1>3, <1>9, <2>3
    <2>4. QED
      BY <2>2, <2>3
  <1>11. \A d : cat.dataset[d].key = key /\ cat.dataset[d].connection = own =>
           SourceOf(cat, d) = connection
    <2> HIDE DEF offers, places
    <2>1. CASE own # None \/ offers = {}
      BY <1>5, <1>6, <1>7, <2>1
    <2>2. CASE own = None /\ offers # {}
      BY <1>5, <1>6, <1>7, <1>8, <2>2
    <2>3. QED
      BY <2>1, <2>2
  <1>12. own # None => connection = own
    BY <1>6
  <1>13. QED
    BY <1>9, <1>10, <1>11, <1>12

LEMMA SourceOfQuery ==
  ASSUME NEW cat, NEW d, NEW q \in ReachedQueries(cat, d), Held(cat, "query", q)
  PROVE  SourceOf(cat, cat.query[q].dataset) \in Sources(cat, d)
  <1>1. cat.query[q] \in Here(cat, "query", ReachedQueries(cat, d))
    BY HereFound, HeldRow
  <1>2. QED
    BY <1>1 DEF Sources

(* A resolution that ends for want of one usable source.                   *)
LEMMA SourceEnds ==
  ASSUME BridgeInv, UNCHANGED <<readinessVars, bridgeVars>>, pending # <<>>,
         NEW code \in SourceCodes, Unresolved(code), UNCHANGED failed,
         edits = 0 => code \in SourceProblems(catalog, asked)
  PROVE  BridgeInv'
  <1>1. code \in ReferenceBlockers
    BY DEF SourceCodes, ReferenceBlockers
  <1>2. UNCHANGED <<catalog, asked, edits, repointed>> /\ blocked' = code
    BY DEF readinessVars, evaluation, Unresolved
  <1>3. failed' \in BOOLEAN
    BY DEF BridgeInv
  <1>4. BlockedInv'
    BY <1>2 DEF BlockedInv
  <1>5. QED
    BY <1>1, <1>3, <1>4, ResolutionEnds

(* Left alone, the source of the query under way is one of the sources.    *)
LEMMA ChainSource ==
  ASSUME chain.query \in QueryIds, Held(catalog, "query", chain.query),
         PartOf(Read("query", chain.query)), edits = 0
  PROVE  /\ SourceOf(catalog, catalog.query[chain.query].dataset) \in Sources(catalog, asked)
         /\ chain.query \in ReachedQueries(catalog, asked)
  <1>1. chain.query \in ReachedQueries(catalog, Read("query", chain.query))
    BY ReachedByQuery
  <1>2. chain.query \in ReachedQueries(catalog, asked)
    BY <1>1 DEF PartOf
  <1>3. QED
    BY <1>2, SourceOfQuery

LEMMA ResolveMappingsKeeps ==
  ASSUME BridgeInv, UNCHANGED <<readinessVars, bridgeVars>>, ResolveMappings
  PROVE  BridgeInv'
  <1>1. pending # <<>> /\ Head(pending).table = "mapping"
    BY HeadOfPending, ResolveMappingsStep DEF BridgeInv, Due
  <1>2. PICK w : w = Head(pending)
    OBVIOUS
  <1>3. /\ w \in Work /\ Justified(w) /\ CatalogOK(catalog) /\ failed \in BOOLEAN
        /\ w.table = "mapping" /\ chain \in ChainType /\ partials \in Seq(Bundle)
        /\ ChainHeld(catalog, w) /\ (~repointed => ChainFits(catalog, w))
        /\ (edits = 0 => ~repointed)
    BY <1>1, <1>2, HeadOfPending
  <1>4. w.id \in Keys /\ w \in Task /\ Subject(w) = Read("query", chain.query)
    BY <1>3, WorkTables DEF Subject, ChainTables
  <1>5. ~repointed => Clear(catalog, {w})
    BY <1>3, <1>4 DEF Justified
  <1>6. /\ chain.query \in QueryIds /\ Held(catalog, "query", chain.query)
        /\ chain.dataset \in DatasetIds /\ Held(catalog, "dataset", chain.dataset)
        /\ PartOf(Read("query", chain.query))
    BY <1>3 DEF ChainHeld, ChainTables, Justified
  <1>7. ~repointed => /\ catalog.query[chain.query].dataset = chain.dataset
                      /\ catalog.dataset[chain.dataset].key = w.id
                      /\ catalog.dataset[chain.dataset].connection = chain.connection
    BY <1>3 DEF ChainFits
  <1>8. CASE Nothing("field_mappings_missing", FoundMappings(catalog, w.id))
    <2>1. ~repointed => FoundMappings(catalog, w.id) # {}
      BY <1>3, <1>4, <1>5, ClearFound
    <2>2. "field_mappings_missing" \in ReferenceBlockers
      BY DEF ReferenceBlockers
    <2>3. QED
      BY <1>1, <1>8, <2>1, <2>2, MissingEnds
  <1>9. ASSUME FoundMappings(catalog, w.id) # {},
               NEW list, list = NewestFirst(FoundMappings(catalog, w.id)),
               NEW connection, connection = ConnectionOf(catalog, chain.connection, list),
               TakeMappings(list, connection)
        PROVE  BridgeInv'
    <2>1. chain.connection \in OptionalConnection
      BY <1>3 DEF ChainType
    <2>2. /\ list \in Seq(MappingIds) /\ list # <<>>
          /\ Elements(list) = FoundMappings(catalog, w.id) /\ IsInjective(list)
      BY <1>9, MappingList
    <2>3. /\ connection \in OptionalConnection
          /\ chain.connection # None => connection = chain.connection
          /\ chain.connection = None /\ connection # None =>
               \E m \in FoundMappings(catalog, w.id) : connection = catalog.mapping[m].connection
      BY <1>3, <1>9, <2>1, ConnectionOfChain
    <2>4. ~repointed => SourceOf(catalog, chain.dataset) = connection
      BY <1>3, <1>7, <1>9, <2>1, ConnectionOfChain
    <2>5. UNCHANGED <<catalog, asked, edits, repointed>>
      BY DEF readinessVars, evaluation
    <2>6. CASE connection = None
      <3>1. Unresolved("connection_missing") /\ UNCHANGED failed
        BY <1>9, <2>6 DEF TakeMappings
      <3>2. "connection_missing" \in SourceCodes
        BY DEF SourceCodes
      <3>3. edits = 0 => "connection_missing" \in SourceProblems(catalog, asked)
        <4>1. edits = 0 => None \in Sources(catalog, asked)
          BY <1>3, <1>6, <1>7, <2>4, <2>6, ChainSource
        <4>2. QED
          BY <4>1 DEF SourceProblems, Code
      <3>4. QED
        BY <1>1, <3>1, <3>2, <3>3, SourceEnds
    <2>7. CASE connection # None
      <3>1. PICK next : next = Read("connection", connection)
        OBVIOUS
      <3>2. connection \in ConnectionIds
        BY <2>3, <2>7 DEF OptionalConnection
      <3>3. /\ next \in Work /\ next.table = "connection" /\ next.id = connection
            /\ next \notin Definitions /\ next \notin Task
        BY <3>1, <3>2 DEF Work, ConnectionReads, Task, Read, Definitions
      <3>4. /\ chain'.query = chain.query /\ chain'.dataset = chain.dataset
            /\ chain'.connection = connection /\ chain'.mappings = list
            /\ chain' \in ChainType
            /\ pending' = <<next>> \o Tail(pending)
            /\ UNCHANGED <<partials, blocked, failed>>
        BY <1>3, <1>9, <2>2, <2>3, <2>7, <3>1 DEF TakeMappings, ChainType
      <3>5. Subject(next)' = Subject(w)
        BY <1>4, <3>3, <3>4 DEF Subject, ChainTables
      <3>6. \A m \in FoundMappings(catalog, w.id) :
              /\ m \in MappingIds /\ Held(catalog, "mapping", m)
              /\ Found(catalog, "mapping", m) # {}
              /\ catalog.mapping[m].key = w.id
        <4>1. ASSUME NEW m \in FoundMappings(catalog, w.id)
              PROVE  /\ m \in MappingIds /\ Held(catalog, "mapping", m)
                     /\ Found(catalog, "mapping", m) # {}
                     /\ catalog.mapping[m].key = w.id
          <5>1. m \in Matching(catalog, w.id)
            BY MappingsOfKey
          <5>2. m \in MappingIds /\ \E row \in Found(catalog, "mapping", m) : row.key = w.id
            BY <5>1 DEF Matching
          <5>3. QED
            BY <5>2, HeldRow
        <4>2. QED
          BY <4>1
      <3>7. ChainHeld(catalog, next)'
        BY <1>6, <2>2, <2>5, <3>3, <3>4, <3>6 DEF ChainHeld
      <3>8. (~repointed => ChainFits(catalog, next))'
        <4> SUFFICES ASSUME ~repointed' PROVE ChainFits(catalog, next)'
          OBVIOUS
        <4>1. ~repointed
          BY <2>5
        <4>2. connection \in OffersOf(catalog, catalog.dataset[chain.dataset])
          <5>1. CASE chain.connection # None
            BY <1>7, <2>3, <4>1, <5>1 DEF OffersOf
          <5>2. CASE chain.connection = None
            <6>1. PICK m \in FoundMappings(catalog, w.id) :
                    connection = catalog.mapping[m].connection
              BY <2>3, <2>7, <5>2
            <6>2. /\ m \in MappingIds /\ Found(catalog, "mapping", m) # {}
                  /\ catalog.mapping[m].key = catalog.dataset[chain.dataset].key
                  /\ catalog.dataset[chain.dataset].connection = None
              BY <1>7, <3>6, <4>1, <5>2
            <6>3. QED
              BY <6>1, <6>2 DEF OffersOf
          <5>3. QED
            BY <5>1, <5>2
        <4>3. \A m \in Elements(list) :
                catalog.mapping[m].key = catalog.dataset[chain.dataset].key
          BY <1>7, <2>2, <3>6, <4>1
        <4>4. QED
          BY <1>7, <2>5, <3>3, <3>4, <4>1, <4>2, <4>3 DEF ChainFits
      <3>9. (edits = 0 => ChainExact(catalog, next))'
        BY <1>3, <1>7, <2>2, <2>4, <2>5, <3>3, <3>4 DEF ChainExact
      <3>10. Justified(next)'
        <4>1. PartOf(Read("query", chain.query))'
          BY <1>6, <2>5, <3>4 DEF PartOf
        <4>2. QED
          BY <3>3, <3>4, <4>1 DEF Justified
      <3>11. /\ PendingInv' /\ pending' \in Seq(Work)
             /\ \E to : (Plan(to) /\ Stands(partials, to[0]))'
        BY <1>1, <1>2, <1>3, <3>3, <3>4, <3>5, <3>7, <3>8, <3>9, <3>10, PendingReplaced
        DEF ChainTables
      <3>12. QED
        BY <1>1, <1>3, <3>4, <3>11, ResolutionGoesOn
    <2>8. QED
      BY <2>6, <2>7
  <1>10. QED
    BY <1>2, <1>3, <1>8, <1>9, ResolveMappingsStep

(* A bundle more on the stack.                                             *)
LEMMA StandsGrows ==
  ASSUME UNCHANGED readinessVars,
         NEW bundles \in Seq(Bundle), NEW definitions \in Seq(Definitions),
         Stands(bundles, definitions),
         NEW b \in Bundle, NEW d \in Definitions, Describes(b, d),
         partials' = Append(bundles, b)
  PROVE  Stands(partials, Append(definitions, d))' /\ partials' \in Seq(Bundle)
  <1>0. PICK after, goal : after = Append(bundles, b) /\ goal = Append(definitions, d)
    OBVIOUS
  <1>1. PICK n : n = Len(bundles)
    OBVIOUS
  <1>2. n \in Nat /\ Len(definitions) = n
    BY <1>1, LenProperties DEF Stands
  <1>3. /\ after \in Seq(Bundle) /\ Len(after) = n + 1
        /\ \A i \in 1..n : after[i] = bundles[i]
        /\ after[n + 1] = b
    BY <1>0, <1>1, AppendProperties
  <1>4. /\ Len(goal) = n + 1
        /\ \A i \in 1..n : goal[i] = definitions[i]
        /\ goal[n + 1] = d
    BY <1>0, <1>2, AppendProperties
  <1>5. \A i \in 1..(n + 1) : i \in 1..n \/ i = n + 1
    BY <1>2
  <1>6. \A i \in 1..n : Describes(bundles[i], definitions[i])
    BY <1>1 DEF Stands
  <1>7. \A i \in 1..(n + 1) : Describes(after[i], goal[i])
    BY <1>3, <1>4, <1>5, <1>6
  <1>8. \A i \in 1..(n + 1) : Describes(after[i], goal[i])'
    BY <1>7, SameDescribes
  <1>9. Stands(after, goal)'
    BY <1>3, <1>4, <1>8 DEF Stands
  <1>10. QED
    BY <1>0, <1>3, <1>9

LEMMA OneElement ==
  ASSUME NEW x
  PROVE  /\ Elements(<<x>>) = {x} /\ <<x>>[1] = x /\ <<x>> # <<>> /\ IsInjective(<<x>>)
         /\ Elements(<<>>) = {}
  BY DEF Elements, IsInjective

(* What the chain of a query comes to.                                     *)
LEMMA ChainDescribes ==
  ASSUME CatalogOK(catalog), chain \in ChainType, edits = 0 => ~repointed,
         NEW w, w.table = "connection", w.id \in ConnectionIds,
         ChainHeld(catalog, w), ~repointed => ChainFits(catalog, w),
         edits = 0 => ChainExact(catalog, w),
         NEW row \in Found(catalog, "connection", w.id), ~row.protected
  PROVE  ChainBundle \in Bundle /\ Describes(ChainBundle, Read("query", chain.query))
  <1>1. PICK q, s, c, list : /\ q = chain.query /\ s = chain.dataset
                             /\ c = chain.connection /\ list = chain.mappings
    OBVIOUS
  <1>2. PICK b : b = ChainBundle
    OBVIOUS
  <1>3. /\ b.queries = <<q>> /\ b.dashboards = <<>> /\ b.reports = <<>>
        /\ b.dataset = s /\ b.connection = c /\ b.mappings = list
    BY <1>1, <1>2 DEF ChainBundle
  <1>4. /\ q \in QueryIds /\ Held(catalog, "query", q)
        /\ s \in DatasetIds /\ Held(catalog, "dataset", s)
        /\ c = w.id /\ list # <<>> /\ list \in Seq(MappingIds)
        /\ \A m \in Elements(list) : Held(catalog, "mapping", m)
    BY <1>1 DEF ChainHeld, ChainTables, ChainType
  <1>5. b \in Bundle
    <2>1. <<q>> \in Seq(QueryIds) /\ <<>> \in Seq(DashboardIds) /\ <<>> \in Seq(ReportIds)
      BY <1>4
    <2>2. b = [queries |-> <<q>>, dashboards |-> <<>>, reports |-> <<>>,
               dataset |-> s, connection |-> c, mappings |-> list]
      BY <1>1, <1>2 DEF ChainBundle
    <2>3. QED
      BY <1>4, <2>1, <2>2 DEF Bundle
  <1>6. PICK d : d = Read("query", q)
    OBVIOUS
  <1>7. d.table = "query" /\ d.id = q
    BY <1>6 DEF Read
  <1>8. /\ b.queries # <<>> /\ b.mappings # <<>> /\ b.queries[1] = q
        /\ b.mappings[1] \in Elements(list)
        /\ Elements(b.queries) = {q} /\ Elements(b.dashboards) = {} /\ Elements(b.reports) = {}
        /\ Elements(b.mappings) = Elements(list)
        /\ IsInjective(b.queries)
    BY <1>3, <1>4, <1>5, OneElement, BundleRows
  <1>9. BundleNames(b, d)
    BY <1>3, <1>7 DEF BundleNames
  <1>10. Held(catalog, "connection", c)
    BY <1>4, HeldRow
  <1>11. BundleHeld(catalog, b)
    BY <1>3, <1>4, <1>8, <1>10 DEF BundleHeld
  <1>12. ~repointed => BundleFits(catalog, b)
    <2>1. ~repointed =>
            /\ catalog.query[q].dataset = s
            /\ \A m \in Elements(list) : catalog.mapping[m].key = catalog.dataset[s].key
            /\ c \in OffersOf(catalog, catalog.dataset[s])
      BY <1>1 DEF ChainFits
    <2>2. QED
      BY <1>3, <1>4, <1>8, <2>1 DEF BundleFits, DatasetOf
  <1>13. edits = 0 => BundleExact(catalog, b, d)
    <2> SUFFICES ASSUME edits = 0 PROVE BundleExact(catalog, b, d)
      OBVIOUS
    <2>1. catalog.query[q].dataset = s
      BY <1>1 DEF ChainFits
    <2>2. /\ Elements(list) = FoundMappings(catalog, catalog.dataset[s].key)
          /\ IsInjective(list) /\ c = SourceOf(catalog, s)
      BY <1>1 DEF ChainExact
    <2>3. /\ \A x : x \in ReachedQueries(catalog, d) <=> x = q
          /\ \A x : x \notin ReachedDashboards(catalog, d)
      BY <1>6, ReachedByQuery
    <2>4. \A x \in Found(catalog, "connection", c) : ~x.protected
      <3>1. \A x \in Found(catalog, "connection", c) : x = row
        BY <1>4, HeldRow
      <3>2. QED
        BY <3>1
    <2>5. \A m : m \in Elements(b.mappings) <=>
            \E x \in ReachedQueries(catalog, d) : m \in FoundMappings(catalog, DatasetOf(catalog, x).key)
      BY <1>8, <2>1, <2>2, <2>3 DEF DatasetOf
    <2>6. QED
      BY <1>3, <1>8, <2>1, <2>2, <2>3, <2>4, <2>5 DEF BundleExact
  <1>14. Describes(b, d)
    BY <1>5, <1>8, <1>9, <1>11, <1>12, <1>13 DEF Describes
  <1>15. QED
    BY <1>1, <1>2, <1>5, <1>6, <1>14

LEMMA ResolveConnectionKeeps ==
  ASSUME BridgeInv, UNCHANGED <<readinessVars, bridgeVars>>, ResolveConnection
  PROVE  BridgeInv'
  <1>1. pending # <<>> /\ Head(pending).table = "connection"
    BY HeadOfPending, ResolveConnectionStep DEF BridgeInv, Due
  <1>2. PICK w : w = Head(pending)
    OBVIOUS
  <1>3. /\ w \in Work /\ Justified(w) /\ CatalogOK(catalog) /\ failed \in BOOLEAN
        /\ w.table = "connection" /\ chain \in ChainType /\ partials \in Seq(Bundle)
        /\ ChainHeld(catalog, w) /\ (~repointed => ChainFits(catalog, w))
        /\ (edits = 0 => ChainExact(catalog, w)) /\ (edits = 0 => ~repointed)
        /\ pending \in Seq(Work) /\ Tail(pending) \in Seq(Later)
    BY <1>1, <1>2, HeadOfPending
  <1>4. w.id \in ConnectionIds /\ Subject(w) = Read("query", chain.query) /\ w.id # None
    BY <1>3, WorkTables, NoneIsNoId DEF Subject, ChainTables
  <1>5. /\ chain.query \in QueryIds /\ Held(catalog, "query", chain.query)
        /\ PartOf(Read("query", chain.query))
    BY <1>3 DEF ChainHeld, ChainTables, Justified
  <1>6. edits = 0 => w.id \in Sources(catalog, asked) \ {None}
    <2>1. edits = 0 => /\ catalog.query[chain.query].dataset = chain.dataset
                       /\ w.id = SourceOf(catalog, chain.dataset)
      BY <1>3 DEF ChainFits, ChainHeld, ChainExact
    <2>2. QED
      BY <1>4, <1>5, <2>1, ChainSource
  <1>7. UNCHANGED <<catalog, asked, edits, repointed>>
    BY DEF readinessVars, evaluation
  <1>8. CASE Nothing("connection_missing", Found(catalog, "connection", w.id))
    <2>1. edits = 0 /\ Found(catalog, "connection", w.id) = {} =>
            "connection_missing" \in SourceProblems(catalog, asked)
      <3>1. edits = 0 /\ Found(catalog, "connection", w.id) = {} =>
              Gone(catalog, "connection", Sources(catalog, asked) \ {None})
        BY <1>6, HereFound
      <3>2. QED
        BY <3>1 DEF SourceProblems, Code
    <2>2. /\ blocked' = "connection_missing" /\ failed' \in BOOLEAN
          /\ failed' \/ Found(catalog, "connection", w.id) = {}
          /\ Unresolved("connection_missing")
      BY <1>8 DEF Nothing, Unresolved
    <2>3. BlockedInv'
      BY <1>7, <2>1, <2>2 DEF BlockedInv, SourceCodes
    <2>4. "connection_missing" \in ReferenceBlockers
      BY DEF ReferenceBlockers
    <2>5. QED
      BY <1>1, <2>2, <2>3, <2>4, ResolutionEnds
  <1>9. ASSUME NEW row \in Found(catalog, "connection", w.id), row.protected,
               Unresolved("credential_ref_missing"), UNCHANGED failed
        PROVE  BridgeInv'
    <2>1. edits = 0 => "credential_ref_missing" \in SourceProblems(catalog, asked)
      <3>1. edits = 0 =>
              row \in Here(catalog, "connection", Sources(catalog, asked) \ {None})
        BY <1>6, <1>9, HereFound
      <3>2. QED
        BY <1>9, <3>1 DEF SourceProblems, Code
    <2>2. "credential_ref_missing" \in SourceCodes
      BY DEF SourceCodes
    <2>3. QED
      BY <1>1, <1>9, <2>1, <2>2, SourceEnds
  <1>10. ASSUME NEW row \in Found(catalog, "connection", w.id), ~row.protected,
                partials' = Append(partials, ChainBundle), chain' = NoChain,
                pending' = <<>> \o Tail(pending), UNCHANGED <<blocked, failed>>
         PROVE  BridgeInv'
    <2>1. PICK b, d, bundles :
            b = ChainBundle /\ d = Read("query", chain.query) /\ bundles = partials
      OBVIOUS
    <2>2. b \in Bundle /\ Describes(b, d)
      BY <1>3, <1>4, <1>10, <2>1, ChainDescribes
    <2>3. d \in Definitions
      BY <1>5, <2>1 DEF Definitions
    <2>4. PendingInv' /\ pending' \in Seq(Work)
      BY <1>1, <1>10, PendingPops
    <2>5. PICK stack : Plan(stack) /\ Stands(partials, stack[0])
      BY <1>1, HeadOfPending
    <2>6. stack[0] \in Seq(Definitions) /\ stack[1] = Append(stack[0], d)
      <3>1. Advance(w, stack[0], stack[1]) /\ stack[0] \in Seq(Definitions)
        BY <1>1, <1>2, <1>3, <2>5, HeadAdvances
      <3>2. QED
        BY <1>3, <1>4, <2>1, <3>1 DEF Advance
    <2>7. PICK next : Plan(next)' /\ next[0] = stack[1]
      BY <1>1, <1>3, <1>7, <1>10, <2>5, PopPlan
    <2>8. PICK before : before = stack[0]
      OBVIOUS
    <2>9. bundles \in Seq(Bundle) /\ Stands(bundles, before) /\ partials' = Append(bundles, b)
      BY <1>3, <1>10, <2>1, <2>5, <2>8
    <2>10. Stands(partials, Append(before, d))' /\ partials' \in Seq(Bundle)
      BY <2>2, <2>3, <2>6, <2>8, <2>9, StandsGrows
    <2>11. \E to : (Plan(to) /\ Stands(partials, to[0]))'
      BY <2>6, <2>7, <2>8, <2>10
    <2>12. chain' \in ChainType
      BY <1>10 DEF NoChain, ChainType, OptionalQuery, OptionalConnection
    <2>13. QED
      BY <1>1, <1>10, <2>4, <2>10, <2>11, <2>12, ResolutionGoesOn
  <1>11. QED
    BY <1>2, <1>3, <1>8, <1>9, <1>10, ResolveConnectionStep

(* The references of a dashboard or of a report take its place.            *)
LEMMA SpreadKeeps ==
  ASSUME BridgeInv, UNCHANGED <<readinessVars, bridgeVars>>, pending # <<>>,
         NEW owner \in Definitions, owner = Head(pending), owner.table # "query",
         Held(catalog, owner.table, owner.id),
         NEW reads \in Seq(QueryReads \union DashboardReads),
         owner.table = "dashboard" => Elements(reads) \subseteq QueryReads,
         Elements(reads) = Needs(catalog, owner), Spread(owner, reads)
  PROVE  BridgeInv'
  <1>1. /\ Justified(owner) /\ CatalogOK(catalog) /\ failed \in BOOLEAN
        /\ chain \in ChainType /\ partials \in Seq(Bundle)
        /\ pending \in Seq(Work) /\ Tail(pending) \in Seq(Later)
        /\ \A i \in 1..Len(pending) : pending[i] \in Work /\ Justified(pending[i])
        /\ stage = "references" /\ blocked = None
    BY HeadOfPending
  <1>2. owner \in Task /\ owner.table \in {"dashboard", "report"}
    BY ReadTables DEF Task
  <1>3. /\ UNCHANGED <<catalog, asked, edits, repointed>>
        /\ UNCHANGED <<chain, partials, blocked, failed>>
    BY DEF readinessVars, evaluation, Spread
  <1>4. Elements(reads) \subseteq QueryReads \union DashboardReads
    BY ListElements
  <1>5. Referred(owner, reads)
    BY <1>2, <1>4 DEF Referred
  <1>6. PICK stack : Plan(stack) /\ Stands(partials, stack[0])
    BY HeadOfPending
  <1>7. PICK merge, work : merge = Merge(owner, Len(reads)) /\ work = pending'
    OBVIOUS
  <1>8. /\ \E next : Plan(next)' /\ next[0] = stack[0]
        /\ work \in Seq(Work) /\ work # <<>> /\ Head(work) = reads[1]
        /\ Tail(work) \in Seq(Later)
        /\ \A i \in 1..Len(work) :
             \/ work[i] \in Elements(reads)
             \/ work[i] = merge
             \/ \E k \in 2..Len(pending) : work[i] = pending[k]
    BY <1>1, <1>3, <1>5, <1>6, <1>7, SpreadPlan
  <1>9. \E to : (Plan(to) /\ Stands(partials, to[0]))'
    <2>1. PICK next : Plan(next)' /\ next[0] = stack[0]
      BY <1>8
    <2>2. PICK definitions : definitions = stack[0]
      OBVIOUS
    <2>3. Stands(partials, definitions)'
      BY <1>3, <1>6, <2>2, SameStands
    <2>4. QED
      BY <2>1, <2>2, <2>3
  <1>10. PartOf(owner)
    BY <1>1 DEF Justified
  <1>11. ASSUME NEW t \in Elements(reads) PROVE Justified(t)'
    <2>1. t \in QueryReads \union DashboardReads /\ t \in Needs(catalog, owner)
      BY <1>4
    <2>2. t \in Definitions /\ t \in Task /\ t.table \in {"query", "dashboard"}
      BY <2>1, ReadTables DEF Task
    <2>3. PartOf(t)'
      <3>1. \A q : q \in ReachedQueries(catalog, t) => q \in ReachedQueries(catalog, owner)
        BY <2>1, ReachedByParts
      <3>2. PartOf(t)
        BY <1>10, <3>1 DEF PartOf
      <3>3. QED
        BY <1>3, <3>2 DEF PartOf
    <2>4. ~repointed => Clear(catalog, {t})
      <3>1. ~repointed => Clear(catalog, {owner})
        BY <1>1, <1>2 DEF Justified
      <3>2. QED
        BY <1>1, <1>2, <2>1, <3>1, ClearHead
    <2>5. QED
      BY <1>3, <2>2, <2>3, <2>4 DEF Justified, ChainTables
  <1>12. Justified(merge)'
    <2>1. merge.table = "merge" /\ merge.id = owner
      BY <1>7 DEF Merge
    <2>2. merge \notin Definitions /\ merge \notin Task
      BY <2>1, WorkTables, TaskTables, ReadTables
    <2>3. PartOf(owner)'
      BY <1>3, <1>10 DEF PartOf
    <2>4. Held(catalog, owner.table, owner.id)'
      BY <1>3
    <2>5. QED
      BY <2>1, <2>2, <2>3, <2>4 DEF Justified, ChainTables
  <1>13. PICK before : before = pending
    OBVIOUS
  <1>14. \A k \in 2..Len(before) : Justified(before[k])'
    <2>1. \A k \in 2..Len(before) : k \in 1..Len(before)
      BY <1>1, <1>13, LenProperties
    <2>2. \A k \in 2..Len(before) : before[k] \in Work /\ Justified(before[k])
      BY <1>1, <1>13, <2>1
    <2>3. QED
      BY <1>3, <2>2, SameJustified
  <1>15. \A i \in 1..Len(work) : Justified(work[i])'
    <2>1. \A i \in 1..Len(work) :
            \/ work[i] \in Elements(reads)
            \/ work[i] = merge
            \/ \E k \in 2..Len(before) : work[i] = before[k]
      BY <1>8, <1>13
    <2>2. QED
      BY <1>11, <1>12, <1>14, <2>1
  <1>16. /\ ChainHeld(catalog, Head(work))' /\ ChainFits(catalog, Head(work))'
         /\ ChainExact(catalog, Head(work))'
    <2>1. 1 \in DOMAIN reads /\ reads[1] \in Elements(reads)
      <3>1. reads # <<>>
        BY DEF Spread
      <3>2. 1 \in DOMAIN reads
        BY <3>1, EmptySeq, LenProperties
      <3>3. QED
        BY <3>2 DEF Elements
    <2>2. PICK first : first = reads[1]
      OBVIOUS
    <2>3. first.table \in {"query", "dashboard"}
      BY <1>4, <2>1, <2>2, ReadTables
    <2>4. ChainHeld(catalog, first)' /\ ChainFits(catalog, first)' /\ ChainExact(catalog, first)'
      BY <2>3 DEF ChainHeld, ChainFits, ChainExact, ChainTables
    <2>5. QED
      BY <1>8, <2>2, <2>4
  <1>17. stage' = "references" /\ blocked' = None
    BY <1>1, <1>3 DEF bridgeVars
  <1>18. PendingInv'
    BY <1>7, <1>8, <1>15, <1>16, <1>17 DEF PendingInv
  <1>19. QED
    BY <1>1, <1>3, <1>7, <1>8, <1>9, <1>18, ResolutionGoesOn

LEMMA ResolveDashboardKeeps ==
  ASSUME BridgeInv, UNCHANGED <<readinessVars, bridgeVars>>, ResolveDashboard
  PROVE  BridgeInv'
  <1>1. pending # <<>> /\ Head(pending).table = "dashboard"
    BY HeadOfPending, ResolveDashboardStep DEF BridgeInv, Due
  <1>2. PICK w : w = Head(pending)
    OBVIOUS
  <1>3. /\ w \in Work /\ Justified(w) /\ CatalogOK(catalog) /\ failed \in BOOLEAN
        /\ w.table = "dashboard" /\ (edits = 0 => ~repointed)
    BY <1>1, <1>2, HeadOfPending
  <1>4. w.id \in DashboardIds /\ w \in Definitions /\ w \in Task
    <2>1. w \in Definitions
      BY <1>3, WorkTables
    <2>2. QED
      BY <1>3, <2>1, TaskTables DEF Task
  <1>5. ~repointed => Clear(catalog, {w})
    BY <1>3, <1>4 DEF Justified
  <1>6. CASE Nothing("dashboard_definition_missing", Found(catalog, "dashboard", w.id))
    <2>1. ~repointed => Found(catalog, "dashboard", w.id) # {}
      BY <1>3, <1>4, <1>5, ClearFound
    <2>2. "dashboard_definition_missing" \in ReferenceBlockers
      BY DEF ReferenceBlockers
    <2>3. QED
      BY <1>1, <1>6, <2>1, <2>2, MissingEnds
  <1>7. ASSUME NEW row \in Found(catalog, "dashboard", w.id),
               WidgetReads(row.widgets) = <<>>,
               Unresolved("query_definition_missing"), UNCHANGED failed
        PROVE  BridgeInv'
    <2>1. repointed
      BY <1>3, <1>4, <1>5, <1>7, ClearFound
    <2>2. BlockedInv'
      BY <1>3, <2>1 DEF BlockedInv, readinessVars
    <2>3. "query_definition_missing" \in ReferenceBlockers /\ failed' \in BOOLEAN
      BY <1>3, <1>7 DEF ReferenceBlockers
    <2>4. QED
      BY <1>1, <1>7, <2>2, <2>3, ResolutionEnds
  <1>8. ASSUME NEW row \in Found(catalog, "dashboard", w.id),
               Spread(w, WidgetReads(row.widgets))
        PROVE  BridgeInv'
    <2>1. PICK reads : reads = WidgetReads(row.widgets)
      OBVIOUS
    <2>2. row.widgets \in Widgets
      BY <1>3, <1>4, <1>8, FoundRow
    <2>3. /\ reads \in Seq(QueryReads)
          /\ Elements(reads) = {Read("query", q) : q \in Elements(row.widgets) \ {None}}
      BY <2>1, <2>2, WidgetReadsList
    <2>4. reads \in Seq(QueryReads \union DashboardReads) /\ Elements(reads) \subseteq QueryReads
      BY <2>3, SeqMonotonic, ListElements
    <2>5. FoundAt(catalog, w) = {row}
      BY <1>3, <1>8, HeldRow DEF FoundAt
    <2>6. Elements(reads) = Needs(catalog, w)
      BY <1>3, <2>3, <2>5 DEF Needs
    <2>7. Held(catalog, w.table, w.id)
      BY <1>3, <1>8, HeldRow
    <2>8. w.table # "query" /\ Spread(w, reads)
      BY <1>3, <1>8, <2>1
    <2>9. QED
      BY <1>1, <1>2, <1>4, <2>4, <2>6, <2>7, <2>8, SpreadKeeps
  <1>9. QED
    BY <1>2, <1>3, <1>6, <1>7, <1>8, ResolveDashboardStep

LEMMA ResolveReportKeeps ==
  ASSUME BridgeInv, UNCHANGED <<readinessVars, bridgeVars>>, ResolveReport
  PROVE  BridgeInv'
  <1>1. pending # <<>> /\ Head(pending).table = "report"
    BY HeadOfPending, ResolveReportStep DEF BridgeInv, Due
  <1>2. PICK w : w = Head(pending)
    OBVIOUS
  <1>3. /\ w \in Work /\ Justified(w) /\ CatalogOK(catalog) /\ failed \in BOOLEAN
        /\ w.table = "report" /\ (edits = 0 => ~repointed)
    BY <1>1, <1>2, HeadOfPending
  <1>4. w.id \in ReportIds /\ w \in Definitions /\ w \in Task
    <2>1. w \in Definitions
      BY <1>3, WorkTables
    <2>2. QED
      BY <1>3, <2>1, TaskTables DEF Task
  <1>5. ~repointed => Clear(catalog, {w})
    BY <1>3, <1>4 DEF Justified
  <1>6. CASE Nothing("report_definition_missing", Found(catalog, "report", w.id))
    <2>1. ~repointed => Found(catalog, "report", w.id) # {}
      BY <1>3, <1>4, <1>5, ClearFound
    <2>2. "report_definition_missing" \in ReferenceBlockers
      BY DEF ReferenceBlockers
    <2>3. QED
      BY <1>1, <1>6, <2>1, <2>2, MissingEnds
  <1>7. ASSUME NEW row \in Found(catalog, "report", w.id), ReportReads(row) = <<>>,
               Unresolved("report_definition_missing"), UNCHANGED failed
        PROVE  BridgeInv'
    <2>1. repointed
      BY <1>3, <1>4, <1>5, <1>7, ClearFound
    <2>2. BlockedInv'
      BY <1>3, <2>1 DEF BlockedInv, readinessVars
    <2>3. "report_definition_missing" \in ReferenceBlockers /\ failed' \in BOOLEAN
      BY <1>3, <1>7 DEF ReferenceBlockers
    <2>4. QED
      BY <1>1, <1>7, <2>2, <2>3, ResolutionEnds
  <1>8. ASSUME NEW row \in Found(catalog, "report", w.id), Spread(w, ReportReads(row))
        PROVE  BridgeInv'
    <2>1. PICK reads : reads = ReportReads(row)
      OBVIOUS
    <2>2. row \in ReportRow
      BY <1>3, <1>4, <1>8, FoundRow DEF ReportRow
    <2>3. /\ reads \in Seq(QueryReads \union DashboardReads)
          /\ Elements(reads) =
               {Read("query", q) : q \in ReportQueries(row)} \union
               {Read("dashboard", b) : b \in ReportDashboards(row)}
      BY <2>1, <2>2, ReportReadsList
    <2>4. FoundAt(catalog, w) = {row}
      BY <1>3, <1>8, HeldRow DEF FoundAt
    <2>5. Elements(reads) = Needs(catalog, w)
      BY <1>3, <2>3, <2>4 DEF Needs
    <2>6. Held(catalog, w.table, w.id)
      BY <1>3, <1>8, HeldRow
    <2>7. w.table # "query" /\ w.table # "dashboard" /\ Spread(w, reads)
      BY <1>3, <1>8, <2>1
    <2>8. QED
      BY <1>1, <1>2, <1>4, <2>3, <2>5, <2>6, <2>7, SpreadKeeps
  <1>9. QED
    BY <1>2, <1>3, <1>6, <1>7, <1>8, ResolveReportStep

-------------------------------------------------------------------------------
(* The merge of what the references of a dashboard or a report came to.    *)

LEMMA UnitedList ==
  ASSUME NEW bundles, NEW n \in Nat, DOMAIN bundles = 1..n, NEW S, NEW field,
         \A i \in 1..n : bundles[i][field] \in Seq(S)
  PROVE  /\ United(bundles, field) \in Seq(S)
         /\ \A x : x \in Elements(United(bundles, field)) <=>
                     \E i \in 1..n : x \in Elements(bundles[i][field])
         /\ IsInjective(United(bundles, field))
         /\ n # 0 /\ bundles[1][field] # <<>> =>
              /\ United(bundles, field) # <<>>
              /\ United(bundles, field)[1] = bundles[1][field][1]
  <1> DEFINE seqs == [i \in 1..n |-> bundles[i][field]]
  <1>1. seqs \in [1..n -> Seq(S)]
    OBVIOUS
  <1>2. seqs \in Seq(Seq(S))
    BY <1>1, SeqDef
  <1>3. United(bundles, field) = Unique(seqs)
    BY DEF United
  <1>4. DOMAIN seqs = 1..n /\ \A i \in 1..n : seqs[i] = bundles[i][field]
    OBVIOUS
  <1> HIDE DEF seqs
  <1>5. /\ Unique(seqs) \in Seq(S)
        /\ Elements(Unique(seqs)) = Occurring(seqs)
        /\ IsInjective(Unique(seqs))
        /\ (seqs # <<>> /\ seqs[1] # <<>>) =>
             Unique(seqs) # <<>> /\ Unique(seqs)[1] = seqs[1][1]
    BY <1>2, UniqueList
  <1>6. \A x : x \in Occurring(seqs) <=> \E i \in 1..n : x \in Elements(bundles[i][field])
    BY <1>4 DEF Occurring
  <1>7. n # 0 => seqs # <<>> /\ 1 \in 1..n
    <2>1. n # 0 => 1 \in DOMAIN seqs /\ 1 \in 1..n
      BY <1>4
    <2>2. DOMAIN <<>> = {}
      OBVIOUS
    <2>3. QED
      BY <2>1, <2>2
  <1>8. QED
    BY <1>3, <1>4, <1>5, <1>6, <1>7

(* A list that has one element once.                                       *)
LEMMA SingleList ==
  ASSUME NEW S, NEW list \in Seq(S), IsInjective(list), NEW x \in S,
         \A y : y \in Elements(list) <=> y = x
  PROVE  list = <<x>>
  <1>1. Len(list) \in Nat /\ DOMAIN list = 1..Len(list)
    BY LenProperties
  <1>2. \A i \in 1..Len(list) : list[i] = x
    BY <1>1 DEF Elements
  <1>3. \E i \in 1..Len(list) : TRUE
    BY <1>1 DEF Elements
  <1>4. \A i, k \in 1..Len(list) : i = k
    BY <1>1, <1>2 DEF IsInjective
  <1>5. Len(list) = 1
    <2>1. 1 \in 1..Len(list) /\ Len(list) \in 1..Len(list)
      BY <1>1, <1>3
    <2>2. QED
      BY <1>4, <2>1
  <1>6. <<x>> \in Seq(S) /\ Len(<<x>>) = 1 /\ <<x>>[1] = x
    OBVIOUS
  <1>7. \A i \in 1..1 : i = 1
    OBVIOUS
  <1>8. QED
    BY <1>2, <1>5, <1>6, <1>7, SeqEqual

(* The owner is the only one of its table, if nothing named one before.    *)
LEMMA OwnerAlone ==
  ASSUME NEW S, NEW list \in Seq(S), NEW x \in S
  PROVE  /\ Unique(<<list, <<x>>>>) \in Seq(S)
         /\ list = <<>> => Unique(<<list, <<x>>>>) = <<x>>
  <1>1. PICK lists : lists = <<list, <<x>>>>
    OBVIOUS
  <1>2. lists \in Seq(Seq(S)) /\ DOMAIN lists = 1..2 /\ lists[1] = list /\ lists[2] = <<x>>
    <2>1. <<x>> \in Seq(S)
      OBVIOUS
    <2>2. QED
      BY <1>1, <2>1
  <1>3. /\ Unique(lists) \in Seq(S) /\ Elements(Unique(lists)) = Occurring(lists)
        /\ IsInjective(Unique(lists))
    BY <1>2, UniqueList
  <1>4. ASSUME list = <<>> PROVE \A y : y \in Occurring(lists) <=> y = x
    <2>1. 1 \in 1..2 /\ 2 \in 1..2 /\ \A i \in 1..2 : i = 1 \/ i = 2
      OBVIOUS
    <2>2. Elements(lists[1]) = {} /\ Elements(lists[2]) = {x}
      BY <1>2, <1>4, OneElement
    <2>3. QED
      BY <1>2, <2>1, <2>2 DEF Occurring
  <1>5. list = <<>> => Unique(lists) = <<x>>
    BY <1>3, <1>4, SingleList
  <1>6. QED
    BY <1>1, <1>3, <1>5

(* What a merged bundle holds of its n parts.                              *)
MergeOf(bundles, n, owner, b) ==
  /\ b \in Bundle
  /\ b.dataset = bundles[1].dataset /\ b.connection = bundles[1].connection
  /\ \A q : q \in Elements(b.queries) <=>
              \E i \in 1..n : q \in Elements(bundles[i].queries)
  /\ \A m : m \in Elements(b.mappings) <=>
              \E i \in 1..n : m \in Elements(bundles[i].mappings)
  /\ IsInjective(b.queries) /\ IsInjective(b.mappings)
  /\ bundles[1].queries # <<>> =>
       b.queries # <<>> /\ b.queries[1] = bundles[1].queries[1]
  /\ bundles[1].mappings # <<>> =>
       b.mappings # <<>> /\ b.mappings[1] = bundles[1].mappings[1]
  /\ owner.table = "dashboard" => b.dashboards = <<owner.id>> /\ b.reports = <<>>
  /\ owner.table = "report" =>
       /\ b.reports = <<owner.id>>
       /\ \A x : x \in Elements(b.dashboards) <=>
                   \E i \in 1..n : x \in Elements(bundles[i].dashboards)

(* What a merge makes of the lists, and what it takes from the first.      *)
LEMMA MergedParts ==
  ASSUME NEW bundles \in Seq(Bundle), bundles # <<>>,
         NEW owner \in Definitions, owner.table # "query",
         NEW b, b = Owned(Merged(bundles), owner),
         NEW n, n = Len(bundles),
         \A i \in 1..n : bundles[i].reports = <<>>,
         owner.table = "dashboard" => \A i \in 1..n : bundles[i].dashboards = <<>>
  PROVE  MergeOf(bundles, n, owner, b)
  <1> SUFFICES /\ b \in Bundle
               /\ b.dataset = bundles[1].dataset /\ b.connection = bundles[1].connection
               /\ \A q : q \in Elements(b.queries) <=>
                           \E i \in 1..n : q \in Elements(bundles[i].queries)
               /\ \A m : m \in Elements(b.mappings) <=>
                           \E i \in 1..n : m \in Elements(bundles[i].mappings)
               /\ IsInjective(b.queries) /\ IsInjective(b.mappings)
               /\ bundles[1].queries # <<>> =>
                    b.queries # <<>> /\ b.queries[1] = bundles[1].queries[1]
               /\ bundles[1].mappings # <<>> =>
                    b.mappings # <<>> /\ b.mappings[1] = bundles[1].mappings[1]
               /\ owner.table = "dashboard" => b.dashboards = <<owner.id>> /\ b.reports = <<>>
               /\ owner.table = "report" =>
                    /\ b.reports = <<owner.id>>
                    /\ \A x : x \in Elements(b.dashboards) <=>
                                \E i \in 1..n : x \in Elements(bundles[i].dashboards)
    BY DEF MergeOf
  <1>1. n \in Nat /\ DOMAIN bundles = 1..n /\ n # 0 /\ 1 \in 1..n
    BY EmptySeq, LenProperties
  <1>2. \A i \in 1..n : bundles[i] \in Bundle
    BY ElementOfSeq
  <1>3. PICK first : first = bundles[1]
    OBVIOUS
  <1>4. first \in Bundle /\ Head(bundles) = first
    BY <1>1, <1>2, <1>3
  <1>5. \A i \in 1..n : /\ bundles[i].queries \in Seq(QueryIds)
                        /\ bundles[i].dashboards \in Seq(DashboardIds)
                        /\ bundles[i].reports \in Seq(ReportIds)
                        /\ bundles[i].mappings \in Seq(MappingIds)
    BY <1>2 DEF Bundle
  <1>6. PICK queries, dashboards, reports, mappings :
          /\ queries = United(bundles, "queries")
          /\ dashboards = United(bundles, "dashboards")
          /\ reports = United(bundles, "reports")
          /\ mappings = United(bundles, "mappings")
    OBVIOUS
  <1>7. /\ queries \in Seq(QueryIds) /\ IsInjective(queries)
        /\ \A x : x \in Elements(queries) <=> \E i \in 1..n : x \in Elements(bundles[i].queries)
        /\ bundles[1].queries # <<>> =>
             queries # <<>> /\ queries[1] = bundles[1].queries[1]
    <2>1. PICK field : field = "queries"
      OBVIOUS
    <2>2. \A i \in 1..n : bundles[i][field] \in Seq(QueryIds)
      BY <1>5, <2>1
    <2>3. /\ United(bundles, field) \in Seq(QueryIds)
          /\ \A x : x \in Elements(United(bundles, field)) <=>
                      \E i \in 1..n : x \in Elements(bundles[i][field])
          /\ IsInjective(United(bundles, field))
          /\ n # 0 /\ bundles[1][field] # <<>> =>
               /\ United(bundles, field) # <<>>
               /\ United(bundles, field)[1] = bundles[1][field][1]
      BY <1>1, <2>2, UnitedList
    <2>4. queries = United(bundles, field) /\ n # 0
      BY <1>1, <1>6, <2>1
    <2>5. QED
      BY <2>1, <2>3, <2>4
  <1>8. /\ dashboards \in Seq(DashboardIds)
        /\ \A x : x \in Elements(dashboards) <=>
                    \E i \in 1..n : x \in Elements(bundles[i].dashboards)
    <2>1. \A i \in 1..n : bundles[i]["dashboards"] \in Seq(DashboardIds)
      BY <1>5
    <2>2. QED
      BY <1>1, <1>6, <2>1, UnitedList
  <1>9. /\ reports \in Seq(ReportIds)
        /\ \A x : x \in Elements(reports) <=> \E i \in 1..n : x \in Elements(bundles[i].reports)
    <2>1. \A i \in 1..n : bundles[i]["reports"] \in Seq(ReportIds)
      BY <1>5
    <2>2. QED
      BY <1>1, <1>6, <2>1, UnitedList
  <1>10. /\ mappings \in Seq(MappingIds) /\ IsInjective(mappings)
         /\ \A x : x \in Elements(mappings) <=>
                     \E i \in 1..n : x \in Elements(bundles[i].mappings)
         /\ bundles[1].mappings # <<>> =>
              mappings # <<>> /\ mappings[1] = bundles[1].mappings[1]
    <2>1. PICK field : field = "mappings"
      OBVIOUS
    <2>2. \A i \in 1..n : bundles[i][field] \in Seq(MappingIds)
      BY <1>5, <2>1
    <2>3. /\ United(bundles, field) \in Seq(MappingIds)
          /\ \A x : x \in Elements(United(bundles, field)) <=>
                      \E i \in 1..n : x \in Elements(bundles[i][field])
          /\ IsInjective(United(bundles, field))
          /\ n # 0 /\ bundles[1][field] # <<>> =>
               /\ United(bundles, field) # <<>>
               /\ United(bundles, field)[1] = bundles[1][field][1]
      BY <1>1, <2>2, UnitedList
    <2>4. mappings = United(bundles, field) /\ n # 0
      BY <1>1, <1>6, <2>1
    <2>5. QED
      BY <2>1, <2>3, <2>4
  <1>11. reports = <<>>
    <2>1. Elements(reports) = {}
      BY <1>9, OneElement
    <2>2. QED
      BY <1>9, <2>1, ListElements
  <1>12. owner.table = "dashboard" => dashboards = <<>>
    <2>1. owner.table = "dashboard" => Elements(dashboards) = {}
      BY <1>8, OneElement
    <2>2. QED
      BY <1>8, <2>1, ListElements
  <1>13. PICK m : m = Merged(bundles)
    OBVIOUS
  <1>14. m = [queries |-> queries, dashboards |-> dashboards, reports |-> reports,
              dataset |-> first.dataset, connection |-> first.connection,
              mappings |-> mappings]
    <2>1. m = [first EXCEPT !.queries = queries, !.dashboards = dashboards,
                            !.reports = reports, !.mappings = mappings]
      BY <1>4, <1>6, <1>13 DEF Merged
    <2>2. QED
      BY <1>4, <2>1 DEF Bundle
  <1>15. first.dataset \in DatasetIds /\ first.connection \in ConnectionIds
    BY <1>4 DEF Bundle
  <1>16. CASE owner.table = "dashboard"
    <2>1. owner.id \in DashboardIds
      BY <1>16 DEF Definitions, Read
    <2>2. PICK named : named = Unique(<<dashboards, <<owner.id>>>>)
      OBVIOUS
    <2>3. named = <<owner.id>> /\ named \in Seq(DashboardIds)
      BY <1>8, <1>12, <1>16, <2>1, <2>2, OwnerAlone
    <2>4. b = [queries |-> queries, dashboards |-> named, reports |-> reports,
               dataset |-> first.dataset, connection |-> first.connection,
               mappings |-> mappings]
      <3>1. b = [m EXCEPT !.dashboards = Unique(<<m.dashboards, <<owner.id>>>>)]
        BY <1>13, <1>16 DEF Owned
      <3>2. m.dashboards = dashboards
        BY <1>14
      <3>3. b = [m EXCEPT !.dashboards = named]
        BY <2>2, <3>1, <3>2
      <3>4. QED
        BY <1>14, <3>3
    <2>5. b \in Bundle
      BY <1>7, <1>9, <1>10, <1>15, <2>3, <2>4 DEF Bundle
    <2>6. /\ b.queries = queries /\ b.dashboards = named /\ b.reports = reports
          /\ b.dataset = first.dataset /\ b.connection = first.connection
          /\ b.mappings = mappings
      BY <2>4
    <2>7. QED
      BY <1>3, <1>7, <1>10, <1>11, <1>16, <2>3, <2>5, <2>6
  <1>17. CASE owner.table = "report"
    <2>1. owner.id \in ReportIds
      BY <1>17 DEF Definitions, Read
    <2>2. PICK named : named = Unique(<<reports, <<owner.id>>>>)
      OBVIOUS
    <2>3. named = <<owner.id>> /\ named \in Seq(ReportIds)
      BY <1>9, <1>11, <2>1, <2>2, OwnerAlone
    <2>4. b = [queries |-> queries, dashboards |-> dashboards, reports |-> named,
               dataset |-> first.dataset, connection |-> first.connection,
               mappings |-> mappings]
      <3>1. b = [m EXCEPT !.reports = Unique(<<m.reports, <<owner.id>>>>)]
        BY <1>13, <1>17 DEF Owned
      <3>2. m.reports = reports
        BY <1>14
      <3>3. b = [m EXCEPT !.reports = named]
        BY <2>2, <3>1, <3>2
      <3>4. QED
        BY <1>14, <3>3
    <2>5. b \in Bundle
      BY <1>7, <1>8, <1>10, <1>15, <2>3, <2>4 DEF Bundle
    <2>6. /\ b.queries = queries /\ b.dashboards = dashboards /\ b.reports = named
          /\ b.dataset = first.dataset /\ b.connection = first.connection
          /\ b.mappings = mappings
      BY <2>4
    <2>7. QED
      BY <1>3, <1>7, <1>8, <1>10, <1>17, <2>3, <2>5, <2>6
  <1>18. QED
    BY <1>16, <1>17, ReadTables

(* The first k bundles on the stack, that a merge leaves, and those that   *)
(* it takes.                                                               *)
Splits(all, k, low, high) ==
  low = SubSeq(all, 1, k) /\ high = SubSeq(all, k + 1, Len(all))

LEMMA SplitStands ==
  ASSUME NEW all \in Seq(Bundle), NEW kept \in Seq(Definitions), NEW parts \in Seq(Definitions),
         NEW joined, joined = kept \o parts, Stands(all, joined),
         NEW k, k = Len(all) - Len(parts), NEW low, NEW high, Splits(all, k, low, high)
  PROVE  /\ low \in Seq(Bundle) /\ high \in Seq(Bundle)
         /\ Len(low) = Len(kept) /\ Len(high) = Len(parts)
         /\ Stands(low, kept) /\ Stands(high, parts)
  <1>0. low = SubSeq(all, 1, k) /\ high = SubSeq(all, k + 1, Len(all))
    BY DEF Splits
  <1>1. PICK n, p : n = Len(kept) /\ p = Len(parts)
    OBVIOUS
  <1>2. n \in Nat /\ p \in Nat /\ Len(all) \in Nat /\ \A i \in 1..Len(all) : all[i] \in Bundle
    BY <1>1, LenProperties, ElementOfSeq
  <1>3. PICK goal : goal = kept \o parts
    OBVIOUS
  <1>4. /\ Len(goal) = n + p
        /\ \A i \in 1..(n + p) : goal[i] = IF i <= n THEN kept[i] ELSE parts[i - n]
    BY <1>1, <1>3, ConcatProperties
  <1>5. /\ Len(all) = n + p
        /\ \A i \in 1..(n + p) : Describes(all[i], goal[i])
    BY <1>3, <1>4 DEF Stands
  <1>6. k = n
    BY <1>1, <1>2, <1>5
  <1>7. /\ low \in Seq(Bundle) /\ Len(low) = n
        /\ \A i \in 1..n : low[i] = all[i]
    <2>1. \A i \in 1..n : all[i] \in Bundle
      BY <1>2, <1>5
    <2>2. 1 \in Int /\ n \in Int /\ low = SubSeq(all, 1, n)
      BY <1>0, <1>2, <1>6
    <2>3. /\ low \in Seq(Bundle) /\ Len(low) = IF 1 <= n THEN n - 1 + 1 ELSE 0
          /\ \A i \in 1..(n - 1 + 1) : low[i] = all[1 + i - 1]
      BY <2>1, <2>2, SubSeqProperties
    <2>4. Len(low) = n /\ n - 1 + 1 = n /\ \A i \in 1..n : 1 + i - 1 = i
      BY <1>2, <2>3
    <2>5. QED
      BY <2>3, <2>4
  <1>8. /\ high \in Seq(Bundle) /\ Len(high) = p
        /\ \A i \in 1..p : high[i] = all[n + i]
    <2>1. \A i \in (n + 1)..(n + p) : all[i] \in Bundle
      BY <1>2, <1>5
    <2>2. n + 1 \in Int /\ n + p \in Int /\ high = SubSeq(all, n + 1, n + p)
      <3>1. n + 1 \in Int /\ n + p \in Int
        BY <1>2
      <3>2. k + 1 = n + 1 /\ Len(all) = n + p
        BY <1>5, <1>6
      <3>3. high = SubSeq(all, n + 1, n + p)
        BY <1>0, <3>2, Zenon
      <3>4. QED
        BY <3>1, <3>3
    <2>3. /\ high \in Seq(Bundle)
          /\ Len(high) = IF n + 1 <= n + p THEN (n + p) - (n + 1) + 1 ELSE 0
          /\ \A i \in 1..((n + p) - (n + 1) + 1) : high[i] = all[(n + 1) + i - 1]
      <3>1. PICK a \in Int, z \in Int : a = n + 1 /\ z = n + p
        BY <2>2
      <3>2. \A i \in a..z : all[i] \in Bundle
        BY <2>1, <3>1
      <3>3. /\ SubSeq(all, a, z) \in Seq(Bundle)
            /\ Len(SubSeq(all, a, z)) = IF a <= z THEN z - a + 1 ELSE 0
            /\ \A i \in 1..(z - a + 1) : SubSeq(all, a, z)[i] = all[a + i - 1]
        BY <3>2, SubSeqProperties
      <3>4. high = SubSeq(all, a, z)
        BY <2>2, <3>1
      <3>5. QED
        BY <3>1, <3>3, <3>4
    <2>4. /\ Len(high) = p /\ (n + p) - (n + 1) + 1 = p
          /\ \A i \in 1..p : (n + 1) + i - 1 = n + i
      BY <1>2, <2>3
    <2>5. QED
      BY <2>3, <2>4
  <1>9. \A i \in 1..n : Describes(low[i], kept[i])
    <2>1. \A i \in 1..n : i \in 1..(n + p) /\ i <= n
      BY <1>2
    <2>2. QED
      BY <1>4, <1>5, <1>7, <2>1
  <1>10. \A i \in 1..p : Describes(high[i], parts[i])
    <2>1. \A i \in 1..p : n + i \in 1..(n + p) /\ ~(n + i <= n) /\ (n + i) - n = i
      BY <1>2
    <2>2. ASSUME NEW i \in 1..p PROVE Describes(high[i], parts[i])
      <3>1. goal[n + i] = parts[i]
        BY <1>4, <2>1
      <3>2. QED
        BY <1>5, <1>8, <2>1, <3>1
    <2>3. QED
      BY <2>2
  <1>11. Stands(low, kept) /\ Stands(high, parts)
    BY <1>1, <1>7, <1>8, <1>9, <1>10 DEF Stands
  <1>12. QED
    BY <1>1, <1>7, <1>8, <1>11

LEMMA PartBundles ==
  ASSUME NEW bundles \in Seq(Bundle), NEW parts \in Seq(Definitions), Stands(bundles, parts),
         NEW owner, Referred(owner, parts), NEW n, n = Len(bundles)
  PROVE  /\ n \in Nat /\ DOMAIN bundles = 1..n /\ n = Len(parts)
         /\ parts # <<>> => n # 0 /\ 1 \in 1..n /\ bundles # <<>>
         /\ \A i \in 1..n : /\ bundles[i] \in Bundle /\ Describes(bundles[i], parts[i])
                            /\ bundles[i].reports = <<>>
                            /\ parts[i] \in Definitions /\ parts[i] \in Elements(parts)
         /\ \A t \in Elements(parts) : \E i \in 1..n : t = parts[i]
         /\ owner.table = "dashboard" => \A i \in 1..n : bundles[i].dashboards = <<>>
         /\ owner.table \in {"dashboard", "report"}
  <1>1. /\ n \in Nat /\ DOMAIN bundles = 1..n /\ n = Len(parts) /\ DOMAIN parts = 1..n
        /\ \A i \in 1..n : Describes(bundles[i], parts[i])
    BY LenProperties DEF Stands
  <1>2. \A i \in 1..n : bundles[i] \in Bundle /\ parts[i] \in Definitions
    BY <1>1, ElementOfSeq
  <1>3. /\ \A i \in 1..n : parts[i] \in Elements(parts)
        /\ \A t \in Elements(parts) : \E i \in 1..n : t = parts[i]
    BY <1>1 DEF Elements
  <1>4. parts # <<>> => n # 0 /\ 1 \in 1..n /\ bundles # <<>>
    <2>1. parts # <<>> => n # 0 /\ 1 \in 1..n
      BY <1>1, EmptySeq
    <2>2. Len(<<>>) = 0
      OBVIOUS
    <2>3. QED
      BY <2>1, <2>2
  <1>5. \A t \in Elements(parts) : t.table \in {"query", "dashboard"}
    <2>1. \A t \in Elements(parts) : t \in QueryReads \union DashboardReads
      BY DEF Referred
    <2>2. QED
      BY <2>1, ReadTables
  <1>6. owner.table = "dashboard" => \A t \in Elements(parts) : t.table = "query"
    BY DEF Referred, QueryReads, Read
  <1>7. owner.table \in {"dashboard", "report"}
    BY DEF Referred
  <1>8. \A i \in 1..n : BundleNames(bundles[i], parts[i])
    BY <1>1 DEF Describes
  <1>9. \A i \in 1..n : bundles[i].reports = <<>>
    BY <1>3, <1>5, <1>8 DEF BundleNames
  <1>10. owner.table = "dashboard" => \A i \in 1..n : bundles[i].dashboards = <<>>
    BY <1>3, <1>6, <1>8 DEF BundleNames
  <1>11. QED
    BY <1>1, <1>2, <1>3, <1>4, <1>7, <1>9, <1>10

(* One source: the merged bundle is that of the owner.                     *)
LEMMA MergedDescribes ==
  ASSUME NEW bundles \in Seq(Bundle), NEW parts \in Seq(Definitions), parts # <<>>,
         Stands(bundles, parts), NEW owner \in Definitions,
         Held(catalog, owner.table, owner.id), Referred(owner, parts), OneSource(bundles),
         NEW b, b = Owned(Merged(bundles), owner)
  PROVE  b \in Bundle /\ Describes(b, owner)
  <1>1. PICK n : n = Len(bundles)
    OBVIOUS
  <1>2. /\ n \in Nat /\ DOMAIN bundles = 1..n /\ n # 0 /\ 1 \in 1..n /\ bundles # <<>>
        /\ \A i \in 1..n : /\ bundles[i] \in Bundle /\ Describes(bundles[i], parts[i])
                           /\ bundles[i].reports = <<>>
                           /\ parts[i] \in Definitions /\ parts[i] \in Elements(parts)
        /\ \A t \in Elements(parts) : \E i \in 1..n : t = parts[i]
        /\ owner.table = "dashboard" => \A i \in 1..n : bundles[i].dashboards = <<>>
        /\ owner.table \in {"dashboard", "report"}
    BY <1>1, PartBundles
  <1>3. owner.table # "query"
    BY <1>2
  <1>4. PICK first : first = bundles[1]
    OBVIOUS
  <1>5. /\ first \in Bundle /\ first.queries # <<>> /\ first.mappings # <<>>
        /\ BundleHeld(catalog, first) /\ (~repointed => BundleFits(catalog, first))
        /\ edits = 0 => BundleExact(catalog, first, parts[1])
    BY <1>2, <1>4 DEF Describes
  <1>6. /\ b \in Bundle
        /\ b.dataset = first.dataset /\ b.connection = first.connection
        /\ \A q : q \in Elements(b.queries) <=>
                    \E i \in 1..n : q \in Elements(bundles[i].queries)
        /\ \A m : m \in Elements(b.mappings) <=>
                    \E i \in 1..n : m \in Elements(bundles[i].mappings)
        /\ IsInjective(b.queries) /\ IsInjective(b.mappings)
        /\ b.queries # <<>> /\ b.queries[1] = first.queries[1]
        /\ b.mappings # <<>> /\ b.mappings[1] = first.mappings[1]
        /\ owner.table = "dashboard" => b.dashboards = <<owner.id>> /\ b.reports = <<>>
        /\ owner.table = "report" =>
             /\ b.reports = <<owner.id>>
             /\ \A x : x \in Elements(b.dashboards) <=>
                         \E i \in 1..n : x \in Elements(bundles[i].dashboards)
    <2>1. /\ bundles # <<>> /\ \A i \in 1..n : bundles[i].reports = <<>>
          /\ owner.table = "dashboard" => \A i \in 1..n : bundles[i].dashboards = <<>>
      BY <1>2
    <2>2. MergeOf(bundles, n, owner, b)
      BY <1>1, <1>3, <2>1, MergedParts
    <2>3. /\ b \in Bundle
          /\ b.dataset = bundles[1].dataset /\ b.connection = bundles[1].connection
          /\ \A q : q \in Elements(b.queries) <=>
                      \E i \in 1..n : q \in Elements(bundles[i].queries)
          /\ \A m : m \in Elements(b.mappings) <=>
                      \E i \in 1..n : m \in Elements(bundles[i].mappings)
          /\ IsInjective(b.queries) /\ IsInjective(b.mappings)
          /\ bundles[1].queries # <<>> =>
               b.queries # <<>> /\ b.queries[1] = bundles[1].queries[1]
          /\ bundles[1].mappings # <<>> =>
               b.mappings # <<>> /\ b.mappings[1] = bundles[1].mappings[1]
          /\ owner.table = "dashboard" => b.dashboards = <<owner.id>> /\ b.reports = <<>>
          /\ owner.table = "report" =>
               /\ b.reports = <<owner.id>>
               /\ \A x : x \in Elements(b.dashboards) <=>
                           \E i \in 1..n : x \in Elements(bundles[i].dashboards)
      BY <2>2 DEF MergeOf
    <2>4. first.queries # <<>> /\ first.mappings # <<>>
      BY <1>5
    <2>5. QED
      BY <1>4, <2>3, <2>4, Zenon
  <1>7. \A i \in 1..n : bundles[i].connection = b.connection
    BY <1>2, <1>4, <1>6 DEF OneSource
  <1>8. BundleNames(b, owner)
    BY <1>2, <1>6 DEF BundleNames
  <1>9. \A i \in 1..n : BundleHeld(catalog, bundles[i])
    BY <1>2 DEF Describes
  <1>10. BundleHeld(catalog, b)
    <2>1. /\ \A q \in Elements(b.queries) : Held(catalog, "query", q)
          /\ \A m \in Elements(b.mappings) : Held(catalog, "mapping", m)
      BY <1>6, <1>9 DEF BundleHeld
    <2>2. Held(catalog, "dataset", b.dataset) /\ Held(catalog, "connection", b.connection)
      BY <1>5, <1>6 DEF BundleHeld
    <2>3. CASE owner.table = "dashboard"
      <3>1. Elements(b.dashboards) = {owner.id} /\ Elements(b.reports) = {}
        BY <1>6, <2>3, OneElement
      <3>2. QED
        BY <2>1, <2>2, <2>3, <3>1 DEF BundleHeld
    <2>4. CASE owner.table = "report"
      <3>1. Elements(b.reports) = {owner.id}
        BY <1>6, <2>4, OneElement
      <3>2. \A x \in Elements(b.dashboards) : Held(catalog, "dashboard", x)
        BY <1>6, <1>9, <2>4 DEF BundleHeld
      <3>3. QED
        BY <2>1, <2>2, <2>4, <3>1, <3>2 DEF BundleHeld
    <2>5. QED
      BY <1>2, <2>3, <2>4
  <1>11. ASSUME ~repointed PROVE BundleFits(catalog, b)
    <2>1. /\ catalog.query[b.queries[1]].dataset = b.dataset
          /\ catalog.mapping[b.mappings[1]].key = catalog.dataset[b.dataset].key
      BY <1>5, <1>6, <1>11 DEF BundleFits
    <2>2. \A i \in 1..n : BundleFits(catalog, bundles[i])
      BY <1>2, <1>11 DEF Describes
    <2>3. \A q \in Elements(b.queries) :
            /\ catalog.query[q].dataset \in DatasetIds
            /\ Held(catalog, "dataset", catalog.query[q].dataset)
            /\ b.connection \in OffersOf(catalog, DatasetOf(catalog, q))
      BY <1>6, <1>7, <2>2 DEF BundleFits
    <2>4. QED
      BY <2>1, <2>3 DEF BundleFits
  <1>12. ASSUME edits = 0 PROVE BundleExact(catalog, b, owner)
    <2>1. \A i \in 1..n : BundleExact(catalog, bundles[i], parts[i])
      BY <1>2, <1>12 DEF Describes
    <2>2. \A t : t \in Elements(parts) <=> t \in Needs(catalog, owner)
      BY <1>12 DEF Referred
    <2>3. \A q : q \in ReachedQueries(catalog, owner) <=>
                   \E i \in 1..n : q \in ReachedQueries(catalog, parts[i])
      <3>1. \A q : q \in ReachedQueries(catalog, owner) <=>
                     \E t \in Elements(parts) : q \in ReachedQueries(catalog, t)
        BY <1>3, <2>2, ReachedByParts
      <3>2. QED
        BY <1>2, <3>1
    <2>4. \A x : x \in ReachedDashboards(catalog, owner) <=>
                   \/ owner.table = "dashboard" /\ x = owner.id
                   \/ \E i \in 1..n : x \in ReachedDashboards(catalog, parts[i])
      <3>1. \A x : x \in ReachedDashboards(catalog, owner) <=>
                     \/ owner.table = "dashboard" /\ x = owner.id
                     \/ \E t \in Elements(parts) : x \in ReachedDashboards(catalog, t)
        BY <1>3, <2>2, ReachedByParts
      <3>2. QED
        BY <1>2, <3>1
    <2>5. \A q : q \in Elements(b.queries) <=> q \in ReachedQueries(catalog, owner)
      BY <1>6, <2>1, <2>3 DEF BundleExact
    <2>6. \A x : x \in Elements(b.dashboards) <=> x \in ReachedDashboards(catalog, owner)
      <3>1. \A i \in 1..n : \A x : x \in Elements(bundles[i].dashboards) <=>
                                     x \in ReachedDashboards(catalog, parts[i])
        BY <2>1 DEF BundleExact
      <3>2. CASE owner.table = "dashboard"
        <4>1. Elements(b.dashboards) = {owner.id}
          BY <1>6, <3>2, OneElement
        <4>2. \A i \in 1..n : Elements(bundles[i].dashboards) = {}
          BY <1>2, <3>2, OneElement
        <4>3. QED
          BY <2>4, <3>1, <3>2, <4>1, <4>2
      <3>3. CASE owner.table = "report"
        BY <1>6, <2>4, <3>1, <3>3
      <3>4. QED
        BY <1>2, <3>2, <3>3
    <2>7. \A m : m \in Elements(b.mappings) <=>
            \E q \in ReachedQueries(catalog, owner) :
              m \in FoundMappings(catalog, DatasetOf(catalog, q).key)
      <3>1. \A i \in 1..n : \A m : m \in Elements(bundles[i].mappings) <=>
              \E q \in ReachedQueries(catalog, parts[i]) :
                m \in FoundMappings(catalog, DatasetOf(catalog, q).key)
        BY <2>1 DEF BundleExact
      <3>2. QED
        BY <1>6, <2>3, <3>1
    <2>8. \A q \in ReachedQueries(catalog, owner) :
            SourceOf(catalog, catalog.query[q].dataset) = b.connection
      <3>1. \A i \in 1..n : \A q \in ReachedQueries(catalog, parts[i]) :
              SourceOf(catalog, catalog.query[q].dataset) = bundles[i].connection
        BY <2>1 DEF BundleExact
      <3>2. QED
        BY <1>7, <2>3, <3>1
    <2>9. \A c \in Found(catalog, "connection", b.connection) : ~c.protected
      <3>1. BundleExact(catalog, first, parts[1])
        BY <1>2, <1>4, <2>1
      <3>2. QED
        BY <1>6, <3>1 DEF BundleExact
    <2>10. QED
      BY <1>6, <2>5, <2>6, <2>7, <2>8, <2>9 DEF BundleExact
  <1>13. Describes(b, owner)
    BY <1>6, <1>8, <1>10, <1>11, <1>12 DEF Describes
  <1>14. QED
    BY <1>6, <1>13

-------------------------------------------------------------------------------
(* What a definition reaches is finite, and so are its sources.            *)

LEMMA ImageIsFinite ==
  ASSUME NEW S, IsFiniteSet(S), NEW f, S = DOMAIN f, NEW T, T = {f[x] : x \in S}
  PROVE  IsFiniteSet(T)
  <1>1. PICK g : g = [x \in S |-> f[x]]
    OBVIOUS
  <1>2. g \in Surjection(S, T)
    BY <1>1 DEF Surjection
  <1>3. QED
    BY <1>2, FS_Surjection

LEMMA ElementsAreFinite ==
  ASSUME NEW S, NEW seq \in Seq(S)
  PROVE  IsFiniteSet(Elements(seq))
  <1>1. IsFiniteSet(DOMAIN seq)
    <2>1. PICK n \in Nat : DOMAIN seq = 1..n
      BY LenProperties
    <2>2. IsFiniteSet(1..n)
      BY FS_Interval
    <2>3. QED
      BY <2>1, <2>2
  <1>2. QED
    BY <1>1, ImageIsFinite DEF Elements

(* What a definition needs are the elements of a list of its row.          *)
LEMMA NeedsAreFinite ==
  ASSUME NEW cat, CatalogOK(cat), NEW owner \in Definitions, owner.table # "query"
  PROVE  /\ IsFiniteSet(Needs(cat, owner))
         /\ owner.table = "dashboard" => Needs(cat, owner) \subseteq QueryReads
         /\ Needs(cat, owner) \subseteq QueryReads \union DashboardReads
  <1>1. \/ owner.table = "dashboard" /\ owner.id \in DashboardIds
        \/ owner.table = "report" /\ owner.id \in ReportIds
    BY DEF Definitions, Read
  <1>2. CASE FoundAt(cat, owner) = {}
    <2>1. Needs(cat, owner) = {}
      BY <1>1, <1>2 DEF Needs
    <2>2. QED
      BY <2>1, FS_EmptySet
  <1>3. ASSUME NEW row \in FoundAt(cat, owner) PROVE FoundAt(cat, owner) = {row}
    BY <1>3 DEF FoundAt, Found
  <1>4. CASE owner.table = "dashboard"
    <2>1. SUFFICES ASSUME NEW row \in FoundAt(cat, owner)
                   PROVE  IsFiniteSet(Needs(cat, owner)) /\ Needs(cat, owner) \subseteq QueryReads
      BY <1>2, <1>4
    <2>2. row.widgets \in Widgets
      BY <1>1, <1>4, <2>1, FoundRow DEF FoundAt
    <2>3. PICK reads : reads = WidgetReads(row.widgets)
      OBVIOUS
    <2>4. /\ reads \in Seq(QueryReads)
          /\ Elements(reads) = {Read("query", q) : q \in Elements(row.widgets) \ {None}}
      BY <2>2, <2>3, WidgetReadsList
    <2>5. Elements(reads) = Needs(cat, owner)
      BY <1>3, <1>4, <2>1, <2>4 DEF Needs
    <2>6. QED
      BY <2>4, <2>5, ElementsAreFinite, ListElements
  <1>5. CASE owner.table = "report"
    <2>1. SUFFICES ASSUME NEW row \in FoundAt(cat, owner)
                   PROVE  /\ IsFiniteSet(Needs(cat, owner))
                          /\ Needs(cat, owner) \subseteq QueryReads \union DashboardReads
      BY <1>2, <1>5
    <2>2. row \in ReportRow
      BY <1>1, <1>5, <2>1, FoundRow DEF FoundAt, ReportRow
    <2>3. PICK reads : reads = ReportReads(row)
      OBVIOUS
    <2>4. /\ reads \in Seq(QueryReads \union DashboardReads)
          /\ Elements(reads) =
               {Read("query", q) : q \in ReportQueries(row)} \union
               {Read("dashboard", b) : b \in ReportDashboards(row)}
      BY <2>2, <2>3, ReportReadsList
    <2>5. Elements(reads) = Needs(cat, owner)
      BY <1>3, <1>5, <2>1, <2>4 DEF Needs
    <2>6. QED
      BY <2>4, <2>5, ElementsAreFinite, ListElements
  <1>6. QED
    BY <1>1, <1>4, <1>5

LEMMA UnionIsFinite ==
  ASSUME NEW S, IsFiniteSet(S), NEW f, DOMAIN f = S, \A x \in S : IsFiniteSet(f[x]),
         NEW T, \A y : y \in T <=> \E x \in S : y \in f[x]
  PROVE  IsFiniteSet(T)
  <1>1. PICK parts : parts = {f[x] : x \in S}
    OBVIOUS
  <1>2. IsFiniteSet(parts) /\ \A part \in parts : IsFiniteSet(part)
    BY <1>1, ImageIsFinite
  <1>3. IsFiniteSet(UNION parts)
    BY <1>2, FS_UNION
  <1>4. T = UNION parts
    BY <1>1
  <1>5. QED
    BY <1>3, <1>4

LEMMA ReachIsFinite ==
  ASSUME NEW cat, CatalogOK(cat), NEW d \in Definitions
  PROVE  IsFiniteSet(ReachedQueries(cat, d))
  <1>1. ASSUME NEW t \in QueryReads PROVE IsFiniteSet(ReachedQueries(cat, t))
    <2>1. PICK q : t = Read("query", q)
      BY DEF QueryReads
    <2>2. ReachedQueries(cat, t) = {q}
      BY <2>1, ReachedByQuery
    <2>3. QED
      BY <2>2, FS_Singleton
  <1>2. ASSUME NEW t \in Definitions, t.table # "query",
               \A n \in Needs(cat, t) : IsFiniteSet(ReachedQueries(cat, n))
        PROVE  IsFiniteSet(ReachedQueries(cat, t))
    <2>1. PICK f : f = [n \in Needs(cat, t) |-> ReachedQueries(cat, n)]
      OBVIOUS
    <2>2. \A n \in Needs(cat, t) : IsFiniteSet(f[n])
      BY <1>2, <2>1
    <2>3. \A y : y \in ReachedQueries(cat, t) <=> \E n \in Needs(cat, t) : y \in f[n]
      BY <1>2, <2>1, ReachedByParts
    <2>4. DOMAIN f = Needs(cat, t) /\ IsFiniteSet(Needs(cat, t))
      BY <1>2, <2>1, NeedsAreFinite
    <2>5. QED
      BY <2>2, <2>3, <2>4, UnionIsFinite
  <1>3. ASSUME NEW t \in DashboardReads PROVE IsFiniteSet(ReachedQueries(cat, t))
    <2>1. t \in Definitions /\ t.table = "dashboard"
      BY DEF DashboardReads, Definitions, Read
    <2>2. QED
      BY <1>1, <1>2, <2>1, NeedsAreFinite
  <1>4. d.table = "query" => d \in QueryReads
    BY DEF Definitions, QueryReads, Read
  <1>5. CASE d.table # "query"
    BY <1>1, <1>2, <1>3, <1>5, NeedsAreFinite
  <1>6. QED
    BY <1>1, <1>4, <1>5

LEMMA SourcesAreFinite ==
  ASSUME NEW cat, CatalogOK(cat), NEW d \in Definitions
  PROVE  IsFiniteSet(Sources(cat, d))
  <1>1. PICK ids : ids = ReachedQueries(cat, d)
    OBVIOUS
  <1>2. IsFiniteSet(ids)
    BY <1>1, ReachIsFinite
  <1>3. PICK f : f = [q \in ids |-> SourceOf(cat, cat.query[q].dataset)]
    OBVIOUS
  <1>4. PICK all : all = {f[q] : q \in ids}
    OBVIOUS
  <1>5. IsFiniteSet(all)
    BY <1>2, <1>3, <1>4, ImageIsFinite
  <1>6. Sources(cat, d) \subseteq all
    BY <1>1, <1>3, <1>4 DEF Sources, Here
  <1>7. QED
    BY <1>5, <1>6, FS_Subset

LEMMA TwoMembers ==
  ASSUME NEW S, IsFiniteSet(S), NEW x \in S, NEW y \in S, x # y
  PROVE  Cardinality(S) > 1
  <1>1. Cardinality(S) \in Nat
    BY FS_CardinalityType
  <1>2. Cardinality(S) # 0
    BY FS_EmptySet
  <1>3. Cardinality(S) # 1
    BY FS_Singleton
  <1>4. QED
    BY <1>1, <1>2, <1>3

(* Two sources among the bundles to be merged are two sources of what was  *)
(* asked for.                                                              *)
LEMMA SeveralSources ==
  ASSUME CatalogOK(catalog), asked \in Definitions, edits = 0,
         NEW bundles \in Seq(Bundle), NEW parts \in Seq(Definitions),
         Stands(bundles, parts), NEW owner \in Definitions,
         Referred(owner, parts), PartOf(owner), ~OneSource(bundles)
  PROVE  "multiple_sources_not_supported" \in SourceProblems(catalog, asked)
  <1>1. PICK n : n = Len(bundles)
    OBVIOUS
  <1>2. /\ DOMAIN bundles = 1..n
        /\ \A i \in 1..n : /\ bundles[i] \in Bundle /\ Describes(bundles[i], parts[i])
                           /\ parts[i] \in Definitions /\ parts[i] \in Elements(parts)
        /\ owner.table # "query"
    BY <1>1, PartBundles
  <1>3. PICK i \in 1..n, j \in 1..n : bundles[i].connection # bundles[j].connection
    BY <1>2 DEF OneSource
  <1>4. ASSUME NEW b \in Bundle, NEW t \in Elements(parts), Describes(b, t)
        PROVE  b.connection \in Sources(catalog, asked)
    <2>1. PICK q : q = b.queries[1]
      OBVIOUS
    <2>2. q \in Elements(b.queries) /\ Held(catalog, "query", q)
      BY <1>4, <2>1, BundleRows DEF Describes, BundleHeld
    <2>3. /\ q \in ReachedQueries(catalog, t)
          /\ SourceOf(catalog, catalog.query[q].dataset) = b.connection
      BY <1>4, <2>2 DEF Describes, BundleExact
    <2>4. t \in Needs(catalog, owner)
      BY DEF Referred
    <2>5. q \in ReachedQueries(catalog, owner)
      BY <1>2, <2>3, <2>4, ReachedByParts
    <2>6. q \in ReachedQueries(catalog, asked)
      BY <2>5 DEF PartOf
    <2>7. QED
      BY <2>2, <2>3, <2>6, SourceOfQuery
  <1>5. /\ bundles[i].connection \in Sources(catalog, asked)
        /\ bundles[j].connection \in Sources(catalog, asked)
    BY <1>2, <1>4
  <1>6. Cardinality(Sources(catalog, asked)) > 1
    <2>1. IsFiniteSet(Sources(catalog, asked))
      BY SourcesAreFinite
    <2>2. QED
      BY <1>3, <1>5, <2>1, TwoMembers
  <1>7. QED
    BY <1>6 DEF SourceProblems, Code

LEMMA MergePartialsKeeps ==
  ASSUME BridgeInv, UNCHANGED <<readinessVars, bridgeVars>>, MergePartials
  PROVE  BridgeInv'
  <1>1. pending # <<>> /\ Head(pending).table = "merge" /\ UNCHANGED failed
    BY DEF MergePartials, Due
  <1>2. PICK w, all : w = Head(pending) /\ all = partials
    OBVIOUS
  <1>3. /\ w \in Work /\ Justified(w) /\ CatalogOK(catalog) /\ all \in Seq(Bundle)
        /\ chain \in ChainType /\ failed \in BOOLEAN /\ asked \in Definitions
        /\ pending \in Seq(Work) /\ Tail(pending) \in Seq(Later)
    <2>1. asked \in Definitions
      BY DEF BridgeInv, WalkInv, ReadinessTypeOK
    <2>2. QED
      BY <1>1, <1>2, <2>1, HeadOfPending
  <1>4. w.table = "merge" /\ w.id \in Definitions /\ w.count \in Nat \ {0}
    BY <1>1, <1>2, <1>3, WorkTables
  <1>5. PICK owner : owner = w.id
    OBVIOUS
  <1>6. owner \in Definitions /\ PartOf(owner) /\ Held(catalog, owner.table, owner.id)
    BY <1>3, <1>4, <1>5 DEF Justified
  <1>7. PICK stack : Plan(stack) /\ Stands(partials, stack[0])
    BY <1>1, HeadOfPending
  <1>8. PICK before, after : before = stack[0] /\ after = stack[1]
    OBVIOUS
  <1>9. Advance(w, before, after) /\ before \in Seq(Definitions)
    BY <1>1, <1>2, <1>3, <1>7, <1>8, HeadAdvances
  <1>10. PICK kept \in Seq(Definitions), parts \in Seq(Definitions) :
           /\ before = kept \o parts /\ Len(parts) = w.count
           /\ after = Append(kept, owner)
           /\ Referred(owner, parts)
    BY <1>4, <1>5, <1>9 DEF Advance
  <1>11. parts # <<>>
    BY <1>4, <1>10
  <1>12. PICK k, low, high : /\ k = Len(all) - w.count
                             /\ low = SubSeq(all, 1, k)
                             /\ high = SubSeq(all, k + 1, Len(all))
    OBVIOUS
  <1>13. /\ low \in Seq(Bundle) /\ high \in Seq(Bundle)
         /\ Stands(low, kept) /\ Stands(high, parts)
    <2>1. Stands(all, before)
      BY <1>2, <1>7, <1>8
    <2>2. k = Len(all) - Len(parts) /\ before = kept \o parts
      BY <1>10, <1>12
    <2>3. Splits(all, k, low, high)
      BY <1>12 DEF Splits
    <2>4. /\ low \in Seq(Bundle) /\ high \in Seq(Bundle)
          /\ Len(low) = Len(kept) /\ Len(high) = Len(parts)
          /\ Stands(low, kept) /\ Stands(high, parts)
      BY <1>3, <2>1, <2>2, <2>3, SplitStands
    <2>5. QED
      BY <2>4
  <1>14. \/ /\ OneSource(high) /\ GoOn(<<>>) /\ UNCHANGED <<chain, blocked>>
            /\ partials' = Append(low, Owned(Merged(high), owner))
         \/ ~OneSource(high) /\ Unresolved("multiple_sources_not_supported")
    BY <1>2, <1>5, <1>12 DEF MergePartials
  <1>15. CASE ~OneSource(high) /\ Unresolved("multiple_sources_not_supported")
    <2>1. edits = 0 => "multiple_sources_not_supported" \in SourceProblems(catalog, asked)
      BY <1>3, <1>6, <1>10, <1>13, <1>15, SeveralSources
    <2>2. "multiple_sources_not_supported" \in SourceCodes
      BY DEF SourceCodes
    <2>3. QED
      BY <1>1, <1>15, <2>1, <2>2, SourceEnds
  <1>16. CASE /\ OneSource(high) /\ GoOn(<<>>) /\ UNCHANGED <<chain, blocked>>
              /\ partials' = Append(low, Owned(Merged(high), owner))
    <2>1. PICK b : b = Owned(Merged(high), owner)
      OBVIOUS
    <2>2. b \in Bundle /\ Describes(b, owner)
      BY <1>6, <1>10, <1>11, <1>13, <1>16, <2>1, MergedDescribes
    <2>3. Stands(partials, Append(kept, owner))' /\ partials' \in Seq(Bundle)
      BY <1>6, <1>13, <1>16, <2>1, <2>2, StandsGrows
    <2>4. pending' = <<>> \o Tail(pending)
      BY <1>16 DEF GoOn
    <2>5. PendingInv' /\ pending' \in Seq(Work)
      BY <1>1, <1>16, <2>4, PendingPops
    <2>6. PICK next : Plan(next)' /\ next[0] = after
      BY <1>1, <1>3, <1>7, <1>8, <2>4, PopPlan DEF readinessVars, evaluation
    <2>7. \E to : (Plan(to) /\ Stands(partials, to[0]))'
      BY <1>10, <2>3, <2>6
    <2>8. QED
      BY <1>1, <1>3, <1>16, <2>3, <2>5, <2>7, ResolutionGoesOn
  <1>17. QED
    BY <1>14, <1>15, <1>16

(* The resolution keeps to its plan.                                       *)
LEMMA ResolveReferencesKeeps == BridgeInv /\ ResolveReferences => BridgeInv'
  BY LookUpQueryKeeps, ResolveQueryKeeps, ResolveDatasetKeeps, ResolveMappingsKeeps,
     ResolveConnectionKeeps, ResolveDashboardKeeps, ResolveReportKeeps, MergePartialsKeeps
  DEF ResolveReferences, Resolve

-------------------------------------------------------------------------------
(* The command.                                                            *)

(* When all is resolved, one bundle is left: that of what was asked for.   *)
LEMMA OneBundle ==
  ASSUME BridgeInv, Resolving, pending = <<>>
  PROVE  /\ Len(partials) = 1 /\ partials[1] \in Bundle
         /\ Describes(partials[1], asked)
         /\ asked \in Definitions /\ asked.table \in {"query", "dashboard", "report"}
  <1>1. PICK stack : Plan(stack) /\ Stands(partials, stack[0])
    BY DEF BridgeInv
  <1>2. PICK definitions : definitions = stack[0]
    OBVIOUS
  <1>3. definitions = <<asked>>
    BY <1>1, <1>2 DEF Plan
  <1>4. Len(definitions) = 1 /\ definitions[1] = asked
    BY <1>3
  <1>5. Len(partials) = 1 /\ Describes(partials[1], asked)
    BY <1>1, <1>2, <1>4 DEF Stands
  <1>6. partials[1] \in Bundle
    BY <1>5 DEF Describes
  <1>7. asked \in Definitions
    BY DEF BridgeInv, WalkInv, ReadinessTypeOK
  <1>8. asked.table \in {"query", "dashboard", "report"}
    BY <1>7 DEF Definitions, Read
  <1>9. QED
    BY <1>5, <1>6, <1>7, <1>8

LEMMA CommandType ==
  ASSUME NEW b \in Bundle, b.queries # <<>>, b.mappings # <<>>,
         asked.table \in {"query", "dashboard", "report"},
         NEW own \in [dashboard : OptionalDashboard, report : ReportIds \union {None}],
         NEW mode \in Modes
  PROVE  BuildCommand(b, own, mode) \in Commands
  <1>1. /\ b.queries \in Seq(QueryIds) /\ b.dashboards \in Seq(DashboardIds)
        /\ b.reports \in Seq(ReportIds) /\ b.mappings \in Seq(MappingIds)
        /\ b.dataset \in DatasetIds /\ b.connection \in ConnectionIds
    BY DEF Bundle
  <1>2. b.queries[1] \in QueryIds /\ b.mappings[1] \in MappingIds
    BY <1>1, EmptySeq, LenProperties, ElementOfSeq
  <1>3. FirstOf(b.dashboards, own.dashboard) \in OptionalDashboard
    <2>1. b.dashboards # <<>> => b.dashboards[1] \in DashboardIds
      BY <1>1, EmptySeq, LenProperties, ElementOfSeq
    <2>2. QED
      BY <2>1 DEF FirstOf, OptionalDashboard
  <1>4. FirstOf(b.reports, own.report) \in ReportIds \union {None}
    <2>1. b.reports # <<>> => b.reports[1] \in ReportIds
      BY <1>1, EmptySeq, LenProperties, ElementOfSeq
    <2>2. QED
      BY <2>1 DEF FirstOf
  <1>5. Capability(asked.table, mode) \in {"validate_mapping", "execute_query_preview",
                                          "refresh_dashboard_data", "generate_report_preview"}
    BY DEF Capability
  <1>6. ConnectorMode(mode) \in {"dry_run", "demo", "preview"}
    BY DEF ConnectorMode, Modes
  <1>7. QED
    BY <1>1, <1>2, <1>3, <1>4, <1>5, <1>6 DEF BuildCommand, Commands

LEMMA PrepareCommandKeeps == BridgeInv /\ PrepareCommand => BridgeInv'
  <1> SUFFICES ASSUME BridgeInv, PrepareCommand PROVE BridgeInv'
    OBVIOUS
  <1>1. /\ stage = "references" /\ pending = <<>> /\ blocked = None
        /\ UNCHANGED <<readinessVars, resolverVars>>
    BY DEF PrepareCommand
  <1>2. UNCHANGED <<todo, blockers, asked, pending, chain, partials, blocked, failed>>
    BY <1>1 DEF readinessVars, evaluation, resolverVars
  <1>3. todo = <<>> /\ blockers = {} /\ failed \in BOOLEAN
    BY <1>1 DEF BridgeInv, StageInv
  <1>4. Resolving
    BY <1>1 DEF Resolving
  <1>5. PICK own \in [dashboard : OptionalDashboard, report : ReportIds \union {None}],
             mode \in Modes, valid \in BOOLEAN :
          command' = BuildCommand(partials[1], own, mode) /\ ValidateCommand(valid)
    BY DEF PrepareCommand
  <1>6. command' # None
    <2>1. PICK b : b = partials[1]
      OBVIOUS
    <2>2. /\ b \in Bundle /\ b.queries # <<>> /\ b.mappings # <<>>
          /\ asked.table \in {"query", "dashboard", "report"}
      BY <1>1, <1>4, <2>1, OneBundle DEF Describes
    <2>3. command' \in Commands
      BY <1>5, <2>1, <2>2, CommandType
    <2>4. QED
      BY <2>3, CodesAssumption
  <1>7. command' = BuildCommand(partials[1], own, mode)'
    BY <1>2, <1>5 DEF BuildCommand
  <1>8. /\ verdict' \in {"command_validation_failed", "command_prepared"}
        /\ stage' = "concluded"
    BY <1>5 DEF ValidateCommand, Conclude, Become
  <1>9. StageInv'
    BY <1>1, <1>2, <1>3, <1>6, <1>7, <1>8 DEF StageInv
  <1>10. QED
    BY <1>1, <1>2, <1>3, <1>4, <1>8, <1>9, StageKeeps

(* What the bridge knows at every moment: how far the walk has come, and   *)
(* what the program that is left of the resolution is going to do with     *)
(* the bundles that it has so far.                                         *)
LEMMA StepKeepsBridge == BridgeInv /\ [Next]_vars => BridgeInv'
  BY ReadRequestKeeps, EvaluateReadinessKeeps, JudgeReadinessKeeps, ResolveReferencesKeeps,
     BlockOnReferencesKeeps, PrepareCommandKeeps, FailReadKeeps, EditKeepsBridge, StutterKeeps
  DEF Next, Step

LEMMA BridgeAlways == Spec => []BridgeInv
  BY BridgeBegins, StepKeepsBridge, PTL DEF Spec

-------------------------------------------------------------------------------
(* What follows for whoever receives the result.                           *)

(* A command is built of the one bundle that describes what was asked for. *)
LEMMA CommandOfBundle ==
  ASSUME BridgeInv, command # None, NEW b, b = partials[1]
  PROVE  /\ Len(partials) = 1 /\ b \in Bundle /\ Describes(b, asked)
         /\ asked \in Definitions /\ asked.table \in {"query", "dashboard", "report"}
         /\ command \in Commands
         /\ command.dataset = b.dataset /\ command.connection = b.connection
         /\ command.query = b.queries[1] /\ command.mapping = b.mappings[1]
         /\ command[asked.table] = asked.id
  <1>1. pending = <<>> /\ Resolving
    BY DEF BridgeInv, StageInv, Resolving, Untouched
  <1>2. /\ Len(partials) = 1 /\ b \in Bundle /\ Describes(b, asked)
        /\ asked \in Definitions /\ asked.table \in {"query", "dashboard", "report"}
    BY <1>1, OneBundle
  <1>3. PICK own \in [dashboard : OptionalDashboard, report : ReportIds \union {None}],
             mode \in Modes : command = BuildCommand(b, own, mode)
    BY DEF BridgeInv, StageInv
  <1>4. command \in Commands
    BY <1>2, <1>3, CommandType DEF Describes
  <1>5. /\ command.dataset = b.dataset /\ command.connection = b.connection
        /\ command.query = b.queries[1] /\ command.mapping = b.mappings[1]
        /\ command.dashboard = FirstOf(b.dashboards, own.dashboard)
        /\ command.report = FirstOf(b.reports, own.report)
    BY <1>3 DEF BuildCommand
  <1>6. BundleNames(b, asked)
    BY <1>2 DEF Describes
  <1>7. ASSUME asked.table = "query" PROVE command[asked.table] = asked.id
    <2>1. b.queries = <<asked.id>>
      BY <1>6, <1>7 DEF BundleNames
    <2>2. b.queries # <<>> /\ b.queries[1] = asked.id
      BY <2>1
    <2>3. command.query = asked.id
      BY <1>5, <2>2
    <2>4. QED
      BY <1>7, <2>3
  <1>8. ASSUME asked.table = "dashboard" PROVE command[asked.table] = asked.id
    <2>1. b.dashboards = <<asked.id>>
      BY <1>6, <1>8 DEF BundleNames
    <2>2. b.dashboards # <<>> /\ b.dashboards[1] = asked.id
      BY <2>1
    <2>3. command.dashboard = asked.id
      BY <1>5, <2>2 DEF FirstOf
    <2>4. QED
      BY <1>8, <2>3
  <1>9. ASSUME asked.table = "report" PROVE command[asked.table] = asked.id
    <2>1. b.reports = <<asked.id>>
      BY <1>6, <1>9 DEF BundleNames
    <2>2. b.reports # <<>> /\ b.reports[1] = asked.id
      BY <2>1
    <2>3. command.report = asked.id
      BY <1>5, <2>2 DEF FirstOf
    <2>4. QED
      BY <1>9, <2>3
  <1>10. command[asked.table] = asked.id
    BY <1>2, <1>7, <1>8, <1>9
  <1>11. QED
    BY <1>2, <1>4, <1>5, <1>10

LEMMA TypesOfBridge == BridgeInv => BridgeTypeOK
  <1> SUFFICES ASSUME BridgeInv PROVE BridgeTypeOK
    OBVIOUS
  <1>1. ReadinessTypeOK
    BY DEF BridgeInv, WalkInv
  <1>2. ResolverTypeOK
    <2>1. ASSUME NEW w \in Work
          PROVE  \/ w \in Task
                 \/ w \in [table : {"lookup"}, id : QueryIds]
                 \/ w \in [table : {"connection"}, id : ConnectionIds]
                 \/ w \in [table : {"merge"}, id : Definitions, count : Nat \ {0}]
      BY DEF Work, LookupReads, Lookup, ConnectionReads, Read, Merges, Merge
    <2>2. \A i \in DOMAIN pending : pending[i] \in Work
      BY ElementOfSeq, LenProperties DEF BridgeInv
    <2>3. chain.query \in OptionalQuery
      BY DEF BridgeInv, ChainType
    <2>4. QED
      BY <2>1, <2>2, <2>3 DEF BridgeInv, ResolverTypeOK
  <1>3. /\ verdict \in Codes \union {None}
        /\ Concluded <=> (verdict # None)
        /\ (command # None) <=>
             (verdict \in {"command_validation_failed", "command_prepared"})
    BY CodesAssumption DEF BridgeInv, StageInv, Concluded, Codes
  <1>4. command \in Commands \union {None} /\ (command # None => Len(partials) = 1)
    BY CommandOfBundle
  <1>5. QED
    BY <1>1, <1>2, <1>3, <1>4 DEF BridgeInv, BridgeTypeOK

LEMMA BlockersWereThere == BridgeInv => ReadyStaysReady
  BY DEF BridgeInv, StageInv, BlockedInv, SourceCodes, ReadyStaysReady, Concluded

LEMMA ElementsToSet == \A seq : ToSet(seq) = Elements(seq)
  BY DEF ToSet, Elements

LEMMA RowsOfTenant == BridgeInv => CommandStaysInTenant
  <1> SUFFICES ASSUME BridgeInv, Resolved PROVE CommandStaysInTenant
    BY DEF CommandStaysInTenant
  <1>1. PICK b : b = partials[1]
    OBVIOUS
  <1>2. /\ BundleHeld(catalog, b)
        /\ command.dataset = b.dataset /\ command.connection = b.connection
        /\ command[asked.table] = asked.id
    BY <1>1, CommandOfBundle DEF Resolved, Describes
  <1>3. QED
    BY <1>1, <1>2, ElementsToSet DEF CommandStaysInTenant, BundleHeld, Held

LEMMA PartsFit == BridgeInv => PartsBelongTogether
  <1> SUFFICES ASSUME BridgeInv, Resolved, ~repointed PROVE PartsBelongTogether
    BY DEF PartsBelongTogether
  <1>1. PICK b : b = partials[1]
    OBVIOUS
  <1>2. /\ BundleFits(catalog, b)
        /\ command.dataset = b.dataset /\ command.connection = b.connection
        /\ command.query = b.queries[1] /\ command.mapping = b.mappings[1]
    BY <1>1, CommandOfBundle DEF Resolved, Describes
  <1>3. QED
    BY <1>1, <1>2, ElementsToSet DEF PartsBelongTogether, BundleFits, OffersOf, DatasetOf

(* All queries of a bundle that is exact have one usable source.           *)
LEMMA OneUsableSource ==
  ASSUME NEW cat, NEW d, NEW b \in Bundle, BundleExact(cat, b, d), BundleHeld(cat, b)
  PROVE  SourceProblems(cat, d) = {}
  <1>1. PICK c : c = b.connection
    OBVIOUS
  <1>2. c # None /\ Found(cat, "connection", c) # {}
        /\ \A row \in Found(cat, "connection", c) : ~row.protected
    <2>1. c \in ConnectionIds /\ Held(cat, "connection", c)
      BY <1>1 DEF Bundle, BundleHeld
    <2>2. None \notin ConnectionIds
      BY AbsenceAssumption DEF Tables, Rows, Ids
    <2>3. QED
      BY <1>1, <2>1, <2>2, HeldRow DEF BundleExact
  <1>3. Sources(cat, d) \subseteq {c}
    <2>1. ASSUME NEW row \in Here(cat, "query", ReachedQueries(cat, d))
          PROVE  SourceOf(cat, row.dataset) = c
      <3>1. PICK q \in ReachedQueries(cat, d) : row = cat.query[q]
        BY DEF Here
      <3>2. QED
        BY <1>1, <3>1 DEF BundleExact
    <2>2. QED
      BY <2>1 DEF Sources
  <1>4. None \notin Sources(cat, d) /\ ~(Cardinality(Sources(cat, d)) > 1)
    <2>1. IsFiniteSet({c}) /\ Cardinality({c}) = 1
      BY FS_Singleton
    <2>2. IsFiniteSet(Sources(cat, d)) /\ Cardinality(Sources(cat, d)) <= 1
      BY <1>3, <2>1, FS_Subset
    <2>3. Cardinality(Sources(cat, d)) \in Nat
      BY <2>2, FS_CardinalityType
    <2>4. QED
      BY <1>2, <1>3, <2>2, <2>3
  <1>5. PICK known : known = Sources(cat, d) \ {None}
    OBVIOUS
  <1>6. /\ ~Gone(cat, "connection", known)
        /\ \A row \in Here(cat, "connection", known) : ~row.protected
    <2>1. \A id \in known : id = c
      BY <1>3, <1>5
    <2>2. ~Gone(cat, "connection", known)
      BY <1>2, <2>1, HereFound
    <2>3. ASSUME NEW row \in Here(cat, "connection", known)
          PROVE  row \in Found(cat, "connection", c)
      BY <2>1, HereFound
    <2>4. QED
      BY <1>2, <2>2, <2>3
  <1>7. QED
    BY <1>4, <1>5, <1>6 DEF SourceProblems, Code

LEMMA ResolutionIsExact == BridgeInv => ResolutionMatchesCatalog
  <1> SUFFICES ASSUME BridgeInv, Concluded, edits = 0, ~failed,
                      verdict # "execution_request_not_found"
               PROVE  ResolutionMatchesCatalog
    BY DEF ResolutionMatchesCatalog
  <1>1. todo = <<>>
    BY DEF BridgeInv, StageInv, Concluded
  <1>2. blockers = Blocking(catalog, asked)
    BY <1>1, WalkInvMatches DEF BridgeInv, WalkMatchesCatalog, Done
  <1>3. PICK problems, ready, b : /\ problems = SourceProblems(catalog, asked)
                                  /\ ready = (Blocking(catalog, asked) = {})
                                  /\ b = partials[1]
    OBVIOUS
  <1>4. command = None => ~(ready /\ problems = {})
    BY <1>2, <1>3 DEF BridgeInv, StageInv, BlockedInv, Concluded
  <1>5. verdict = "references_blocked" => ready /\ blocked \in problems
    BY <1>2, <1>3 DEF BridgeInv, StageInv, BlockedInv, Concluded
  <1>6. ASSUME command # None
        PROVE  b \in Bundle /\ BundleExact(catalog, b, asked) /\ BundleHeld(catalog, b)
    BY <1>3, <1>6, CommandOfBundle DEF Describes
  <1>7. command # None => ready /\ problems = {}
    <2>1. command # None => blockers = {}
      BY DEF BridgeInv, StageInv, Concluded
    <2>2. QED
      BY <1>2, <1>3, <1>6, <2>1, OneUsableSource
  <1>8. PICK queries, keys :
          /\ queries = ReachedQueries(catalog, asked)
          /\ keys = {catalog.dataset[catalog.query[q].dataset].key : q \in queries}
    OBVIOUS
  <1>9. ASSUME command # None
        PROVE  /\ ToSet(b.queries) = queries
               /\ ToSet(b.dashboards) = ReachedDashboards(catalog, asked)
               /\ ToSet(b.mappings) = UNION {FoundMappings(catalog, k) : k \in keys}
               /\ IsInjective(b.queries) /\ IsInjective(b.mappings)
    <2>1. BundleExact(catalog, b, asked)
      BY <1>6, <1>9
    <2>2. /\ \A q : q \in Elements(b.queries) <=> q \in queries
          /\ \A x : x \in Elements(b.dashboards) <=> x \in ReachedDashboards(catalog, asked)
          /\ IsInjective(b.queries) /\ IsInjective(b.mappings)
      BY <1>8, <2>1 DEF BundleExact
    <2>3. \A m : m \in Elements(b.mappings) <=>
                   m \in UNION {FoundMappings(catalog, k) : k \in keys}
      BY <1>8, <2>1 DEF BundleExact, DatasetOf
    <2>4. QED
      BY <2>2, <2>3, ElementsToSet
  <1>10. QED
    BY <1>3, <1>4, <1>5, <1>7, <1>8, <1>9 DEF ResolutionMatchesCatalog, Resolved, Concluded

(* State, result and command have their types, and a result is there       *)
(* exactly when the preparation is concluded.                              *)
(* (RuntimeConnectorBridgeResolver.prepareCommand.)                        *)
THEOREM BridgeTypesHold == Spec => []BridgeTypeOK
  BY BridgeAlways, TypesOfBridge, PTL

(* Left alone, a command is prepared exactly if the definition is ready    *)
(* and its queries have one open connection in common; what is named as a  *)
(* blocker is there, and the references are complete, for any catalogue.   *)
(* (RuntimeConnectorReferenceResolver.resolveReferences.)                  *)
THEOREM ResolutionFindsTheCatalog == Spec => []ResolutionMatchesCatalog
  BY BridgeAlways, ResolutionIsExact, PTL

(* Whatever is edited between the reads, no row of another tenant is       *)
(* resolved into a command.  (The catalogue's readers, and buildCommand.)  *)
THEOREM CommandsStayInTenant == Spec => []CommandStaysInTenant
  BY BridgeAlways, RowsOfTenant, PTL

(* While no reference is changed, what was read at different moments       *)
(* belongs together.  (resolveDatasetChain, mergePartials.)                *)
THEOREM CommandPartsFit == Spec => []PartsBelongTogether
  BY BridgeAlways, PartsFit, PTL

(* What the evaluation found, the resolution does not miss, while          *)
(* definitions are created and statuses change.  (prepareCommand.)         *)
THEOREM ReadinessIsNotLost == Spec => []ReadyStaysReady
  BY BridgeAlways, BlockersWereThere, PTL

===============================================================================
