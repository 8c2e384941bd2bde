---------------------- MODULE ExecutionLifecycle_proofs ----------------------
(***************************************************************************)
(* Theorems of ExecutionLifecycle, for any set of concurrent calls, any    *)
(* tenants and any set of calls that are cut short.                        *)
(***************************************************************************)
EXTENDS ExecutionLifecycle, TLAPS

(* How far a call has come fixes what it knows: the operation it serves,   *)
(* the row it holds, the status it resolved.                               *)
ControlOK ==
  \A c \in Calls :
    /\ pc[c] # "idle" => /\ call[c] \in CallInput
                         /\ call[c].op = "event" => call[c].type # None
                         /\ call[c].op = "create" => Target(c) = c
    /\ pc[c] \in {"insert", "initial_event", "audit_created"} =>
         call[c].op = "create"
    /\ pc[c] \in {"find", "update", "event", "audit_operation", "audit_status"} =>
         call[c].op # "create"
    /\ At(c, "evaluate") => call[c].op \in {"dry_run", "demo"}
    /\ Serving(c) => seen[c] \in Row /\ seen[c].tenant = call[c].tenant
    /\ Serving(c) /\ ~At(c, "evaluate") /\ call[c].op # "event" =>
         next[c] \in {"accepted", "blocked", "completed_demo"}
    /\ At(c, "update") => Changed(c)

(* TypeOK is not inductive without it.                                     *)
Base == TypeOK /\ ControlOK

(* The record types, unfolded wherever a row or an entry is built.         *)
LEMMA EventTyped ==
  ASSUME NEW c \in Calls, Base,
         pc[c] \in {"initial_event", "event", "audit_created", "audit_event",
                    "audit_operation", "audit_status"}
  PROVE  /\ EventOf(c) \in Event
         /\ EventNext(c) \in Statuses
         /\ EventPrev(c) \in Statuses \union {None}
  <1>1. /\ call[c] \in CallInput /\ seen[c] \in Row
        /\ call[c].op = "event" => call[c].type # None
        /\ next[c] \in Statuses \union {None}
    BY DEF Base, TypeOK, ControlOK, Serving, Running, Optional
  <1>2. call[c].op # "event" =>
          next[c] \in {"accepted", "blocked", "completed_demo"}
    BY DEF Base, ControlOK, Serving, Running, At
  <1>3. EventNext(c) \in Statuses /\ EventPrev(c) \in Statuses \union {None}
    BY <1>1 DEF EventNext, EventPrev, Row
  <1>4. EventType(c) \in EventTypes
    BY <1>1, <1>2 DEF EventType, EventTypes, CallInput
  <1>5. QED
    BY <1>1, <1>3, <1>4 DEF EventOf, Event, Row

LEMMA EntryTyped ==
  ASSUME NEW c \in Calls, Base, NEW action \in AuditActions,
         NEW prev \in Statuses \union {None},
         pc[c] \in {"audit_created", "audit_event", "audit_operation",
                    "audit_status"}
  PROVE  Entry(c, action, prev) \in AuditEntry
  <1>1. call[c] \in CallInput /\ seen[c] \in Row
    BY DEF Base, ControlOK, Serving, Running
  <1>2. EventNext(c) \in Statuses
    BY EventTyped
  <1>3. QED
    BY <1>1, <1>2 DEF Entry, AuditEntry, CallInput, Row, Target

----------------------------------------------------------------------------
LEMMA BaseInit == Init => Base
  BY DEF Init, Base, TypeOK, ControlOK, Requests, Running, Ended, Serving, At,
         Optional

(* A call arrives with its input and comes to its first statement, or is   *)
(* refused.  Whoever makes it: over HTTP, or from within the program.      *)
Arrives(c, input, step) ==
  /\ At(c, "idle")
  /\ input \in CallInput
  /\ input.op = "event" => input.type # None
  /\ input.op = "create" => input.request = c
  /\ step \in {"insert", "find", "rejected"}
  /\ step = "insert" => input.op = "create"
  /\ step = "find" => input.op # "create"
  /\ call' = [call EXCEPT ![c] = input]
  /\ Goto(c, step)
  /\ UNCHANGED <<tables, seen, next, history>>

Moves(c) == (\E input, step : Arrives(c, input, step)) \/ Step(c) \/ Abort(c)

LEMMA ReceiveArrives ==
  ASSUME NEW c \in Calls, Receive(c)
  PROVE  \E input, step : Arrives(c, input, step)
  <1>1. CASE ReceiveCreate(c)
    <2>1. PICK t \in Tenants, a \in ActorShapes, step \in {"insert", "rejected"} :
            /\ At(c, "idle")
            /\ call' = [call EXCEPT ![c] =
                          [op |-> "create", tenant |-> t, request |-> c,
                           type |-> None, next |-> None, actor |-> a]]
            /\ Goto(c, step)
            /\ UNCHANGED <<tables, seen, next, history>>
      BY <1>1 DEF ReceiveCreate
    <2> DEFINE input == [op |-> "create", tenant |-> t, request |-> c,
                         type |-> None, next |-> None, actor |-> a]
    <2>2. input \in CallInput
      BY DEF CallInput, Requests
    <2>3. Arrives(c, input, step)
      BY <2>1, <2>2 DEF Arrives
    <2>4. QED
      BY <2>3
  <1>2. CASE ReceiveEvent(c)
    <2>1. PICK t \in Tenants, r \in Requests, a \in ActorShapes, given \in EventInputs :
            /\ At(c, "idle")
            /\ call' = [call EXCEPT ![c] =
                          [op |-> "event", tenant |-> t, request |-> r,
                           type |-> given.type, next |-> given.next, actor |-> a]]
            /\ Goto(c, "find")
            /\ UNCHANGED <<tables, seen, next, history>>
      BY <1>2 DEF ReceiveEvent
    <2> DEFINE input == [op |-> "event", tenant |-> t, request |-> r,
                         type |-> given.type, next |-> given.next, actor |-> a]
    <2>2. input \in CallInput /\ input.type # None
      BY NoneAssumption, EventInputsAssumption DEF CallInput
    <2>3. Arrives(c, input, "find")
      BY <2>1, <2>2 DEF Arrives
    <2>4. QED
      BY <2>3
  <1>3. CASE ReceiveReadiness(c)
    <2>1. PICK t \in Tenants, r \in Requests, a \in ActorShapes,
               op \in {"dry_run", "demo"}, step \in {"find", "rejected"} :
            /\ At(c, "idle")
            /\ call' = [call EXCEPT ![c] =
                          [op |-> op, tenant |-> t, request |-> r,
                           type |-> None, next |-> None, actor |-> a]]
            /\ Goto(c, step)
            /\ UNCHANGED <<tables, seen, next, history>>
      BY <1>3 DEF ReceiveReadiness
    <2> DEFINE input == [op |-> op, tenant |-> t, request |-> r,
                         type |-> None, next |-> None, actor |-> a]
    <2>2. input \in CallInput
      BY DEF CallInput
    <2>3. Arrives(c, input, step)
      BY <2>1, <2>2 DEF Arrives
    <2>4. QED
      BY <2>3
  <1>4. QED
    BY <1>1, <1>2, <1>3 DEF Receive

LEMMA NextMoves == [Next]_vars => (\E c \in Calls : Moves(c)) \/ UNCHANGED vars
  BY ReceiveArrives DEF Next, Moves

LEMMA BaseArrives ==
  ASSUME Base, NEW c \in Calls, NEW input, NEW step, Arrives(c, input, step)
  PROVE  Base'
  BY DEF Base, TypeOK, ControlOK, Arrives, At, Goto, Requests, Optional,
         CallInput, tables, history, Running, Ended, Serving, Target, Changed,
         Changes

LEMMA BaseAppendEvent ==
  ASSUME Base, NEW c \in Calls, NEW step \in {"audit_created", "audit_event"},
         pc[c] \in {"initial_event", "event"}, AppendEvent(c), Goto(c, step),
         step = "audit_created" => call[c].op = "create",
         UNCHANGED <<requests, audit, call, seen, next, history>>
  PROVE  Base'
  <1>1. EventOf(c) \in Event
    BY EventTyped
  <1>2. Target(c) \in Requests
    BY DEF Base, ControlOK, CallInput, Target
  <1>3. TypeOK'
    <2>1. timeline' \in [Requests -> Seq(Event)]
      BY <1>1, <1>2 DEF AppendEvent, Base, TypeOK
    <2>2. pc' \in [Calls -> {"idle"} \union Running \union Ended]
      BY DEF Goto, Base, TypeOK, Running
    <2>3. QED
      BY <2>1, <2>2 DEF Base, TypeOK, history
  <1>4. ControlOK'
    BY DEF Base, TypeOK, ControlOK, At, Goto, Serving, Running, Target, Changed
  <1>5. QED
    BY <1>3, <1>4 DEF Base

LEMMA BaseRecordAudit ==
  ASSUME Base, NEW c \in Calls, NEW action \in AuditActions,
         NEW prev \in Statuses \union {None},
         NEW step \in {"audit_event", "audit_operation", "audit_status", "ok"},
         pc[c] \in {"audit_created", "audit_event", "audit_operation",
                    "audit_status"},
         step \in {"audit_operation", "audit_status"} => call[c].op # "create",
         RecordAudit(c, action, prev, step)
  PROVE  Base'
  <1>1. Entry(c, action, prev) \in AuditEntry
    BY EntryTyped
  <1>2. UNCHANGED <<requests, timeline, call, seen, next, replaced, held, orderly>>
    BY DEF RecordAudit, history
  <1>3. audit' \subseteq AuditEntry
    BY <1>1 DEF RecordAudit, Base, TypeOK
  <1>4. \E end \in {step, "error"} : Goto(c, end)
    BY DEF RecordAudit
  <1>5. PICK end \in {step, "error"} : pc' = [pc EXCEPT ![c] = end]
    BY <1>4 DEF Goto
  <1>6. TypeOK'
    BY <1>2, <1>3, <1>5 DEF Base, TypeOK, Running, Ended
  <1>7. ControlOK'
    BY <1>2, <1>5 DEF Base, TypeOK, ControlOK, At, Serving, Running, Target,
       Changed
  <1>8. QED
    BY <1>6, <1>7 DEF Base

LEMMA BaseUpdateStatus ==
  ASSUME Base, NEW c \in Calls, UpdateStatus(c)
  PROVE  Base'
  <1>1. PICK row \in requests[Target(c)] :
          /\ requests' = [requests EXCEPT ![Target(c)] =
                            {[row EXCEPT !.status = next[c],
                                         !.revision = @ + 1]}]
          /\ replaced' = [replaced EXCEPT ![c] = row]
    BY DEF UpdateStatus, FindByTenantAndId
  <1>2. /\ Target(c) \in Requests /\ row \in Row
        /\ next[c] \in Statuses
    BY <1>1 DEF UpdateStatus, Base, TypeOK, ControlOK, At, Target, CallInput,
                Changed, Changes, Optional
  <1>3. [row EXCEPT !.status = next[c], !.revision = @ + 1] \in Row
    <2>1. row.revision + 1 \in Nat
      BY <1>2 DEF Row
    <2>2. QED
      BY <1>2, <2>1 DEF Row
  <1>4. requests' \in [Requests -> SUBSET Row]
    BY <1>1, <1>2, <1>3 DEF Base, TypeOK
  <1>5. /\ replaced' \in [Calls -> Optional(Row)]
        /\ held' \in [Requests -> SUBSET Statuses]
        /\ pc' \in [Calls -> {"idle"} \union Running \union Ended]
    BY <1>1, <1>2 DEF UpdateStatus, Goto, Running, Base, TypeOK, Optional
  <1>6. TypeOK'
    BY <1>4, <1>5 DEF UpdateStatus, Base, TypeOK
  <1>7. ControlOK'
    BY DEF UpdateStatus, Base, TypeOK, ControlOK, At, Goto, Serving, Running,
           Target, Changed
  <1>8. QED
    BY <1>6, <1>7 DEF Base

LEMMA BaseStatement ==
  ASSUME Base, NEW c \in Calls, Step(c)
  PROVE  Base'
  <1> USE DEF At
  <1>1. CASE InsertRequest(c)
    BY <1>1, NoneAssumption DEF Base, TypeOK, ControlOK, Goto, Requests, Optional, tables,
           history, Running, Ended, Serving, Target, Changed, Changes,
           InsertRequest, Row, Statuses, CallInput
  <1>2. CASE InsertInitialEvent(c)
    <2>1. call[c].op = "create"
      BY <1>2 DEF InsertInitialEvent, Base, ControlOK
    <2>2. QED
      BY <1>2, <2>1, BaseAppendEvent DEF InsertInitialEvent
  <1>3. CASE RejectAfterFind(c)
    BY <1>3 DEF Base, TypeOK, ControlOK, Goto, Requests, Optional, tables,
           history, Running, Ended, Serving, Target, Changed, Changes,
           RejectAfterFind
  <1>4. CASE FindForEvent(c)
    BY <1>4 DEF Base, TypeOK, ControlOK, Goto, Requests, Optional, tables,
           history, Running, Ended, Serving, Target, Changed, Changes,
           FindForEvent, FindByTenantAndId, ResolveNextStatus,
                StatusFromEventType, AfterResolving, NoteArrival, CallInput,
                Statuses
  <1>5. CASE FindForReadiness(c)
    BY <1>5 DEF Base, TypeOK, ControlOK, Goto, Requests, Optional, tables,
           history, Running, Ended, Serving, Target, Changed, Changes,
           FindForReadiness, FindByTenantAndId, NoteArrival, CallInput
  <1>6. CASE EvaluateReadiness(c)
    BY <1>6, NoneAssumption
       DEF Base, TypeOK, ControlOK, Goto, Requests, Optional, tables,
           history, Running, Ended, Serving, Target, Changed, Changes,
           EvaluateReadiness, DryRunStatus, DemoStatus, AfterResolving, Statuses
  <1>7. CASE UpdateStatus(c)
    BY <1>7, BaseUpdateStatus
  <1>8. CASE InsertEvent(c)
    BY <1>8, BaseAppendEvent DEF InsertEvent
  <1>9. CASE AuditCreated(c)
    BY <1>9, BaseRecordAudit DEF AuditCreated, AuditActions
  <1>10. CASE AuditEvent(c)
    <2>1. AfterEventAudit(c) \in {"audit_operation", "audit_status", "ok"}
      BY DEF AfterEventAudit, AfterOperation
    <2>2. call[c].op = "create" => AfterEventAudit(c) = "ok"
      BY DEF AfterEventAudit
    <2>3. QED
      BY <1>10, <2>1, <2>2, EventTyped, BaseRecordAudit
         DEF AuditEvent, AuditActions
  <1>11. CASE AuditOperation(c)
    <2>1. call[c].op # "create"
      BY <1>11 DEF AuditOperation, Base, ControlOK
    <2>2. AfterOperation(c) \in {"audit_status", "ok"}
      BY DEF AfterOperation
    <2>3. QED
      BY <1>11, <2>1, <2>2, BaseRecordAudit DEF AuditOperation, AuditActions
  <1>12. CASE AuditStatusChanged(c)
    BY <1>12, EventTyped, BaseRecordAudit DEF AuditStatusChanged, AuditActions
  <1>13. QED
    BY <1>1, <1>2, <1>3, <1>4, <1>5, <1>6, <1>7, <1>8, <1>9, <1>10, <1>11,
       <1>12 DEF Step

LEMMA BaseAbort ==
  ASSUME Base, NEW c \in Calls, Abort(c)
  PROVE  Base'
  BY DEF Base, TypeOK, ControlOK, At, Goto, Requests, Optional, tables, Abort,
         Running, Ended, Serving, Target, Changed, Changes

LEMMA BaseMoves ==
  ASSUME Base, NEW c \in Calls, Moves(c)
  PROVE  Base'
  BY BaseArrives, BaseStatement, BaseAbort DEF Moves

LEMMA BaseStutter == Base /\ UNCHANGED vars => Base'
  BY DEF vars, Base, TypeOK, ControlOK, At, Serving, Target, Changed

LEMMA BaseInductive == Base /\ [Next]_vars => Base'
  BY NextMoves, BaseMoves, BaseStutter

(* Every table, and every handler's local state, keeps its type.           *)
THEOREM TypeCorrect == Spec => []TypeOK
  <1>1. Spec => []Base
    BY BaseInit, BaseInductive, PTL DEF Spec
  <1>2. Base => TypeOK
    BY DEF Base
  <1>3. QED
    BY <1>1, <1>2, PTL

----------------------------------------------------------------------------
(* The timeline reports statuses the request has had.  Inductive because   *)
(* the row a call holds and the status it is about to report were stored   *)
(* when it read or wrote them, and held never shrinks.                     *)
HeldOK ==
  /\ \A r \in Requests : \A row \in requests[r] : row.status \in held[r]
  /\ \A c \in Calls : Serving(c) => seen[c].status \in held[Target(c)]
  /\ \A c \in Calls :
       pc[c] \in {"initial_event", "event"} => next[c] \in Optional(held[Target(c)])
  /\ EventsReportHeldStatuses

LEMMA EventsAppended ==
  ASSUME Base, NEW c \in Calls, Target(c) \in Requests, EventOf(c) \in Event,
         AppendEvent(c), NEW r \in Requests
  PROVE  Events(r)' \subseteq Events(r) \union
                                (IF r = Target(c) THEN {EventOf(c)} ELSE {})
  <1>1. timeline[r] \in Seq(Event)
    BY DEF Base, TypeOK
  <1>2. CASE r # Target(c)
    BY <1>2 DEF AppendEvent, Base, TypeOK, Events
  <1>3. CASE r = Target(c)
    <2>1. timeline'[r] = Append(timeline[r], EventOf(c))
      BY <1>3 DEF AppendEvent, Base, TypeOK
    <2>2. ASSUME NEW i \in DOMAIN timeline'[r]
          PROVE  timeline'[r][i] \in Events(r) \union {EventOf(c)}
      BY <1>1, <2>1, <2>2 DEF Events
    <2>3. QED
      BY <1>3, <2>2 DEF Events
  <1>4. QED
    BY <1>2, <1>3

LEMMA HeldInit == Init => HeldOK
  BY DEF Init, HeldOK, Requests, Serving, Running, EventsReportHeldStatuses, Events

LEMMA HeldAppendEvent ==
  ASSUME Base, HeldOK, NEW c \in Calls, NEW step \in {"audit_created", "audit_event"},
         pc[c] \in {"initial_event", "event"}, AppendEvent(c), Goto(c, step),
         UNCHANGED <<requests, audit, call, seen, next, history>>
  PROVE  HeldOK'
  <1>1. Target(c) \in Requests /\ EventOf(c) \in Event
    BY EventTyped DEF Base, ControlOK, CallInput, Target
  <1>2. /\ EventOf(c).next \in held[Target(c)]
        /\ EventOf(c).prev \in Optional(held[Target(c)])
    <2>1. seen[c].status \in held[Target(c)] /\ next[c] \in Optional(held[Target(c)])
      BY DEF HeldOK, Serving, Running
    <2>2. QED
      BY <2>1 DEF EventOf, EventNext, EventPrev, Optional
  <1>3. EventsReportHeldStatuses'
    <2> SUFFICES ASSUME NEW r \in Requests, NEW e \in Events(r)'
                 PROVE  e.next \in held[r] /\ e.prev \in Optional(held[r])
      BY DEF EventsReportHeldStatuses, history, Optional, Requests
    <2>1. CASE e \in Events(r)
      BY <2>1 DEF HeldOK, EventsReportHeldStatuses
    <2>2. CASE r = Target(c) /\ e = EventOf(c)
      BY <2>2, <1>2
    <2>3. QED
      BY <2>1, <2>2, <1>1, EventsAppended
  <1>4. /\ \A r \in Requests : \A row \in requests'[r] : row.status \in held'[r]
        /\ \A d \in Calls : Serving(d)' => Serving(d)
        /\ \A d \in Calls : pc'[d] \in {"initial_event", "event"} => pc'[d] = pc[d]
    BY DEF HeldOK, history, Goto, Base, TypeOK, Serving, Running
  <1>5. QED
    BY <1>3, <1>4 DEF HeldOK, history, Target, Optional

LEMMA HeldStable ==
  ASSUME HeldOK, Base, UNCHANGED <<timeline, seen, call, next>>,
         \A r \in Requests : held[r] \subseteq held'[r],
         \A r \in Requests : \A row \in requests'[r] : row.status \in held'[r],
         \A c \in Calls : Serving(c)' => Serving(c),
         \A c \in Calls : pc'[c] \in {"initial_event", "event"} =>
                            \/ pc[c] = pc'[c]
                            \/ next[c] \in Optional(held'[Target(c)])
  PROVE  HeldOK'
  <1>1. EventsReportHeldStatuses'
    BY DEF HeldOK, EventsReportHeldStatuses, Events, Optional, Requests
  <1>2. \A c \in Calls : Serving(c) => Target(c) \in Requests
    BY DEF Base, ControlOK, CallInput, Target, Serving, Running
  <1>3. \A c \in Calls : Serving(c)' => seen'[c].status \in held'[Target(c)]
    BY <1>2 DEF HeldOK, Target
  <1>4. \A c \in Calls : pc'[c] \in {"initial_event", "event"} =>
                           next'[c] \in Optional(held'[Target(c)])
    BY <1>2 DEF HeldOK, Target, Optional, Serving, Running
  <1>5. QED
    BY <1>1, <1>3, <1>4 DEF HeldOK, Target, Optional, Requests

LEMMA HeldStatement ==
  ASSUME Base, HeldOK, NEW c \in Calls, Step(c)
  PROVE  HeldOK'
  <1> USE DEF At
  <1>1. CASE InsertRequest(c)
    <2>1. Target(c) = c /\ c \in Requests
      BY <1>1 DEF InsertRequest, Base, ControlOK, Requests
    <2>2. /\ \A r \in Requests : held[r] \subseteq held'[r]
          /\ "accepted" \in held'[c]
      BY <1>1, <2>1 DEF InsertRequest, Base, TypeOK
    <2>3. \A r \in Requests : \A row \in requests'[r] : row.status \in held'[r]
      BY <1>1, <2>1, <2>2 DEF InsertRequest, Base, TypeOK, HeldOK
    <2>4. \A d \in Calls : Serving(d) => Target(d) \in Requests
      BY DEF Base, ControlOK, CallInput, Target, Serving, Running
    <2>5. ASSUME NEW d \in Calls, Serving(d)'
          PROVE  seen'[d].status \in held'[Target(d)]
      <3>1. CASE d = c
        BY <3>1, <1>1, <2>1, <2>2 DEF InsertRequest, Base, TypeOK
      <3>2. CASE d # c
        BY <3>2, <1>1, <2>2, <2>4, <2>5
           DEF InsertRequest, Base, TypeOK, HeldOK, Serving, Goto
      <3>3. QED
        BY <3>1, <3>2
    <2>6. ASSUME NEW d \in Calls, pc'[d] \in {"initial_event", "event"}
          PROVE  next'[d] \in Optional(held'[Target(d)])
      <3>1. CASE d = c
        BY <3>1, <1>1, <2>1, <2>2 DEF InsertRequest, Base, TypeOK, Optional
      <3>2. CASE d # c
        BY <3>2, <1>1, <2>2, <2>4, <2>6
           DEF InsertRequest, Base, TypeOK, HeldOK, Serving, Goto, Optional, Running
      <3>3. QED
        BY <3>1, <3>2
    <2>7. EventsReportHeldStatuses'
      BY <1>1, <2>2 DEF InsertRequest, HeldOK, EventsReportHeldStatuses, Events,
         Optional, Requests
    <2>8. QED
      BY <1>1, <2>3, <2>5, <2>6, <2>7 DEF HeldOK, InsertRequest, Target, Requests,
         Optional
  <1>2. CASE InsertInitialEvent(c)
    BY <1>2, HeldAppendEvent DEF InsertInitialEvent
  <1>3. CASE RejectAfterFind(c)
    BY <1>3, HeldStable DEF RejectAfterFind, Goto, Base, TypeOK, HeldOK, tables,
       history, Serving, Running
  <1>4. CASE FindForEvent(c) \/ FindForReadiness(c)
    <2>1. PICK row \in requests[Target(c)] :
            /\ seen' = [seen EXCEPT ![c] = row]
            /\ \/ pc' = [pc EXCEPT ![c] = "evaluate"] /\ next' = next
               \/ \E nxt : /\ next' = [next EXCEPT ![c] = nxt]
                           /\ pc' = [pc EXCEPT ![c] = AfterResolving(row, nxt)]
      BY <1>4 DEF FindForEvent, FindForReadiness, FindByTenantAndId, Goto
    <2>2. UNCHANGED <<requests, timeline, call, held>>
      BY <1>4 DEF FindForEvent, FindForReadiness, tables
    <2>3. Target(c) \in Requests /\ row.status \in held[Target(c)]
      BY <1>4, <2>1 DEF FindForEvent, FindForReadiness, Base, ControlOK, CallInput,
         Target, HeldOK
    <2>4. ASSUME NEW d \in Calls, Serving(d)'
          PROVE  seen'[d].status \in held'[Target(d)]
      BY <2>1, <2>2, <2>3, <2>4 DEF Base, TypeOK, HeldOK, Serving, Target
    <2>5. ASSUME NEW d \in Calls, pc'[d] \in {"initial_event", "event"}
          PROVE  next'[d] \in Optional(held'[Target(d)])
      <3>1. CASE d = c
        BY <3>1, <2>1, <2>2, <2>3, <2>5
           DEF Base, TypeOK, AfterResolving, Changes, Optional
      <3>2. CASE d # c
        BY <3>2, <2>1, <2>2, <2>5 DEF Base, TypeOK, HeldOK, Target, Optional
      <3>3. QED
        BY <3>1, <3>2
    <2>6. QED
      BY <2>2, <2>4, <2>5 DEF HeldOK, EventsReportHeldStatuses, Events, Target,
         Requests, Optional
  <1>5. CASE EvaluateReadiness(c)
    <2>1. PICK nxt : /\ next' = [next EXCEPT ![c] = nxt]
                     /\ pc' = [pc EXCEPT ![c] = AfterResolving(seen[c], nxt)]
      BY <1>5 DEF EvaluateReadiness, Goto
    <2>2. UNCHANGED <<requests, timeline, call, seen, held>> /\ Serving(c)
      BY <1>5 DEF EvaluateReadiness, tables, history, Serving, Running
    <2>3. \A d \in Calls : Serving(d)' => Serving(d)
      BY <2>1, <2>2 DEF Base, TypeOK, Serving
    <2>4. ASSUME NEW d \in Calls, pc'[d] \in {"initial_event", "event"}
          PROVE  next'[d] \in Optional(held'[Target(d)])
      <3>1. CASE d = c
        BY <3>1, <2>1, <2>2, <2>4
           DEF Base, TypeOK, HeldOK, AfterResolving, Changes, Optional, Target
      <3>2. CASE d # c
        BY <3>2, <2>1, <2>2, <2>4 DEF Base, TypeOK, HeldOK, Target, Optional
      <3>3. QED
        BY <3>1, <3>2
    <2>5. QED
      BY <2>2, <2>3, <2>4 DEF HeldOK, EventsReportHeldStatuses, Events, Target,
         Requests, Optional
  <1>6. CASE UpdateStatus(c)
    <2>1. Target(c) \in Requests
      BY <1>6 DEF UpdateStatus, Base, ControlOK, CallInput, Target
    <2>2. /\ \A r \in Requests : held[r] \subseteq held'[r]
          /\ next[c] \in held'[Target(c)]
      BY <1>6, <2>1 DEF UpdateStatus, Base, TypeOK
    <2>3. \A r \in Requests : \A row \in requests'[r] : row.status \in held'[r]
      <3>1. PICK row \in requests[Target(c)] :
              requests' = [requests EXCEPT ![Target(c)] =
                             {[row EXCEPT !.status = next[c], !.revision = @ + 1]}]
        BY <1>6 DEF UpdateStatus, FindByTenantAndId
      <3>2. row \in Row
        BY <2>1, <3>1 DEF Base, TypeOK
      <3>3. [row EXCEPT !.status = next[c], !.revision = @ + 1].status = next[c]
        BY <3>2 DEF Row
      <3>4. QED
        BY <2>1, <2>2, <3>1, <3>3 DEF Base, TypeOK, HeldOK
    <2>4. /\ \A d \in Calls : Serving(d)' => Serving(d)
          /\ \A d \in Calls : pc'[d] \in {"initial_event", "event"} =>
                                pc[d] = pc'[d] \/ d = c
      BY <1>6 DEF UpdateStatus, Goto, Base, TypeOK, Serving, Running
    <2>5. QED
      BY <1>6, <2>2, <2>3, <2>4, HeldStable DEF UpdateStatus, Optional
  <1>7. CASE InsertEvent(c)
    BY <1>7, HeldAppendEvent DEF InsertEvent
  <1>8. CASE AuditCreated(c) \/ AuditEvent(c) \/ AuditOperation(c)
               \/ AuditStatusChanged(c)
    <2>1. UNCHANGED <<requests, timeline, seen, call, next, held>>
      BY <1>8 DEF AuditCreated, AuditEvent, AuditOperation, AuditStatusChanged,
         RecordAudit, history
    <2>2. Serving(c) /\ \E end : end \notin {"initial_event", "event"} /\ Goto(c, end)
      BY <1>8 DEF AuditCreated, AuditEvent, AuditOperation, AuditStatusChanged,
         RecordAudit, AfterEventAudit, AfterOperation, Serving, Running
    <2>3. /\ \A d \in Calls : Serving(d)' => Serving(d)
          /\ \A d \in Calls : pc'[d] \in {"initial_event", "event"} => pc[d] = pc'[d]
      BY <2>2 DEF Goto, Base, TypeOK, Serving
    <2>4. QED
      BY <2>1, <2>3, HeldStable DEF HeldOK
  <1>9. QED
    BY <1>1, <1>2, <1>3, <1>4, <1>5, <1>6, <1>7, <1>8 DEF Step

LEMMA HeldArrives ==
  ASSUME Base, HeldOK, NEW c \in Calls, NEW input, NEW step,
         Arrives(c, input, step)
  PROVE  HeldOK'
  <1>1. /\ UNCHANGED <<requests, timeline, seen, next, held>>
        /\ pc[c] = "idle"
        /\ call' = [call EXCEPT ![c] = input]
        /\ step \in {"insert", "find", "rejected"} /\ Goto(c, step)
    BY DEF Arrives, At, tables, history
  <1>2. \A d \in Calls : \/ pc'[d] \in {"insert", "find", "rejected"}
                         \/ pc'[d] = pc[d] /\ call'[d] = call[d]
    BY <1>1 DEF Goto, Base, TypeOK
  <1>3. QED
    BY <1>1, <1>2 DEF HeldOK, Serving, Running, Target, EventsReportHeldStatuses,
       Events, Requests, Optional

LEMMA HeldAbort ==
  ASSUME Base, HeldOK, NEW c \in Calls, Abort(c)
  PROVE  HeldOK'
  <1>1. UNCHANGED <<requests, timeline, seen, call, next, held>>
    BY DEF Abort, tables
  <1>2. /\ \A d \in Calls : Serving(d)' => Serving(d)
        /\ \A d \in Calls : pc'[d] \in {"initial_event", "event"} => pc[d] = pc'[d]
    BY DEF Abort, Goto, Base, TypeOK, Serving, Running
  <1>3. QED
    BY <1>1, <1>2, HeldStable DEF HeldOK

LEMMA HeldMoves ==
  ASSUME Base, HeldOK, NEW c \in Calls, Moves(c)
  PROVE  HeldOK'
  BY HeldArrives, HeldStatement, HeldAbort DEF Moves

LEMMA HeldStutter == HeldOK /\ UNCHANGED vars => HeldOK'
  BY DEF vars, HeldOK, Serving, Target, EventsReportHeldStatuses, Events,
         Requests, Optional

LEMMA HeldInductive == Base /\ HeldOK /\ [Next]_vars => HeldOK'
  BY NextMoves, HeldMoves, HeldStutter

(* Whatever the interleaving of the calls and wherever any of them is cut  *)
(* short, both statuses an event reports were once stored in the row.      *)
THEOREM EventsReportHeld == Spec => []EventsReportHeldStatuses
  <1>1. Init => Base /\ HeldOK
    BY BaseInit, HeldInit
  <1>2. Base /\ HeldOK /\ [Next]_vars => (Base /\ HeldOK)'
    BY BaseInductive, HeldInductive
  <1>3. HeldOK => EventsReportHeldStatuses
    BY DEF HeldOK
  <1>4. QED
    BY <1>1, <1>2, <1>3, PTL DEF Spec
-----------------------------------------------------------------------------
(***************************************************************************)
(* What the timeline, the audit log and the rows say of each other: every  *)
(* invariant is shown to be kept by a step of the lifecycle, whoever made  *)
(* the call (Moves), so that CommandPreparation_proofs can use the lemmas  *)
(* for the calls that a preparation makes.                                 *)
(***************************************************************************)
(* The stages of a call whose event is recorded, and those of one without; *)
(* a call that ended in an error is in neither.                            *)
Past == {"audit_created", "audit_event", "audit_operation", "audit_status", "ok"}
Ahead == {"idle", "insert", "initial_event", "find", "evaluate", "update",
          "event", "rejected"}

(* The statements that several stages of a handler share.                  *)
Appends(c) == InsertInitialEvent(c) \/ InsertEvent(c)
Audits(c) == AuditCreated(c) \/ AuditEvent(c) \/ AuditOperation(c)
             \/ AuditStatusChanged(c)
Finds(c) == FindForEvent(c) \/ FindForReadiness(c)
Stops(c) == RejectAfterFind(c) \/ Abort(c)

LEMMA MoveKinds ==
  ASSUME NEW c \in Calls, Moves(c)
  PROVE  \/ \E input, step : Arrives(c, input, step)
         \/ InsertRequest(c) \/ Finds(c) \/ EvaluateReadiness(c)
         \/ UpdateStatus(c) \/ Appends(c) \/ Audits(c) \/ Stops(c)
  BY DEF Moves, Step, Finds, Appends, Audits, Stops

(* Nobody moves but the call itself.                                       *)
LEMMA OthersRest ==
  ASSUME Base, NEW c \in Calls, Moves(c), NEW d \in Calls \ {c}
  PROVE  /\ pc'[d] = pc[d] /\ call'[d] = call[d] /\ seen'[d] = seen[d]
         /\ next'[d] = next[d] /\ replaced'[d] = replaced[d]
  <1> USE DEF Base, TypeOK, Goto, tables, history
  <1>1. CASE \E input, step : Arrives(c, input, step)
    BY <1>1 DEF Arrives
  <1>2. CASE InsertRequest(c) \/ EvaluateReadiness(c) \/ UpdateStatus(c)
    BY <1>2 DEF InsertRequest, EvaluateReadiness, UpdateStatus
  <1>3. CASE Finds(c)
    BY <1>3 DEF Finds, FindForEvent, FindForReadiness
  <1>4. CASE Appends(c) \/ Stops(c)
    BY <1>4 DEF Appends, InsertInitialEvent, InsertEvent, Stops,
       RejectAfterFind, Abort
  <1>5. CASE Audits(c)
    BY <1>5 DEF Audits, AuditCreated, AuditEvent, AuditOperation,
       AuditStatusChanged, RecordAudit
  <1>6. QED
    BY <1>1, <1>2, <1>3, <1>4, <1>5, MoveKinds

(* What an event or an entry is built from is settled before the event is  *)
(* recorded and stays as it is.                                            *)
LEMMA Settled ==
  ASSUME Base, NEW c \in Calls, NEW d \in Calls, Moves(c),
         pc[d] \in Past \union {"initial_event", "event", "error"}
  PROVE  /\ call'[d] = call[d] /\ seen'[d] = seen[d] /\ next'[d] = next[d]
         /\ EventOf(d)' = EventOf(d) /\ Target(d)' = Target(d)
         /\ EventNext(d)' = EventNext(d) /\ EventPrev(d)' = EventPrev(d)
         /\ Changed(d)' = Changed(d)
         /\ pc[d] \in Past => pc'[d] \in Past \union {"error"}
         /\ pc[d] = "error" => pc'[d] = "error"
  <1>1. CASE d = c
    <2> USE <1>1 DEF Past, Goto
    <2>1. /\ UNCHANGED <<call, seen, next>>
          /\ pc[d] \in Past => pc'[d] \in Past \union {"error"}
          /\ pc[d] = "error" => pc'[d] = "error"
      <3> USE DEF Base, TypeOK, At
      <3>1. CASE \E input, step : Arrives(c, input, step)
        BY <3>1 DEF Arrives
      <3>2. CASE InsertRequest(c) \/ EvaluateReadiness(c) \/ UpdateStatus(c)
        BY <3>2 DEF InsertRequest, EvaluateReadiness, UpdateStatus
      <3>3. CASE Finds(c)
        BY <3>3 DEF Finds, FindForEvent, FindForReadiness
      <3>4. CASE Appends(c) \/ Stops(c)
        BY <3>4 DEF Appends, InsertInitialEvent, InsertEvent, Stops,
           RejectAfterFind, Abort, Running
      <3>5. CASE Audits(c)
        BY <3>5 DEF Audits, AuditCreated, AuditEvent, AuditOperation,
           AuditStatusChanged, RecordAudit, AfterEventAudit, AfterOperation
      <3>6. QED
        BY <3>1, <3>2, <3>3, <3>4, <3>5, MoveKinds
    <2>2. QED
      BY <2>1 DEF EventOf, EventType, EventNext, EventPrev, Target, Changed
  <1>2. CASE d # c
    BY <1>2, OthersRest DEF EventOf, EventType, EventNext, EventPrev, Target,
       Changed
  <1>3. QED
    BY <1>1, <1>2

(* Only the statement that appends its event brings a call past it.        *)
LEMMA Reaches ==
  ASSUME Base, NEW c \in Calls, NEW d \in Calls, Moves(c),
         pc'[d] \in Past, pc[d] \notin Past
  PROVE  d = c /\ Appends(c)
  <1>1. d = c
    BY OthersRest
  <1> USE <1>1 DEF Base, TypeOK, Goto, Past, At
  <1>2. CASE \E input, step : Arrives(c, input, step)
    BY <1>2 DEF Arrives
  <1>3. CASE InsertRequest(c) \/ EvaluateReadiness(c) \/ UpdateStatus(c)
    BY <1>3 DEF InsertRequest, EvaluateReadiness, UpdateStatus, AfterResolving
  <1>4. CASE Finds(c)
    BY <1>4 DEF Finds, FindForEvent, FindForReadiness, AfterResolving
  <1>5. CASE Stops(c)
    BY <1>5 DEF Stops, RejectAfterFind, Abort
  <1>6. CASE Audits(c)
    BY <1>6 DEF Audits, AuditCreated, AuditEvent, AuditOperation,
       AuditStatusChanged
  <1>7. QED
    BY <1>2, <1>3, <1>4, <1>5, <1>6, MoveKinds

LEMMA EventMoves ==
  ASSUME Base, NEW c \in Calls, NEW d \in Calls, Moves(c), pc[d] = "event"
  PROVE  pc'[d] \in {"event", "audit_event", "error"}
  <1>1. CASE d # c
    BY <1>1, OthersRest
  <1>2. CASE d = c
    <2> USE <1>2 DEF Base, TypeOK, Goto, At
    <2>1. CASE Appends(c) \/ Stops(c)
      BY <2>1 DEF Appends, InsertInitialEvent, InsertEvent, Stops,
         RejectAfterFind, Abort
    <2>2. CASE ~Appends(c) /\ ~Stops(c)
      BY <2>2, MoveKinds DEF Arrives, InsertRequest, Finds, FindForEvent,
         FindForReadiness, EvaluateReadiness, UpdateStatus, Audits,
         AuditCreated, AuditEvent, AuditOperation, AuditStatusChanged
    <2>3. QED
      BY <2>1, <2>2
  <1>3. QED
    BY <1>1, <1>2

(* An event is appended, or the timeline stays as it is.                   *)
LEMMA TimelineGrows ==
  ASSUME Base, NEW c \in Calls, Moves(c), NEW r \in Requests
  PROVE  Events(r)' = Events(r) \union
           (IF Appends(c) /\ r = Target(c) THEN {EventOf(c)} ELSE {})
  <1>1. CASE Appends(c)
    <2>1. AppendEvent(c) /\ pc[c] \in {"initial_event", "event"}
      BY <1>1 DEF Appends, InsertInitialEvent, InsertEvent, At
    <2>2. Target(c) \in Requests /\ EventOf(c) \in Event
      BY <2>1, EventTyped DEF Base, ControlOK, CallInput, Target
    <2>3. timeline[r] \in Seq(Event)
      BY DEF Base, TypeOK
    <2>4. CASE r = Target(c)
      <3>1. timeline'[r] = Append(timeline[r], EventOf(c))
        BY <2>1, <2>4 DEF AppendEvent, Base, TypeOK
      <3>2. /\ DOMAIN timeline'[r] = DOMAIN timeline[r] \union {Len(timeline[r]) + 1}
            /\ timeline'[r][Len(timeline[r]) + 1] = EventOf(c)
            /\ \A i \in DOMAIN timeline[r] : timeline'[r][i] = timeline[r][i]
        BY <2>2, <2>3, <3>1
      <3>3. QED
        BY <1>1, <2>4, <3>2 DEF Events
    <2>5. CASE r # Target(c)
      BY <2>1, <2>5 DEF AppendEvent, Base, TypeOK, Events
    <2>6. QED
      BY <2>4, <2>5
  <1>2. CASE ~Appends(c)
    <2>1. timeline' = timeline
      BY <1>2, MoveKinds DEF Arrives, InsertRequest, Finds, FindForEvent,
         FindForReadiness, EvaluateReadiness, UpdateStatus, Audits,
         AuditCreated, AuditEvent, AuditOperation, AuditStatusChanged,
         RecordAudit, Stops, RejectAfterFind, Abort, tables
    <2>2. QED
      BY <1>2, <2>1 DEF Events
  <1>3. QED
    BY <1>1, <1>2

--------------------------------------------------------------------------------
(* Every event is the one its call had to record, and every call that is   *)
(* past recording it did.                                                  *)
TrailOK ==
  /\ \A r \in Requests : \A e \in Events(r) :
       /\ e.by \in Calls /\ pc[e.by] \in Past \union {"error"}
       /\ call[e.by] \in CallInput
       /\ seen[e.by] \in Row /\ seen[e.by].tenant = call[e.by].tenant
       /\ Target(e.by) = r /\ e = EventOf(e.by)
  /\ \A c \in Calls, r \in Requests :
       pc[c] \in Past /\ Target(c) = r => EventOf(c) \in Events(r)

LEMMA TrailInit == Init => TrailOK
  BY DEF Init, TrailOK, Events, Requests, Past

LEMMA TrailMoves ==
  ASSUME Base, TrailOK, NEW c \in Calls, Moves(c)
  PROVE  TrailOK'
  <1>1. ASSUME NEW r \in Requests, NEW e \in Events(r)'
        PROVE  /\ e.by \in Calls /\ pc'[e.by] \in Past \union {"error"}
               /\ call'[e.by] \in CallInput
               /\ seen'[e.by] \in Row /\ seen'[e.by].tenant = call'[e.by].tenant
               /\ Target(e.by)' = r /\ e = EventOf(e.by)'
    <2>1. CASE e \in Events(r)
      BY <2>1, Settled DEF TrailOK
    <2>2. CASE e \notin Events(r)
      <3>1. Appends(c) /\ r = Target(c) /\ e = EventOf(c)
        BY <1>1, <2>2, TimelineGrows
      <3>2. /\ pc[c] \in {"initial_event", "event"}
            /\ pc'[c] \in Past
        BY <3>1 DEF Appends, InsertInitialEvent, InsertEvent, At, Goto, Base,
           TypeOK, Past
      <3>3. /\ call[c] \in CallInput /\ seen[c] \in Row
            /\ seen[c].tenant = call[c].tenant
        BY <3>2 DEF Base, ControlOK, Serving, Running
      <3>4. e.by = c
        BY <3>1 DEF EventOf
      <3>5. QED
        BY <3>1, <3>2, <3>3, <3>4, Settled
    <2>3. QED
      BY <2>1, <2>2
  <1>2. ASSUME NEW d \in Calls, NEW r \in Requests, pc'[d] \in Past,
               Target(d)' = r
        PROVE  EventOf(d)' \in Events(r)'
    <2>1. CASE pc[d] \in Past
      <3>1. Target(d) = r /\ EventOf(d)' = EventOf(d)
        BY <1>2, <2>1, Settled
      <3>2. EventOf(d) \in Events(r)
        BY <2>1, <3>1 DEF TrailOK
      <3>3. QED
        BY <3>1, <3>2, TimelineGrows
    <2>2. CASE pc[d] \notin Past
      <3>1. Appends(d) /\ d = c
        BY <1>2, <2>2, Reaches
      <3>2. pc[d] \in {"initial_event", "event"}
        BY <3>1 DEF Appends, InsertInitialEvent, InsertEvent, At
      <3>3. EventOf(d)' = EventOf(d) /\ Target(d) = r
        BY <1>2, <3>2, Settled
      <3>4. QED
        BY <3>1, <3>3, TimelineGrows
    <2>3. QED
      BY <2>1, <2>2
  <1>3. QED
    BY <1>1, <1>2 DEF TrailOK

LEMMA TrailStutter == TrailOK /\ UNCHANGED vars => TrailOK'
  BY DEF vars, TrailOK, Events, Requests, Target, EventOf, EventType, EventNext,
         EventPrev

LEMMA TrailInductive == Base /\ TrailOK /\ [Next]_vars => TrailOK'
  BY NextMoves, TrailMoves, TrailStutter

--------------------------------------------------------------------------------
(* Every audit entry is about the event of its call, and the stage a call  *)
(* has come to fixes the entries it has left.                              *)
EntriesOK ==
  \A a \in audit :
    /\ a.by \in Calls /\ pc[a.by] \in Past \union {"error"}
    /\ a.request \in Requests /\ Target(a.by) = a.request
    /\ EventOf(a.by) \in Events(a.request)
    /\ a.tenant = seen[a.by].tenant /\ a.next = EventNext(a.by)
    /\ a.prev \in {None, EventPrev(a.by)}
    /\ a.action = "execution_request.status_changed" =>
         Changed(a.by) /\ call[a.by].op # "create"

StagesOK ==
  \A c \in Calls :
    /\ pc[c] \in {"audit_event", "ok"} /\ call[c].op = "create" =>
         Audited(c, "execution_request.created")
    /\ pc[c] \in {"audit_operation", "audit_status", "ok"} =>
         Audited(c, "execution_request.event.created")
    /\ At(c, "audit_operation") => call[c].op \in {"dry_run", "demo"}
    /\ pc[c] \in {"audit_status", "ok"} /\ call[c].op = "dry_run" =>
         Audited(c, "execution_request.dry_run_checked")
    /\ pc[c] \in {"audit_status", "ok"} /\ call[c].op = "demo" =>
         Audited(c, "execution_request.demo_executed")
    /\ At(c, "audit_status") => Changed(c)
    /\ At(c, "ok") /\ call[c].op # "create" /\ Changed(c) =>
         Audited(c, "execution_request.status_changed")

AuditOK == EntriesOK /\ StagesOK

LEMMA AuditInit == Init => AuditOK
  BY DEF Init, AuditOK, EntriesOK, StagesOK, At

(* What one audit statement does.                                          *)
LEMMA AuditsRecord ==
  ASSUME Base, NEW c \in Calls, Audits(c)
  PROVE  \E action, prev, step :
           /\ RecordAudit(c, action, prev, step)
           /\ prev \in {None, EventPrev(c)}
           /\ \/ /\ pc[c] = "audit_created" /\ step = "audit_event"
                 /\ action = "execution_request.created"
              \/ /\ pc[c] = "audit_event" /\ step = AfterEventAudit(c)
                 /\ action = "execution_request.event.created"
              \/ /\ pc[c] = "audit_operation" /\ step = AfterOperation(c)
                 /\ action = IF call[c].op = "dry_run"
                             THEN "execution_request.dry_run_checked"
                             ELSE "execution_request.demo_executed"
              \/ /\ pc[c] = "audit_status" /\ step = "ok"
                 /\ action = "execution_request.status_changed"
  BY DEF Audits, AuditCreated, AuditEvent, AuditOperation, AuditStatusChanged, At

LEMMA AuditKept ==
  ASSUME NEW c \in Calls, Moves(c), ~Audits(c)
  PROVE  audit' = audit
  BY MoveKinds DEF Arrives, InsertRequest, Finds, FindForEvent,
     FindForReadiness, EvaluateReadiness, UpdateStatus, Appends,
     InsertInitialEvent, InsertEvent, Stops, RejectAfterFind, Abort, tables

LEMMA EntriesMoves ==
  ASSUME Base, TrailOK, AuditOK, NEW c \in Calls, Moves(c)
  PROVE  EntriesOK'
  <1> SUFFICES ASSUME NEW a \in audit'
      PROVE /\ a.by \in Calls /\ pc'[a.by] \in Past \union {"error"}
            /\ a.request \in Requests /\ Target(a.by)' = a.request
            /\ EventOf(a.by)' \in Events(a.request)'
            /\ a.tenant = seen'[a.by].tenant /\ a.next = EventNext(a.by)'
            /\ a.prev \in {None, EventPrev(a.by)'}
            /\ a.action = "execution_request.status_changed" =>
                 Changed(a.by)' /\ call'[a.by].op # "create"
    BY DEF EntriesOK, Requests
  <1>1. /\ a.by \in Calls /\ pc[a.by] \in Past \union {"error"}
        /\ a.request \in Requests /\ Target(a.by) = a.request
        /\ EventOf(a.by) \in Events(a.request)
        /\ a.tenant = seen[a.by].tenant /\ a.next = EventNext(a.by)
        /\ a.prev \in {None, EventPrev(a.by)}
        /\ a.action = "execution_request.status_changed" =>
             Changed(a.by) /\ call[a.by].op # "create"
    <2>1. CASE a \in audit
      BY <2>1 DEF AuditOK, EntriesOK
    <2>2. CASE a \notin audit
      <3>1. Audits(c)
        BY <2>2, AuditKept
      <3>2. PICK action, prev, step :
              /\ RecordAudit(c, action, prev, step)
              /\ prev \in {None, EventPrev(c)}
              /\ pc[c] \in {"audit_created", "audit_event", "audit_operation",
                            "audit_status"}
              /\ action = "execution_request.status_changed" =>
                   pc[c] = "audit_status"
        BY <3>1, AuditsRecord
      <3>3. a = Entry(c, action, prev)
        BY <2>2, <3>2 DEF RecordAudit
      <3>4. /\ a.by = c /\ a.tenant = seen[c].tenant /\ a.request = Target(c)
            /\ a.action = action /\ a.prev = prev /\ a.next = EventNext(c)
        BY <3>3 DEF Entry
      <3>5. pc[c] \in Past /\ Target(c) \in Requests
        BY <3>2 DEF Past, Base, ControlOK, CallInput, Target
      <3>6. pc[c] = "audit_status" => Changed(c) /\ call[c].op # "create"
        BY DEF AuditOK, StagesOK, Base, ControlOK, At
      <3>7. QED
        BY <3>2, <3>4, <3>5, <3>6 DEF TrailOK
    <2>3. QED
      BY <2>1, <2>2
  <1>2. pc'[a.by] \in Past \union {"error"}
    BY <1>1, Settled
  <1>3. Events(a.request) \subseteq Events(a.request)'
    BY <1>1, TimelineGrows
  <1>4. QED
    BY <1>1, <1>2, <1>3, Settled

LEMMA AuditedStays ==
  ASSUME NEW c \in Calls, Moves(c), NEW d, NEW action, Audited(d, action)
  PROVE  Audited(d, action)'
  <1>1. audit \subseteq audit'
    BY AuditKept DEF Audits, AuditCreated, AuditEvent, AuditOperation,
       AuditStatusChanged, RecordAudit
  <1>2. QED
    BY <1>1 DEF Audited

LEMMA StagesMoves ==
  ASSUME Base, AuditOK, NEW c \in Calls, Moves(c)
  PROVE  StagesOK'
  <1> USE DEF StagesOK, At
  <1>1. ASSUME NEW d \in Calls \ {c}
        PROVE  pc'[d] = pc[d] /\ call'[d] = call[d] /\ Changed(d)' = Changed(d)
    BY OthersRest DEF Changed
  <1>2. CASE Audits(c)
    <2>1. PICK action, prev, step :
            /\ RecordAudit(c, action, prev, step)
            /\ \/ /\ pc[c] = "audit_created" /\ step = "audit_event"
                  /\ action = "execution_request.created"
               \/ /\ pc[c] = "audit_event" /\ step = AfterEventAudit(c)
                  /\ action = "execution_request.event.created"
               \/ /\ pc[c] = "audit_operation" /\ step = AfterOperation(c)
                  /\ action = IF call[c].op = "dry_run"
                              THEN "execution_request.dry_run_checked"
                              ELSE "execution_request.demo_executed"
               \/ /\ pc[c] = "audit_status" /\ step = "ok"
                  /\ action = "execution_request.status_changed"
      BY <1>2, AuditsRecord
    <2>2. call'[c] = call[c] /\ Changed(c)' = Changed(c)
      BY <2>1 DEF RecordAudit, Changed
    <2>3. CASE call[c].actor = "object_id"
      BY <1>1, <2>1, <2>3, AuditedStays DEF RecordAudit, Goto, Base, TypeOK, AuditOK
    <2>4. CASE call[c].actor # "object_id"
      <3>1. Entry(c, action, prev) \in audit' /\ pc'[c] = step
        BY <2>1, <2>4 DEF RecordAudit, Goto, Base, TypeOK
      <3>2. Audited(c, action)'
        BY <3>1 DEF Audited, Entry
      <3>3. /\ call[c].op = "create" => AfterEventAudit(c) = "ok"
            /\ call[c].op = "event" => AfterEventAudit(c) = AfterOperation(c)
            /\ call[c].op \in {"dry_run", "demo"} =>
                 AfterEventAudit(c) = "audit_operation"
        BY DEF AfterEventAudit
      <3>4. AfterOperation(c) = IF Changed(c) THEN "audit_status" ELSE "ok"
        BY DEF AfterOperation
      <3>5. /\ call[c].op \in {"create", "event", "dry_run", "demo"}
            /\ pc[c] = "audit_created" => call[c].op = "create"
            /\ pc[c] \in {"audit_operation", "audit_status"} =>
                 call[c].op # "create"
        BY <2>1 DEF Base, ControlOK, CallInput
      <3>6. \A kind : Audited(c, kind) => Audited(c, kind)'
        BY AuditedStays
      <3> DEFINE created == "execution_request.created"
                 event == "execution_request.event.created"
                 dry == "execution_request.dry_run_checked"
                 demo == "execution_request.demo_executed"
                 status == "execution_request.status_changed"
      <3>7. /\ pc'[c] \in {"audit_event", "ok"} /\ call[c].op = "create" =>
                 Audited(c, created)'
            /\ pc'[c] \in {"audit_operation", "audit_status", "ok"} =>
                 Audited(c, event)'
            /\ pc'[c] = "audit_operation" => call[c].op \in {"dry_run", "demo"}
            /\ pc'[c] \in {"audit_status", "ok"} /\ call[c].op = "dry_run" =>
                 Audited(c, dry)'
            /\ pc'[c] \in {"audit_status", "ok"} /\ call[c].op = "demo" =>
                 Audited(c, demo)'
            /\ pc'[c] = "audit_status" => Changed(c)
            /\ pc'[c] = "ok" /\ call[c].op # "create" /\ Changed(c) =>
                 Audited(c, status)'
        BY <2>1, <3>1, <3>2, <3>3, <3>4, <3>5, <3>6 DEF AuditOK
      <3>8. QED
        BY <1>1, <2>2, <3>7, AuditedStays DEF AuditOK
    <2>5. QED
      BY <2>3, <2>4
  <1>3. CASE ~Audits(c)
    <2>1. \/ pc'[c] \notin {"audit_event", "audit_operation", "audit_status", "ok"}
          \/ pc'[c] = "audit_event" /\ call'[c].op # "create"
      <3> USE DEF Base, TypeOK, Goto
      <3>1. CASE \E input, step : Arrives(c, input, step)
        BY <3>1 DEF Arrives
      <3>2. CASE InsertRequest(c) \/ EvaluateReadiness(c) \/ UpdateStatus(c)
        BY <3>2 DEF InsertRequest, EvaluateReadiness, UpdateStatus, AfterResolving
      <3>3. CASE Finds(c)
        BY <3>3 DEF Finds, FindForEvent, FindForReadiness, AfterResolving
      <3>4. CASE Stops(c)
        BY <3>4 DEF Stops, RejectAfterFind, Abort
      <3>5. CASE Appends(c)
        BY <3>5 DEF Appends, InsertInitialEvent, InsertEvent, ControlOK
      <3>6. QED
        BY <1>3, <3>1, <3>2, <3>3, <3>4, <3>5, MoveKinds
    <2>2. QED
      BY <1>1, <2>1, AuditedStays DEF AuditOK
  <1>4. QED
    BY <1>2, <1>3

LEMMA AuditMoves ==
  ASSUME Base, TrailOK, AuditOK, NEW c \in Calls, Moves(c)
  PROVE  AuditOK'
  BY EntriesMoves, StagesMoves DEF AuditOK

LEMMA AuditStutter == AuditOK /\ UNCHANGED vars => AuditOK'
  BY DEF vars, AuditOK, EntriesOK, StagesOK, Events, Requests, Target, EventOf,
         EventType, EventNext, EventPrev, Changed, Audited, At

Trail == Base /\ TrailOK /\ AuditOK

LEMMA TrailEntries == Trail => AuditFollowsEvent
  BY DEF Trail, AuditOK, EntriesOK, AuditFollowsEvent, EventOf

LEMMA TrailComplete == Trail => SuccessLeavesTrail
  <1> SUFFICES ASSUME Trail, NEW c \in Calls, pc[c] = "ok"
               PROVE  \E e \in Events(Target(c)) :
      /\ e.by = c
      /\ Audited(c, "execution_request.event.created")
      /\ call[c].op = "create" => Audited(c, "execution_request.created")
      /\ call[c].op = "dry_run" =>
           Audited(c, "execution_request.dry_run_checked")
      /\ call[c].op = "demo" => Audited(c, "execution_request.demo_executed")
      /\ Audited(c, "execution_request.status_changed") <=>
           e.prev \notin {None, e.next}
    BY DEF SuccessLeavesTrail, At
  <1>1. Target(c) \in Requests /\ EventOf(c) \in Events(Target(c))
    BY DEF Trail, Base, TrailOK, ControlOK, CallInput, Target, Past
  <1>2. /\ EventOf(c).by = c /\ EventOf(c).prev = EventPrev(c)
        /\ EventOf(c).next = EventNext(c)
    BY DEF EventOf
  <1>3. seen[c] \in Row
    BY <1>1, <1>2 DEF Trail, TrailOK
  <1>4. Audited(c, "execution_request.status_changed") <=>
          Changed(c) /\ call[c].op # "create"
    BY DEF Trail, AuditOK, EntriesOK, StagesOK, Audited, At
  <1>5. Changed(c) /\ call[c].op # "create" <=>
          EventPrev(c) \notin {None, EventNext(c)}
    BY <1>3, NoneAssumption DEF Changed, Changes, EventPrev, EventNext, Row
  <1>6. QED
    BY <1>1, <1>2, <1>4, <1>5 DEF Trail, AuditOK, StagesOK, At

--------------------------------------------------------------------------------
(* A call keeps the input it arrived with.                                 *)
LEMMA Arrived ==
  ASSUME Base, NEW c \in Calls, NEW d \in Calls, Moves(c), pc[d] # "idle"
  PROVE  /\ call'[d] = call[d] /\ Target(d)' = Target(d) /\ pc'[d] # "idle"
         /\ pc[d] # "insert" => pc'[d] # "insert"
  <1>1. CASE d # c
    BY <1>1, OthersRest DEF Target
  <1>2. CASE d = c
    <2> USE <1>2 DEF Base, TypeOK, Goto, At
    <2>1. CASE \E input, step : Arrives(c, input, step)
      BY <2>1 DEF Arrives
    <2>2. CASE InsertRequest(c) \/ EvaluateReadiness(c) \/ UpdateStatus(c)
      BY <2>2 DEF InsertRequest, EvaluateReadiness, UpdateStatus,
         AfterResolving, Target
    <2>3. CASE Finds(c)
      BY <2>3 DEF Finds, FindForEvent, FindForReadiness, AfterResolving, Target
    <2>4. CASE Appends(c) \/ Stops(c)
      BY <2>4 DEF Appends, InsertInitialEvent, InsertEvent, Stops,
         RejectAfterFind, Abort, Target
    <2>5. CASE Audits(c)
      <3>1. AfterOperation(c) \in Past /\ AfterEventAudit(c) \in Past
        BY DEF AfterEventAudit, AfterOperation, Past
      <3>2. \E action, prev, step : step \in Past /\ RecordAudit(c, action, prev, step)
        BY <2>5, <3>1, AuditsRecord DEF Past
      <3>3. QED
        BY <2>5, <3>2 DEF RecordAudit, Past, Target
    <2>6. QED
      BY <2>1, <2>2, <2>3, <2>4, <2>5, MoveKinds
  <1>3. QED
    BY <1>1, <1>2

(* A row is inserted by the call it is named after, or overwritten with    *)
(* the status its writer resolved, or stays as it is.                      *)
LEMMA RowsMove ==
  ASSUME Base, NEW c \in Calls, Moves(c), NEW r \in Requests
  PROVE  \/ requests'[r] = requests[r]
         \/ /\ InsertRequest(c) /\ r = c
            /\ requests'[r] = {[tenant |-> call[c].tenant,
                                status |-> "accepted", revision |-> 0]}
         \/ /\ UpdateStatus(c) /\ r = Target(c)
            /\ \E row \in requests[r], new \in Row :
                 /\ row \in Row /\ row.tenant = seen[c].tenant
                 /\ requests'[r] = {new}
                 /\ new.tenant = row.tenant /\ new.status = next[c]
                 /\ new.revision = row.revision + 1
                 /\ replaced' = [replaced EXCEPT ![c] = row]
  <1>1. CASE UpdateStatus(c) /\ r = Target(c)
    <2>1. PICK row \in requests[r] :
            /\ row.tenant = seen[c].tenant
            /\ requests' = [requests EXCEPT ![r] =
                              {[row EXCEPT !.status = next[c],
                                           !.revision = @ + 1]}]
            /\ replaced' = [replaced EXCEPT ![c] = row]
      BY <1>1 DEF UpdateStatus, FindByTenantAndId
    <2>2. row \in Row /\ next[c] \in Statuses
      BY <1>1 DEF UpdateStatus, Base, TypeOK, ControlOK, At, Changed, Changes,
                  Optional
    <2> DEFINE new == [row EXCEPT !.status = next[c], !.revision = @ + 1]
    <2>3. row.revision + 1 \in Nat
      BY <2>2 DEF Row
    <2>4. /\ new \in Row /\ new.tenant = row.tenant
          /\ new.status = next[c] /\ new.revision = row.revision + 1
      BY <2>2, <2>3 DEF Row
    <2>5. requests'[r] = {new}
      BY <2>1 DEF Base, TypeOK
    <2>6. QED
      BY <1>1, <2>1, <2>2, <2>4, <2>5
  <1>2. CASE UpdateStatus(c) /\ r # Target(c)
    BY <1>2 DEF UpdateStatus, Base, TypeOK
  <1>3. CASE InsertRequest(c)
    BY <1>3 DEF InsertRequest, Base, TypeOK, Requests
  <1>4. CASE ~UpdateStatus(c) /\ ~InsertRequest(c)
    <2>1. requests' = requests
      BY <1>4, MoveKinds DEF Arrives, Finds, FindForEvent, FindForReadiness,
         EvaluateReadiness, Appends, InsertInitialEvent, InsertEvent, Audits,
         AuditCreated, AuditEvent, AuditOperation, AuditStatusChanged,
         RecordAudit, Stops, RejectAfterFind, Abort, tables
    <2>2. QED
      BY <2>1
  <1>5. QED
    BY <1>1, <1>2, <1>3, <1>4

LEMMA ReplacedMoves ==
  ASSUME NEW c \in Calls, Moves(c), ~UpdateStatus(c)
  PROVE  replaced' = replaced
  BY MoveKinds DEF Arrives, Finds, FindForEvent, FindForReadiness,
     EvaluateReadiness, Appends, InsertInitialEvent, InsertEvent, Audits,
     AuditCreated, AuditEvent, AuditOperation, AuditStatusChanged,
     RecordAudit, Stops, RejectAfterFind, Abort, InsertRequest, history

(* What a call has read it keeps, and it is served by what it reads.       *)
LEMMA SeenMoves ==
  ASSUME Base, NEW c \in Calls, NEW d \in Calls, Moves(c), seen'[d] # seen[d]
  PROVE  Serving(d)'
  <1>1. d = c
    BY OthersRest
  <1>2. InsertRequest(c) \/ Finds(c)
    BY MoveKinds DEF Arrives, EvaluateReadiness, UpdateStatus, Appends,
       InsertInitialEvent, InsertEvent, Audits, AuditCreated, AuditEvent,
       AuditOperation, AuditStatusChanged, RecordAudit, Stops,
       RejectAfterFind, Abort, history
  <1>3. QED
    BY <1>1, <1>2 DEF InsertRequest, Finds, FindForEvent, FindForReadiness,
       AfterResolving, Base, TypeOK, Goto, Serving, Running

LEMMA SeenStays ==
  ASSUME Base, NEW c \in Calls, NEW d \in Calls, Moves(c), seen[d] # None
  PROVE  seen'[d] # None
  <1>1. CASE seen'[d] = seen[d]
    BY <1>1
  <1>2. CASE seen'[d] # seen[d]
    BY <1>2, SeenMoves, BaseMoves, AbsentAssumption DEF Base, ControlOK
  <1>3. QED
    BY <1>1, <1>2

(* How a call comes to serve a request: it inserted it, or found it in its *)
(* own tenant, or served it already.                                       *)
LEMMA ServingMoves ==
  ASSUME Base, NEW c \in Calls, NEW d \in Calls, NEW r \in Requests, Moves(c),
         Serving(d)', Target(d)' = r
  PROVE  \/ /\ Serving(d) /\ Target(d) = r
            /\ seen'[d] = seen[d] /\ call'[d] = call[d]
         \/ /\ InsertRequest(c) /\ d = c /\ r = c /\ call'[d] = call[d]
            /\ seen'[d] = [tenant |-> call[c].tenant, status |-> "accepted",
                           revision |-> 0]
         \/ /\ Finds(c) /\ d = c /\ Target(d) = r /\ call'[d] = call[d]
            /\ \E row \in requests[r] :
                 row.tenant = call[d].tenant /\ seen'[d] = row
  <1>1. CASE d # c
    BY <1>1, OthersRest DEF Serving, Target
  <1>2. CASE d = c
    <2> USE <1>2 DEF Base, TypeOK, Goto, At, Serving, Running
    <2>1. CASE \E input, step : Arrives(c, input, step)
      BY <2>1 DEF Arrives
    <2>2. CASE InsertRequest(c)
      BY <2>2 DEF InsertRequest, Target, ControlOK
    <2>3. CASE Finds(c)
      BY <2>3 DEF Finds, FindForEvent, FindForReadiness, Target,
         FindByTenantAndId
    <2>4. CASE EvaluateReadiness(c) \/ UpdateStatus(c)
      BY <2>4 DEF EvaluateReadiness, UpdateStatus, Target
    <2>5. CASE Appends(c) \/ Stops(c)
      BY <2>5 DEF Appends, InsertInitialEvent, InsertEvent, Stops,
         RejectAfterFind, Abort, Target
    <2>6. CASE Audits(c)
      BY <2>6, AuditsRecord DEF RecordAudit, Target
    <2>7. QED
      BY <2>1, <2>2, <2>3, <2>4, <2>5, <2>6, MoveKinds
  <1>3. QED
    BY <1>1, <1>2

--------------------------------------------------------------------------------
(* A row is there only after the call it is named after inserted it, with  *)
(* that call's tenant; a call serves a row of its own tenant, and what it  *)
(* reads, overwrites and leaves in the timeline is of that tenant.         *)
TenantOK ==
  /\ \A r \in Requests : requests[r] # {} =>
       /\ pc[r] \notin {"idle", "insert"} /\ call[r] \in CallInput
       /\ \A row \in requests[r] : row.tenant = call[r].tenant
  /\ \A c \in Calls, r \in Requests : Serving(c) /\ Target(c) = r =>
       requests[r] # {} /\ call[r].tenant = call[c].tenant
  /\ \A r \in Requests : \A e \in Events(r) :
       requests[r] # {} /\ call[r].tenant = e.tenant
  /\ \A c \in Calls : replaced[c] # None =>
       pc[c] # "idle" /\ replaced[c].tenant = call[c].tenant
  /\ \A c \in Calls : seen[c] # None =>
       /\ pc[c] # "idle" /\ Target(c) \in Requests
       /\ seen[c].tenant = call[c].tenant
       /\ requests[Target(c)] # {}
       /\ call[Target(c)].tenant = call[c].tenant
  /\ \A c \in Calls : replaced[c] # None => seen[c] # None

LEMMA TenantInit == Init => TenantOK
  BY DEF Init, TenantOK, Requests, Events, Serving, Running

LEMMA TenantMoves ==
  ASSUME Base, TrailOK, TenantOK, NEW c \in Calls, Moves(c)
  PROVE  TenantOK'
  <1>1. ASSUME NEW r \in Requests, requests'[r] # {}
        PROVE  /\ pc'[r] \notin {"idle", "insert"} /\ call'[r] \in CallInput
               /\ \A row \in requests'[r] : row.tenant = call'[r].tenant
    <2>1. CASE requests[r] # {}
      <3>1. /\ pc[r] \notin {"idle", "insert"} /\ call[r] \in CallInput
            /\ \A row \in requests[r] : row.tenant = call[r].tenant
        BY <2>1 DEF TenantOK
      <3>2. /\ pc'[r] \notin {"idle", "insert"} /\ call'[r] = call[r]
        BY <3>1, Arrived DEF Requests
      <3>3. ~(InsertRequest(c) /\ r = c)
        BY <3>1 DEF InsertRequest, At
      <3>4. QED
        BY <3>1, <3>2, <3>3, RowsMove
    <2>2. CASE requests[r] = {}
      <3>1. /\ InsertRequest(c) /\ r = c
            /\ \A row \in requests'[r] : row.tenant = call[c].tenant
        BY <1>1, <2>2, RowsMove
      <3>2. QED
        BY <3>1 DEF InsertRequest, Base, TypeOK, ControlOK, At, Goto
    <2>3. QED
      BY <2>1, <2>2
  <1>2. ASSUME NEW r \in Requests, requests[r] # {}
        PROVE  requests'[r] # {} /\ call'[r].tenant = call[r].tenant
    <2>1. requests'[r] # {}
      BY <1>2, RowsMove
    <2>2. QED
      BY <1>2, <2>1, Arrived DEF TenantOK, Requests
  <1>3. ASSUME NEW d \in Calls, NEW r \in Requests, Serving(d)', Target(d)' = r
        PROVE  requests'[r] # {} /\ call'[r].tenant = call'[d].tenant
    <2>1. CASE Serving(d) /\ Target(d) = r /\ call'[d] = call[d]
      BY <2>1, <1>2 DEF TenantOK
    <2>2. CASE InsertRequest(c) /\ d = c /\ r = c
      BY <2>2 DEF InsertRequest, Base, TypeOK, Requests
    <2>3. CASE /\ call'[d] = call[d]
               /\ \E row \in requests[r] : row.tenant = call[d].tenant
      BY <2>3, <1>2 DEF TenantOK
    <2>4. \/ Serving(d) /\ Target(d) = r /\ call'[d] = call[d]
          \/ InsertRequest(c) /\ d = c /\ r = c
          \/ /\ call'[d] = call[d]
             /\ \E row \in requests[r] : row.tenant = call[d].tenant
      BY <1>3, ServingMoves
    <2>5. QED
      BY <2>1, <2>2, <2>3, <2>4
  <1>4. ASSUME NEW r \in Requests, NEW e \in Events(r)'
        PROVE  requests'[r] # {} /\ call'[r].tenant = e.tenant
    <2>1. CASE e \in Events(r)
      BY <2>1, <1>2 DEF TenantOK
    <2>2. CASE e \notin Events(r)
      <3>1. Appends(c) /\ r = Target(c) /\ e = EventOf(c)
        BY <1>4, <2>2, TimelineGrows
      <3>2. Serving(c) /\ e.tenant = seen[c].tenant
        BY <3>1 DEF Appends, InsertInitialEvent, InsertEvent, At, Serving,
           Running, EventOf
      <3>3. requests[r] # {} /\ call[r].tenant = e.tenant
        BY <3>1, <3>2 DEF TenantOK, Base, ControlOK
      <3>4. QED
        BY <3>3, <1>2
    <2>3. QED
      BY <2>1, <2>2
  <1>5. ASSUME NEW d \in Calls, replaced'[d] # None
        PROVE  pc'[d] # "idle" /\ replaced'[d].tenant = call'[d].tenant
    <2>1. CASE replaced'[d] = replaced[d]
      BY <1>5, <2>1, Arrived DEF TenantOK
    <2>2. CASE replaced'[d] # replaced[d]
      <3>1. UpdateStatus(c)
        BY <2>2, ReplacedMoves
      <3>2. PICK row \in FindByTenantAndId(seen[c].tenant, Target(c)) :
              replaced' = [replaced EXCEPT ![c] = row]
        BY <3>1 DEF UpdateStatus
      <3>3. d = c /\ replaced'[d] = row /\ row.tenant = seen[c].tenant
        BY <2>2, <3>2 DEF Base, TypeOK, FindByTenantAndId
      <3>4. seen[c].tenant = call[c].tenant /\ call' = call /\ pc'[c] = "event"
        BY <3>1 DEF UpdateStatus, Base, TypeOK, ControlOK, At, Goto, Serving,
           Running
      <3>5. QED
        BY <3>3, <3>4
    <2>3. QED
      BY <2>1, <2>2
  <1>6. ASSUME NEW d \in Calls, seen'[d] # None
        PROVE  /\ pc'[d] # "idle" /\ Target(d)' \in Requests
               /\ seen'[d].tenant = call'[d].tenant
               /\ requests'[Target(d)'] # {}
               /\ call'[Target(d)'].tenant = call'[d].tenant
    <2>1. CASE seen'[d] = seen[d]
      <3>1. /\ pc[d] # "idle" /\ Target(d) \in Requests
            /\ seen[d].tenant = call[d].tenant
            /\ requests[Target(d)] # {}
            /\ call[Target(d)].tenant = call[d].tenant
        BY <1>6, <2>1 DEF TenantOK
      <3>2. pc'[d] # "idle" /\ call'[d] = call[d] /\ Target(d)' = Target(d)
        BY <3>1, Arrived
      <3>3. /\ requests'[Target(d)] # {}
            /\ call'[Target(d)].tenant = call[Target(d)].tenant
        BY <3>1, <1>2
      <3>4. QED
        BY <2>1, <3>1, <3>2, <3>3
    <2>2. CASE seen'[d] # seen[d]
      <3>1. Serving(d)'
        BY <2>2, SeenMoves
      <3>2. /\ pc'[d] # "idle" /\ seen'[d].tenant = call'[d].tenant
            /\ call'[d] \in CallInput
        BY <3>1, BaseMoves DEF Base, ControlOK, Serving, Running
      <3>3. Target(d)' \in Requests
        BY <3>2 DEF Target, CallInput
      <3>4. QED
        BY <3>1, <3>2, <3>3, <1>3
    <2>3. QED
      BY <2>1, <2>2
  <1>7. ASSUME NEW d \in Calls, replaced'[d] # None
        PROVE  seen'[d] # None
    <2>1. CASE replaced'[d] = replaced[d]
      BY <1>7, <2>1, SeenStays DEF TenantOK
    <2>2. CASE replaced'[d] # replaced[d]
      <3>1. UpdateStatus(c)
        BY <2>2, ReplacedMoves
      <3>2. d = c
        BY <2>2, OthersRest
      <3>3. seen' = seen /\ seen[c] \in Row
        BY <3>1 DEF UpdateStatus, Base, ControlOK, At, Serving, Running
      <3>4. QED
        BY <3>2, <3>3, AbsentAssumption
    <2>3. QED
      BY <2>1, <2>2
  <1>8. QED
    BY <1>1, <1>3, <1>4, <1>5, <1>6, <1>7 DEF TenantOK, Requests

LEMMA TenantStutter == TenantOK /\ UNCHANGED vars => TenantOK'
  BY DEF vars, TenantOK, Requests, Events, Serving, Target

LEMMA TenantIsolated == Trail /\ TenantOK => TenantIsolation
  <1> SUFFICES ASSUME Trail, TenantOK PROVE TenantIsolation
    OBVIOUS
  <1>1. ASSUME NEW c \in Calls, seen[c] # None
        PROVE  OfCaller(c, seen[c], Target(c))
    BY <1>1 DEF TenantOK, OfCaller, Requests
  <1>2. ASSUME NEW c \in Calls, replaced[c] # None
        PROVE  OfCaller(c, replaced[c], Target(c))
    BY <1>2 DEF TenantOK, OfCaller, Requests
  <1>3. ASSUME NEW r \in Requests, NEW e \in Events(r)
        PROVE  OfCaller(e.by, e, r)
    BY DEF Trail, TrailOK, TenantOK, OfCaller, EventOf
  <1>4. ASSUME NEW a \in audit
        PROVE  OfCaller(a.by, a, a.request)
    <2>1. a.request \in Requests
      BY DEF Trail, Base, TypeOK, AuditEntry
    <2>2. PICK e \in Events(a.request) : e.by = a.by /\ e.tenant = a.tenant
      BY TrailEntries DEF AuditFollowsEvent
    <2>3. OfCaller(e.by, e, a.request)
      BY <1>3, <2>1
    <2>4. QED
      BY <2>2, <2>3 DEF OfCaller
  <1>5. QED
    BY <1>1, <1>2, <1>3, <1>4 DEF TenantIsolation

--------------------------------------------------------------------------------
(* A row a call serves is no older than the one it read, and the same when *)
(* it has the same revision.                                               *)
RevisionOK ==
  /\ \A c \in Calls, r \in Requests : Serving(c) /\ Target(c) = r =>
       \A row \in requests[r] :
         /\ row.revision >= seen[c].revision
         /\ row.revision = seen[c].revision => row.status = seen[c].status
  /\ \A r \in Requests : \A x, y \in requests[r] : x = y
  /\ \A c \in Calls : replaced[c] # None =>
       /\ pc[c] \in Past \union {"event", "error"}
       /\ call[c].op # "create"
       /\ replaced[c].revision = seen[c].revision =>
            replaced[c].status = seen[c].status

LEMMA RevisionInit == Init => RevisionOK
  BY DEF Init, RevisionOK, Requests, Serving, Running

LEMMA RevisionMoves ==
  ASSUME Base, TenantOK, RevisionOK, NEW c \in Calls, Moves(c)
  PROVE  RevisionOK'
  <1>1. ASSUME NEW d \in Calls, NEW r \in Requests, Serving(d)', Target(d)' = r,
               NEW row \in requests'[r]
        PROVE  /\ row.revision >= seen'[d].revision
               /\ row.revision = seen'[d].revision => row.status = seen'[d].status
    <2> USE DEF Row
    <2>1. CASE /\ Serving(d) /\ Target(d) = r
               /\ seen'[d] = seen[d] /\ call'[d] = call[d]
      <3>1. seen[d] \in Row /\ requests[r] # {}
        BY <2>1 DEF Base, ControlOK, TenantOK
      <3>2. CASE requests'[r] = requests[r]
        BY <1>1, <2>1, <3>2 DEF RevisionOK
      <3>3. CASE InsertRequest(c) /\ r = c
        BY <3>1, <3>3 DEF InsertRequest, At, TenantOK
      <3>4. CASE \E old \in requests[r], new \in Row :
                   /\ old \in Row /\ requests'[r] = {new}
                   /\ new.revision = old.revision + 1
        <4>1. PICK old \in requests[r] : old \in Row /\ row.revision = old.revision + 1
          BY <1>1, <3>4
        <4>2. old.revision >= seen[d].revision
          BY <2>1, <4>1 DEF RevisionOK
        <4>3. QED
          BY <2>1, <3>1, <4>1, <4>2
      <3>5. QED
        BY <3>2, <3>3, <3>4, RowsMove
    <2>2. CASE InsertRequest(c) /\ d = c /\ r = c
      BY <1>1, <2>2 DEF InsertRequest, Base, TypeOK, Requests
    <2>3. CASE Finds(c) /\ \E old \in requests[r] : seen'[d] = old
      <3>1. requests' = requests
        BY <2>3 DEF Finds, FindForEvent, FindForReadiness, tables
      <3>2. row = seen'[d] /\ row \in Row
        BY <1>1, <2>3, <3>1 DEF RevisionOK, Base, TypeOK
      <3>3. QED
        BY <3>2
    <2>4. \/ /\ Serving(d) /\ Target(d) = r
             /\ seen'[d] = seen[d] /\ call'[d] = call[d]
          \/ InsertRequest(c) /\ d = c /\ r = c
          \/ Finds(c) /\ \E old \in requests[r] : seen'[d] = old
      BY <1>1, ServingMoves
    <2>5. QED
      BY <2>1, <2>2, <2>3, <2>4
  <1>2. ASSUME NEW r \in Requests, NEW x \in requests'[r], NEW y \in requests'[r]
        PROVE  x = y
    BY <1>2, RowsMove DEF RevisionOK
  <1>3. ASSUME NEW d \in Calls, replaced'[d] # None
        PROVE  /\ pc'[d] \in Past \union {"event", "error"}
               /\ call'[d].op # "create"
               /\ replaced'[d].revision = seen'[d].revision =>
                    replaced'[d].status = seen'[d].status
    <2>1. CASE replaced'[d] = replaced[d]
      <3>1. /\ pc[d] \in Past \union {"event", "error"}
            /\ call[d].op # "create"
            /\ replaced[d].revision = seen[d].revision =>
                 replaced[d].status = seen[d].status
        BY <1>3, <2>1 DEF RevisionOK
      <3>2. pc'[d] \in Past \union {"event", "error"}
        BY <3>1, EventMoves, Settled DEF Past
      <3>3. QED
        BY <2>1, <3>1, <3>2, Settled
    <2>2. CASE replaced'[d] # replaced[d]
      <3>1. UpdateStatus(c)
        BY <2>2, ReplacedMoves
      <3>2. PICK row \in FindByTenantAndId(seen[c].tenant, Target(c)) :
              replaced' = [replaced EXCEPT ![c] = row]
        BY <3>1 DEF UpdateStatus
      <3>3. d = c /\ replaced'[d] = row /\ row \in requests[Target(c)]
        BY <2>2, <3>2 DEF Base, TypeOK, FindByTenantAndId
      <3>4. /\ Serving(c) /\ Target(c) \in Requests /\ call[c].op # "create"
            /\ call' = call /\ seen' = seen /\ pc'[c] = "event"
        BY <3>1 DEF UpdateStatus, Base, TypeOK, ControlOK, At, Goto, Serving,
           Running, Target, CallInput
      <3>5. row.revision = seen[c].revision => row.status = seen[c].status
        BY <3>3, <3>4 DEF RevisionOK
      <3>6. QED
        BY <3>3, <3>4, <3>5
    <2>3. QED
      BY <2>1, <2>2
  <1>4. QED
    BY <1>1, <1>2, <1>3 DEF RevisionOK, Requests

LEMMA RevisionStutter == RevisionOK /\ UNCHANGED vars => RevisionOK'
  BY DEF vars, RevisionOK, Requests, Serving, Target

LEMMA RevisionTruthful ==
  Base /\ TrailOK /\ RevisionOK => PreviousStatusTruthful
  BY DEF TrailOK, RevisionOK, PreviousStatusTruthful, EventOf, EventPrev

--------------------------------------------------------------------------------
(* The call that wrote the stored status answers for it: it reported it,   *)
(* or it is on its way to, or was cut short before.                        *)
Answers(c, r, status) ==
  /\ call[c] # None /\ Target(c) = r /\ next[c] = status
  /\ \/ Unreported(c)
     \/ At(c, "error") /\ \A e \in Events(r) : e.by # c

ExplainedOK ==
  \A r \in Requests : \A row \in requests[r] :
    \/ \E e \in Events(r) : e.next = row.status
    \/ \E c \in Calls : Answers(c, r, row.status)

LEMMA ExplainedInit == Init => ExplainedOK
  BY DEF Init, ExplainedOK, Requests

LEMMA AnswersMoves ==
  ASSUME Base, TrailOK, NEW c \in Calls, Moves(c), NEW d \in Calls,
         NEW r \in Requests, NEW status \in Statuses, Answers(d, r, status)
  PROVE  \/ \E e \in Events(r)' : e.next = status
         \/ Answers(d, r, status)'
  <1>1. pc[d] \in {"initial_event", "event", "error"}
    BY DEF Answers, Unreported, At
  <1>2. /\ call'[d] = call[d] /\ next'[d] = next[d] /\ Target(d)' = Target(d)
        /\ Changed(d)' = Changed(d)
    BY <1>1, Settled
  <1>3. CASE Appends(c) /\ c = d
    <2>1. Target(c) = r /\ next[c] = status
      BY <1>3 DEF Answers
    <2>2. EventOf(c) \in Events(r)' /\ EventOf(c).next = status
      BY <1>3, <2>1, TimelineGrows, NoneAssumption DEF EventOf, EventNext
    <2>3. QED
      BY <2>2
  <1>4. CASE Appends(c) /\ c # d
    <2>1. \A e \in Events(r)' : e \in Events(r) \/ e.by = c
      BY TimelineGrows DEF EventOf
    <2>2. pc'[d] = pc[d]
      BY <1>4, OthersRest
    <2>3. QED
      BY <1>1, <1>2, <1>4, <2>1, <2>2 DEF Answers, Unreported, At
  <1>5. CASE ~Appends(c)
    <2>1. Events(r)' = Events(r)
      BY <1>5, TimelineGrows
    <2>2. pc'[d] = pc[d] \/ pc'[d] = "error"
      <3>1. CASE d # c
        BY <3>1, OthersRest
      <3>2. CASE d = c
        BY <1>1, <1>5, <3>2, MoveKinds DEF Arrives, InsertRequest, Finds,
           FindForEvent, FindForReadiness, EvaluateReadiness, UpdateStatus,
           Audits, AuditCreated, AuditEvent, AuditOperation,
           AuditStatusChanged, Stops, RejectAfterFind, Abort, At, Goto, Base,
           TypeOK
      <3>3. QED
        BY <3>1, <3>2
    <2>3. pc[d] # "error" => \A e \in Events(r) : e.by # d
      BY <1>1 DEF TrailOK, Past
    <2>4. QED
      BY <1>1, <1>2, <2>1, <2>2, <2>3 DEF Answers, Unreported, At
  <1>6. QED
    BY <1>3, <1>4, <1>5

LEMMA ExplainedMoves ==
  ASSUME Base, TrailOK, ExplainedOK, NEW c \in Calls, Moves(c)
  PROVE  ExplainedOK'
  <1> SUFFICES ASSUME NEW r \in Requests, NEW row \in requests'[r]
               PROVE  \/ \E e \in Events(r)' : e.next = row.status
                      \/ \E d \in Calls : Answers(d, r, row.status)'
    BY DEF ExplainedOK, Requests
  <1>1. CASE row \in requests[r]
    <2>1. row.status \in Statuses
      BY <1>1 DEF Base, TypeOK, Row
    <2>2. CASE \E e \in Events(r) : e.next = row.status
      BY <2>2, TimelineGrows
    <2>3. CASE \E d \in Calls : Answers(d, r, row.status)
      BY <2>1, <2>3, AnswersMoves
    <2>4. QED
      BY <1>1, <2>2, <2>3 DEF ExplainedOK
  <1>2. CASE InsertRequest(c) /\ r = c /\ row.status = "accepted"
    <2>1. /\ call'[c] # None /\ call'[c].request = r /\ next'[c] = row.status
          /\ pc'[c] = "initial_event"
      BY <1>2, AbsentAssumption
         DEF InsertRequest, Base, TypeOK, ControlOK, At, Goto, Target
    <2>2. QED
      BY <2>1 DEF Answers, Unreported, Target, At
  <1>3. CASE UpdateStatus(c) /\ r = Target(c) /\ row.status = next[c]
    <2>1. /\ call'[c] # None /\ call'[c].request = r /\ next'[c] = row.status
          /\ pc'[c] = "event" /\ Changed(c)'
      BY <1>3, AbsentAssumption
         DEF UpdateStatus, Base, TypeOK, ControlOK, At, Goto, Target, Changed
    <2>2. QED
      BY <2>1 DEF Answers, Unreported, Target, At
  <1>4. QED
    <2>1. \/ row \in requests[r]
          \/ InsertRequest(c) /\ r = c /\ row.status = "accepted"
          \/ UpdateStatus(c) /\ r = Target(c) /\ row.status = next[c]
      BY RowsMove
    <2>2. QED
      BY <1>1, <1>2, <1>3, <2>1

LEMMA ExplainedStutter == ExplainedOK /\ UNCHANGED vars => ExplainedOK'
  BY DEF vars, ExplainedOK, Answers, Unreported, Requests, Events, Target,
         Changed, At

LEMMA Explained == ExplainedOK => StatusExplained
  BY DEF ExplainedOK, Answers, StatusExplained, Recorded

--------------------------------------------------------------------------------
(* All of it, of every behaviour of the lifecycle.                         *)
Accounts == Trail /\ TenantOK /\ RevisionOK /\ ExplainedOK

LEMMA AccountsMoves ==
  ASSUME Accounts, NEW c \in Calls, Moves(c)
  PROVE  Accounts'
  BY BaseMoves, TrailMoves, AuditMoves, TenantMoves, RevisionMoves,
     ExplainedMoves DEF Accounts, Trail

LEMMA AccountsStutter == Accounts /\ UNCHANGED vars => Accounts'
  BY BaseStutter, TrailStutter, AuditStutter, TenantStutter, RevisionStutter,
     ExplainedStutter DEF Accounts, Trail

LEMMA AccountsInit == Init => Accounts
  BY BaseInit, TrailInit, AuditInit, TenantInit, RevisionInit, ExplainedInit
     DEF Accounts, Trail

LEMMA AccountsInvariant == Spec => []Accounts
  <1>1. Accounts /\ [Next]_vars => Accounts'
    BY NextMoves, AccountsMoves, AccountsStutter
  <1>2. QED
    BY <1>1, AccountsInit, PTL DEF Spec

(* No audit entry without the event it is about: same call, same tenant,   *)
(* same statuses, already in the timeline of that request.                 *)
THEOREM AuditFollowsTimeline == Spec => []AuditFollowsEvent
  <1>1. Accounts => AuditFollowsEvent
    BY TrailEntries DEF Accounts
  <1>2. QED
    BY <1>1, AccountsInvariant, PTL

(* A call answered with success has left its event and every entry due to  *)
(* it, and the entry of a transition exactly when the event reports one.   *)
THEOREM SuccessIsAudited == Spec => []SuccessLeavesTrail
  <1>1. Accounts => SuccessLeavesTrail
    BY TrailComplete DEF Accounts
  <1>2. QED
    BY <1>1, AccountsInvariant, PTL

(* Whatever calls other tenants make, the row a call read or overwrote and *)
(* the events and entries it left are of its caller's tenant, and so is    *)
(* the request they belong to.                                             *)
THEOREM TenantsStayApart == Spec => []TenantIsolation
  <1>1. Accounts => TenantIsolation
    BY TenantIsolated DEF Accounts
  <1>2. QED
    BY <1>1, AccountsInvariant, PTL

(* The previousStatus of an event is the status its UPDATE overwrote,      *)
(* unless another UPDATE came between the lookup and it.                   *)
THEOREM PreviousStatusHolds == Spec => []PreviousStatusTruthful
  <1>1. Accounts => PreviousStatusTruthful
    BY RevisionTruthful DEF Accounts, Trail
  <1>2. QED
    BY <1>1, AccountsInvariant, PTL

(* A stored status is reported by an event of the timeline, or its writer  *)
(* is on its way to report it or was cut short before it did.              *)
THEOREM StoredStatusExplained == Spec => []StatusExplained
  <1>1. Accounts => StatusExplained
    BY Explained DEF Accounts
  <1>2. QED
    BY <1>1, AccountsInvariant, PTL
=============================================================================
