------------------------- MODULE ExecutionLifecycle -------------------------
(***************************************************************************)
(* The execution-request lifecycle of modules/runtime: the HTTP operations *)
(* create, createEvent, dryRun and demoExecute over the tables             *)
(* execution_requests, execution_request_events and audit_logs.            *)
(*                                                                         *)
(* The service opens no database transaction.  Every repository call is    *)
(* one SQL statement, so an operation is a sequence of awaited statements  *)
(* between which any other operation may run and at which a statement may  *)
(* fail or the process may die.  One action below is one statement with    *)
(* the synchronous code that follows it, up to the next await.             *)
(***************************************************************************)
EXTENDS Naturals, Sequences

CONSTANTS
  Calls,        \* HTTP calls; each runs one operation once
  Tenants,      \* identifiers of tenants
  EventInputs,  \* the (eventType, nextStatus) bodies of POST /:id/events
  ActorShapes,  \* the shapes of x-delfos-actor-id that occur
  Abortable,    \* calls that a failed statement or a server death may cut short
  None          \* an absent optional field

(* gen_random_uuid() gives each inserted request an identifier of its own: *)
(* it is named by the create call that inserts it.                         *)
Requests == Calls

Statuses ==
  {"queued", "accepted", "blocked", "failed", "completed_demo", "not_supported"}

EventTypes ==
  {"requested", "accepted", "status_changed", "blocked", "failed",
   "completed_demo", "not_supported", "note_added"}

Kinds == {"query", "dashboard", "report"}

AuditActions ==
  {"execution_request.created", "execution_request.event.created",
   "execution_request.dry_run_checked", "execution_request.demo_executed",
   "execution_request.status_changed"}

ASSUME NoneAssumption == None \notin Statuses \union EventTypes \union Calls

ASSUME EventInputsAssumption ==
  EventInputs \subseteq [type : EventTypes, next : Statuses \union {None}]

ASSUME ActorShapesAssumption == ActorShapes \subseteq {"object_id", "other"}

ASSUME AbortableAssumption == Abortable \subseteq Calls

----------------------------------------------------------------------------
VARIABLES
  requests,  \* execution_requests: identifier -> set of at most one row
  timeline,  \* execution_request_events: request -> its events, oldest first
  audit,     \* audit_logs
  pc,        \* the statement each call is about to issue, or how it ended
  call,      \* what each call was asked to do
  seen,      \* the row each call read: const executionRequest
  next,      \* the status each call resolved: nextStatus, recommendedStatus
  (* History variables record what happened; no guard of an action reads   *)
  (* them.                                                                 *)
  replaced,  \* the row that each call's UPDATE overwrote
  held,      \* every status a request has had
  orderly    \* calls on the request never overlapped, and none ended between
             \* its status write and the event that reports it

tables == <<requests, timeline, audit>>
history == <<replaced, held, orderly>>
vars == <<requests, timeline, audit, pc, call, seen, next,
          replaced, held, orderly>>

(* revision stands for updated_at, which every UPDATE moves forward.       *)
Row == [tenant : Tenants, status : Statuses, revision : Nat]

CallInput ==
  [op : {"create", "event", "dry_run", "demo"}, tenant : Tenants,
   request : Requests, type : EventTypes \union {None},
   next : Statuses \union {None}, actor : ActorShapes]

Event ==
  [by : Calls, tenant : Tenants, type : EventTypes,
   prev : Statuses \union {None}, next : Statuses]

AuditEntry ==
  [by : Calls, tenant : Tenants, request : Requests, action : AuditActions,
   prev : Statuses \union {None}, next : Statuses]

(* An absent row or input is not mistaken for one.                         *)
ASSUME AbsentAssumption == None \notin CallInput /\ None \notin Row

Ended == {"ok", "rejected", "error"}

Running ==
  {"insert", "initial_event", "audit_created", "find", "evaluate", "update",
   "event", "audit_event", "audit_operation", "audit_status"}

Init ==
  /\ requests = [r \in Requests |-> {}]
  /\ timeline = [r \in Requests |-> <<>>]
  /\ audit = {}
  /\ pc = [c \in Calls |-> "idle"]
  /\ call = [c \in Calls |-> None]
  /\ seen = [c \in Calls |-> None]
  /\ next = [c \in Calls |-> None]
  /\ replaced = [c \in Calls |-> None]
  /\ held = [r \in Requests |-> {}]
  /\ orderly = [r \in Requests |-> TRUE]

----------------------------------------------------------------------------
At(c, step) == pc[c] = step
Goto(c, step) == pc' = [pc EXCEPT ![c] = step]
Target(c) == call[c].request

(* Defect: WHERE id = ? alone.                                             *)
FindById(t, r) == requests[r]

(* WHERE id = ? AND tenant_id = ?                                          *)
FindByTenantAndId(t, r) == {row \in requests[r] : row.tenant = t}

(* The call has got past its lookup or insert and is still running.        *)
Serving(c) == pc[c] \in Running \ {"insert", "find"}

StatusFromEventType(type) ==
  IF type \in {"accepted", "blocked", "failed", "completed_demo",
               "not_supported"}
  THEN type ELSE None

InvalidEventInput(type, nxt) ==
  \/ type = "status_changed" /\ nxt = None
  \/ type = "note_added" /\ nxt # None
  \/ /\ StatusFromEventType(type) # None
     /\ nxt # None
     /\ nxt # StatusFromEventType(type)

ResolveNextStatus(type, nxt) ==
  IF StatusFromEventType(type) # None THEN StatusFromEventType(type) ELSE nxt

DryRunStatus(ready) == IF ready THEN "accepted" ELSE "blocked"
DemoStatus(ready) == IF ready THEN "completed_demo" ELSE "blocked"

(* nextStatus && nextStatus !== previousStatus                             *)
Changes(row, nxt) == nxt # None /\ nxt # row.status
Changed(c) == Changes(seen[c], next[c])
(* Defect: the event is recorded but the row is left as it was.            *)
AfterResolvingNoUpdate(row, nxt) == "event"

(* Defect: a call that changes nothing records no event, only its audit.   *)
AfterResolvingNoNote(row, nxt) ==
  IF Changes(row, nxt) THEN "update" ELSE "audit_event"

AfterResolving(row, nxt) == IF Changes(row, nxt) THEN "update" ELSE "event"

(* What the event of a call reports.                                       *)
EventType(c) ==
  IF call[c].op = "event" THEN call[c].type ELSE next[c]
(* Defect: previousStatus is read from updatedExecutionRequest.            *)
EventPrevFromUpdated(c) ==
  IF call[c].op = "create" THEN None
  ELSE IF next[c] = None THEN seen[c].status ELSE next[c]

EventPrev(c) ==
  IF call[c].op = "create" THEN None ELSE seen[c].status
(* Defect: nextStatus is that of the row read before the update.           *)
EventNextFromRead(c) == seen[c].status

(* Defect: nextStatus without its default, the previous status.            *)
EventNextNoDefault(c) == next[c]

EventNext(c) ==
  IF next[c] = None THEN seen[c].status ELSE next[c]

EventOf(c) ==
  [by |-> c, tenant |-> seen[c].tenant, type |-> EventType(c),
   prev |-> EventPrev(c), next |-> EventNext(c)]

Entry(c, action, prev) ==
  [by |-> c, tenant |-> seen[c].tenant, request |-> Target(c),
   action |-> action, prev |-> prev, next |-> EventNext(c)]

----------------------------------------------------------------------------
(* Arrival.  A create without the definition its kind needs, and a         *)
(* demo-execute with a body, are refused before any statement is issued.   *)

ReceiveCreate(c) ==
  \E t \in Tenants, a \in ActorShapes, kind \in Kinds, given \in SUBSET Kinds :
    /\ At(c, "idle")
    /\ call' = [call EXCEPT ![c] =
                  [op |-> "create", tenant |-> t, request |-> c, type |-> None,
                   next |-> None, actor |-> a]]
    /\ Goto(c, IF kind \in given THEN "insert" ELSE "rejected")
    /\ UNCHANGED <<tables, seen, next, history>>

ReceiveEvent(c) ==
  \E t \in Tenants, r \in Requests, a \in ActorShapes, input \in EventInputs :
    /\ At(c, "idle")
    /\ call' = [call EXCEPT ![c] =
                  [op |-> "event", tenant |-> t, request |-> r,
                   type |-> input.type, next |-> input.next, actor |-> a]]
    /\ Goto(c, "find")
    /\ UNCHANGED <<tables, seen, next, history>>

ReceiveReadiness(c) ==
  \E t \in Tenants, r \in Requests, a \in ActorShapes, op \in {"dry_run", "demo"},
     body \in BOOLEAN :
    /\ At(c, "idle")
    /\ call' = [call EXCEPT ![c] =
                  [op |-> op, tenant |-> t, request |-> r, type |-> None,
                   next |-> None, actor |-> a]]
    /\ Goto(c, IF op = "demo" /\ body THEN "rejected" ELSE "find")
    /\ UNCHANGED <<tables, seen, next, history>>

----------------------------------------------------------------------------
(* Statements of create.                                                   *)

InsertRequest(c) ==
  LET row == [tenant |-> call[c].tenant, status |-> "accepted", revision |-> 0]
  IN /\ At(c, "insert")
     /\ requests' = [requests EXCEPT ![c] = {row}]
     /\ seen' = [seen EXCEPT ![c] = row]
     /\ next' = [next EXCEPT ![c] = "accepted"]
     /\ held' = [held EXCEPT ![c] = @ \union {"accepted"}]
     /\ Goto(c, "initial_event")
     /\ UNCHANGED <<timeline, audit, call, replaced, orderly>>

AppendEvent(c) ==
  timeline' = [timeline EXCEPT ![Target(c)] = Append(@, EventOf(c))]

InsertInitialEvent(c) ==
  /\ At(c, "initial_event")
  /\ AppendEvent(c)
  /\ Goto(c, "audit_created")
  /\ UNCHANGED <<requests, audit, call, seen, next, history>>

----------------------------------------------------------------------------
(* Statements of the operations on an existing request.                    *)

(* 404: no such request in this tenant; 400: createEvent reads the request *)
(* before it validates the pair (eventType, nextStatus).                   *)
RejectAfterFind(c) ==
  /\ At(c, "find")
  /\ \/ FindByTenantAndId(call[c].tenant, Target(c)) = {}
     \/ call[c].op = "event" /\ InvalidEventInput(call[c].type, call[c].next)
  /\ Goto(c, "rejected")
  /\ UNCHANGED <<tables, call, seen, next, history>>

NoteArrival(c) ==
  orderly' = [orderly EXCEPT ![Target(c)] =
                @ /\ \A d \in Calls : ~(Serving(d) /\ Target(d) = Target(c))]

FindForEvent(c) ==
  /\ At(c, "find")
  /\ call[c].op = "event"
  /\ ~InvalidEventInput(call[c].type, call[c].next)
  /\ \E row \in FindByTenantAndId(call[c].tenant, Target(c)) :
       LET nxt == ResolveNextStatus(call[c].type, call[c].next)
       IN /\ seen' = [seen EXCEPT ![c] = row]
          /\ next' = [next EXCEPT ![c] = nxt]
          /\ Goto(c, AfterResolving(row, nxt))
  /\ NoteArrival(c)
  /\ UNCHANGED <<tables, call, replaced, held>>

FindForReadiness(c) ==
  /\ At(c, "find")
  /\ call[c].op \in {"dry_run", "demo"}
  /\ \E row \in FindByTenantAndId(call[c].tenant, Target(c)) :
       seen' = [seen EXCEPT ![c] = row]
  /\ Goto(c, "evaluate")
  /\ NoteArrival(c)
  /\ UNCHANGED <<tables, call, next, replaced, held>>

(* The readiness service only reads the catalog, which other calls edit:   *)
(* either verdict is possible here.                                        *)
EvaluateReadiness(c) ==
  \E ready \in BOOLEAN :
    LET nxt == IF call[c].op = "dry_run" THEN DryRunStatus(ready)
                                         ELSE DemoStatus(ready)
    IN /\ At(c, "evaluate")
       /\ next' = [next EXCEPT ![c] = nxt]
       /\ Goto(c, AfterResolving(seen[c], nxt))
       /\ UNCHANGED <<tables, call, seen, history>>

(* UPDATE ... WHERE id AND tenant_id: whatever the status is by now.       *)
UpdateStatus(c) ==
  /\ At(c, "update")
  /\ \E row \in FindByTenantAndId(seen[c].tenant, Target(c)) :
       /\ requests' = [requests EXCEPT ![Target(c)] =
                         {[row EXCEPT !.status = next[c], !.revision = @ + 1]}]
       /\ replaced' = [replaced EXCEPT ![c] = row]
  /\ held' = [held EXCEPT ![Target(c)] = @ \union {next[c]}]
  /\ Goto(c, "event")
  /\ UNCHANGED <<timeline, audit, call, seen, next, orderly>>

InsertEvent(c) ==
  /\ At(c, "event")
  /\ AppendEvent(c)
  /\ Goto(c, "audit_event")
  /\ UNCHANGED <<requests, audit, call, seen, next, history>>

----------------------------------------------------------------------------
(* Defect: a call whose audit INSERT fails issues it again until it works. *)
RecordAuditRetrying(c, action, prev, step) ==
  /\ IF call[c].actor = "object_id"
     THEN UNCHANGED <<audit, pc>>
     ELSE audit' = audit \union {Entry(c, action, prev)} /\ Goto(c, step)
  /\ UNCHANGED <<requests, timeline, call, seen, next, history>>

(* Audit.  toAuditActorUserId forwards an actor identifier only when it    *)
(* has the 24 hexadecimal digits of an ObjectId; actor_user_id is a uuid   *)
(* column, so the INSERT of such an entry is an error and the call fails.  *)
RecordAudit(c, action, prev, step) ==
  /\ IF call[c].actor = "object_id"
     THEN audit' = audit /\ Goto(c, "error")
     ELSE audit' = audit \union {Entry(c, action, prev)} /\ Goto(c, step)
  /\ UNCHANGED <<requests, timeline, call, seen, next, history>>

(* Defect: the audit of the transition is left out.                        *)
AfterOperationNoTransition(c) == "ok"

AfterOperation(c) == IF Changed(c) THEN "audit_status" ELSE "ok"

AuditCreated(c) ==
  /\ At(c, "audit_created")
  /\ RecordAudit(c, "execution_request.created", None, "audit_event")

AfterEventAudit(c) ==
  CASE call[c].op = "create" -> "ok"
    [] call[c].op = "event" -> AfterOperation(c)
    [] OTHER -> "audit_operation"

AuditEvent(c) ==
  /\ At(c, "audit_event")
  /\ RecordAudit(c, "execution_request.event.created", EventPrev(c),
                 AfterEventAudit(c))

AuditOperation(c) ==
  /\ At(c, "audit_operation")
  /\ RecordAudit(c, IF call[c].op = "dry_run"
                    THEN "execution_request.dry_run_checked"
                    ELSE "execution_request.demo_executed",
                 None, AfterOperation(c))

AuditStatusChanged(c) ==
  /\ At(c, "audit_status")
  /\ RecordAudit(c, "execution_request.status_changed", EventPrev(c), "ok")

----------------------------------------------------------------------------
(* The call has written a status that no event reports yet.                *)
Unreported(c) ==
  \/ At(c, "initial_event")
  \/ At(c, "event") /\ Changed(c)

(* The next statement raises, or the server dies, after what was already   *)
(* committed.                                                              *)
Abort(c) ==
  /\ c \in Abortable
  /\ pc[c] \in Running
  /\ Goto(c, "error")
  /\ orderly' = [r \in Requests |->
                   orderly[r] /\ ~(Unreported(c) /\ Target(c) = r)]
  /\ UNCHANGED <<tables, call, seen, next, replaced, held>>

Receive(c) == ReceiveCreate(c) \/ ReceiveEvent(c) \/ ReceiveReadiness(c)

Step(c) ==
  \/ InsertRequest(c) \/ InsertInitialEvent(c)
  \/ RejectAfterFind(c) \/ FindForEvent(c) \/ FindForReadiness(c)
  \/ EvaluateReadiness(c) \/ UpdateStatus(c) \/ InsertEvent(c)
  \/ AuditCreated(c) \/ AuditEvent(c) \/ AuditOperation(c)
  \/ AuditStatusChanged(c)

Next == \E c \in Calls : Receive(c) \/ Step(c) \/ Abort(c)

Spec == Init /\ [][Next]_vars

(* A call that was received goes on to its next statement; no call is      *)
(* bound to be made.                                                       *)
FairSpec == Spec /\ \A c \in Calls : WF_vars(Step(c))
----------------------------------------------------------------------------
(* Properties.                                                             *)

Optional(S) == S \union {None}

TypeOK ==
  /\ requests \in [Requests -> SUBSET Row]
  /\ timeline \in [Requests -> Seq(Event)]
  /\ audit \subseteq AuditEntry
  /\ pc \in [Calls -> {"idle"} \union Running \union Ended]
  /\ call \in [Calls -> Optional(CallInput)]
  /\ seen \in [Calls -> Optional(Row)]
  /\ next \in [Calls -> Optional(Statuses)]
  /\ replaced \in [Calls -> Optional(Row)]
  /\ held \in [Requests -> SUBSET Statuses]
  /\ orderly \in [Requests -> BOOLEAN]

Events(r) == {timeline[r][i] : i \in DOMAIN timeline[r]}

Recorded(c) ==
  call[c] # None /\ \E e \in Events(Target(c)) : e.by = c

(* The timeline never reports a status the request has not had: whatever   *)
(* the interleaving and wherever a call is cut short, both statuses of an  *)
(* event were once stored in the request's row.                            *)
EventsReportHeldStatuses ==
  \A r \in Requests : \A e \in Events(r) :
    e.next \in held[r] /\ e.prev \in Optional(held[r])

(* The previousStatus of a transition is the status the UPDATE overwrote,  *)
(* unless another call's UPDATE came between this call's lookup and its    *)
(* own (the row it overwrote is not the row it read).                      *)
PreviousStatusTruthful ==
  \A r \in Requests : \A e \in Events(r) :
    LET was == replaced[e.by]
    IN was # None /\ was.revision = seen[e.by].revision => was.status = e.prev

(* The stored status is always accounted for: some event of the timeline   *)
(* reports it, or the call that wrote it has not recorded its event, being *)
(* on its way to it or cut short before it.                                *)
StatusExplained ==
  \A r \in Requests : \A row \in requests[r] :
    \/ \E e \in Events(r) : e.next = row.status
    \/ \E c \in Calls : /\ call[c] # None /\ Target(c) = r
                        /\ next[c] = row.status
                        /\ \/ Unreported(c)
                           \/ At(c, "error") /\ ~Recorded(c)

(* Calls that never overlap leave a timeline that is the request's         *)
(* history: it opens with the initial event, each event starts from the    *)
(* status the one before it ended in, and the last one names the stored    *)
(* status.                                                                 *)
OrderlyTimeline ==
  \A r \in Requests : \A row \in requests[r] :
    LET events == timeline[r]
    IN /\ orderly[r]
       /\ \A c \in Calls : Unreported(c) => Target(c) # r
       => /\ events # <<>>
          /\ events[1].prev = None
          /\ \A i \in 2..Len(events) : events[i].prev = events[i - 1].next
          /\ events[Len(events)].next = row.status

(* The audit log never runs ahead of the timeline: an entry is about an    *)
(* event already recorded for that request, by the same call, with the     *)
(* same outcome; the statuses an entry compares are those of the event.    *)
AuditFollowsEvent ==
  \A a \in audit : \E e \in Events(a.request) :
    /\ e.by = a.by /\ e.tenant = a.tenant /\ e.next = a.next
    /\ a.prev # None => a.prev = e.prev

Audited(c, action) ==
  \E a \in audit : a.by = c /\ a.action = action

(* A call that is answered with success has left its whole trail: its      *)
(* event, the audit of the event, the audit of the operation, and the      *)
(* audit of the transition exactly when the event reports one.             *)
SuccessLeavesTrail ==
  \A c \in Calls : At(c, "ok") =>
    \E e \in Events(Target(c)) :
      /\ e.by = c
      /\ Audited(c, "execution_request.event.created")
      /\ call[c].op = "create" => Audited(c, "execution_request.created")
      /\ call[c].op = "dry_run" =>
           Audited(c, "execution_request.dry_run_checked")
      /\ call[c].op = "demo" => Audited(c, "execution_request.demo_executed")
      /\ Audited(c, "execution_request.status_changed") <=>
           e.prev \notin {None, e.next}

(* x, which belongs to request r, is of the tenant that c was called for,  *)
(* and so is r.                                                            *)
OfCaller(c, x, r) ==
  /\ x.tenant = call[c].tenant
  /\ \A row \in requests[r] : row.tenant = x.tenant

(* No call reaches a request of another tenant, however it came by the     *)
(* identifier: the row it read, the row it overwrote, and every event and  *)
(* audit entry it left are of the tenant it was called for, and so is the  *)
(* request that they belong to.                                            *)
TenantIsolation ==
  /\ \A c \in Calls :
       /\ seen[c] # None => OfCaller(c, seen[c], Target(c))
       /\ replaced[c] # None => OfCaller(c, replaced[c], Target(c))
  /\ \A r \in Requests : \A e \in Events(r) : OfCaller(e.by, e, r)
  /\ \A a \in audit : OfCaller(a.by, a, a.request)

(* The tables implement the ledger: see RequestLedger for what that        *)
(* promises to whoever reads them.                                         *)
Ledger == INSTANCE RequestLedger WITH
  Writers <- Calls,
  Initial <- "accepted",
  Attestations <- AuditActions,
  OfTransition <- "execution_request.status_changed",
  status <- [r \in Requests |-> {row.status : row \in requests[r]}],
  recorded <- UNION {{[by |-> e.by, request |-> r, prev |-> e.prev,
                       next |-> e.next] : e \in Events(r)} : r \in Requests},
  attested <- {[by |-> a.by, request |-> a.request, kind |-> a.action] :
                 a \in audit}

ImplementsLedger == Ledger!Spec

(* Every call that was received is answered.                               *)
EveryCallEnds ==
  \A c \in Calls : pc[c] \in Running ~> pc[c] \in Ended

----------------------------------------------------------------------------
(* What the documents say and the code does not do.                        *)

Quiet == \A c \in Calls : pc[c] \notin Running

(* An accepted, blocked, failed, completed_demo or not_supported event     *)
(* defines the status: once every call has ended, the status of a request  *)
(* is the one its newest event defines.                                    *)
NewestEventDefinesStatus ==
  Quiet => \A r \in Requests : \A row \in requests[r] :
             LET newest == timeline[r][Len(timeline[r])]
             IN StatusFromEventType(newest.type) \in {None, row.status}

(* Every transition of the status emits an audit entry: once every call    *)
(* has ended, each UPDATE that was issued has its status_changed entry.    *)
TransitionsAudited ==
  Quiet => \A c \in Calls :
             replaced[c] # None => Audited(c, "execution_request.status_changed")

=============================================================================
