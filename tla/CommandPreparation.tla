------------------------- MODULE CommandPreparation -------------------------
(***************************************************************************)
(* ConnectorCommandPreparationService.prepare over the execution-request   *)
(* lifecycle: the bridge resolver reads the request and the catalog and    *)
(* reaches one outcome; the outcome is recorded as an event of the request *)
(* (a whole createEvent: lookup, status update, event, audits); a prepared *)
(* command is then dispatched and the result is recorded as a second       *)
(* event.  Every await is a point where other calls on the same request    *)
(* run.                                                                    *)
(***************************************************************************)
EXTENDS ExecutionLifecycle, ResolverOutcomes

CONSTANTS
  Preparations,      \* calls of prepare
  OutcomeRecording,  \* the createEvent call in which each records its outcome
  DispatchRecording, \* and the one in which it records its dispatch
  Reports            \* the statuses that a dispatch comes back with

ASSUME RecordingsAssumption ==
  /\ OutcomeRecording \in [Preparations -> Calls]
  /\ DispatchRecording \in [Preparations -> Calls]
  /\ \A p, q \in Preparations :
       /\ OutcomeRecording[p] # DispatchRecording[q]
       /\ p # q => /\ OutcomeRecording[p] # OutcomeRecording[q]
                   /\ DispatchRecording[p] # DispatchRecording[q]

Recordings ==
  {OutcomeRecording[p] : p \in Preparations} \union
  {DispatchRecording[p] : p \in Preparations}

(* The calls that arrive over HTTP.                                        *)
Clients == Calls \ Recordings

(* The statuses that a connector may answer with.                          *)
ConnectorStatuses ==
  {"created", "queued", "accepted", "running", "blocked", "completed",
   "completed_demo", "failed", "cancelled", "expired", "not_supported"}

ASSUME ReportsAssumption == Reports \subseteq ConnectorStatuses

(* No answer of a connector is the absence of one.                         *)
ASSUME ReportedAssumption == None \notin ConnectorStatuses

VARIABLES
  stage,       \* the await each preparation is at, or how it ended
  job,         \* its input
  outcome,     \* the status of the resolver's event
  found,       \* the status of the request when the resolver read it
  dispatched,  \* the status that dispatch reported
  answer       \* the status that prepare returned

preparationVars == <<stage, job, outcome, found, dispatched, answer>>
allVars == <<vars, preparationVars>>

(* Requests come into being through the clients' calls.                    *)
Job == [tenant : Tenants, request : Clients, actor : ActorShapes]

PreparationInit ==
  /\ Init
  /\ stage = [p \in Preparations |-> "idle"]
  /\ job = [p \in Preparations |-> None]
  /\ outcome = [p \in Preparations |-> None]
  /\ found = [p \in Preparations |-> None]
  /\ dispatched = [p \in Preparations |-> None]
  /\ answer = [p \in Preparations |-> None]

Reach(p, s) == stage' = [stage EXCEPT ![p] = s]

(* ConnectorBridgeEventRecorder.record: an event type for each status, no  *)
(* nextStatus, and the actor of the preparation.                           *)
StartRecording(p, c, status) ==
  /\ call' = [call EXCEPT ![c] =
                [op |-> "event", tenant |-> job[p].tenant,
                 request |-> job[p].request, type |-> status, next |-> None,
                 actor |-> job[p].actor]]
  /\ Goto(c, "find")
  /\ UNCHANGED <<tables, seen, next, history>>

RecordingSucceeded(c) == At(c, "ok")
RecordingFailed(c) == pc[c] \in Ended /\ ~RecordingSucceeded(c)

----------------------------------------------------------------------------
(* The resolver, as far as its caller can tell: the request is read from   *)
(* the table, the catalog may be anything, and a part ends the call as     *)
(* ResolverOutcomes says it may.                                           *)

Prepare(p) ==
  /\ stage[p] = "idle"
  /\ \E j \in Job : job' = [job EXCEPT ![p] = j]
  /\ Reach(p, "find")
  /\ UNCHANGED <<vars, outcome, found, dispatched, answer>>

(* prepareCommand returns one event, which prepare goes on to record.      *)
Conclude(p, status) ==
  /\ outcome' = [outcome EXCEPT ![p] = status]
  /\ Reach(p, "outcome")
  /\ StartRecording(p, OutcomeRecording[p], status)

(* execution_request_not_found is an outcome like the others.              *)
ReadRequest(p) ==
  /\ stage[p] = "find"
  /\ \/ /\ FindByTenantAndId(job[p].tenant, job[p].request) = {}
        /\ \E status \in Endings.find : Conclude(p, status)
        /\ UNCHANGED found
     \/ /\ \E row \in FindByTenantAndId(job[p].tenant, job[p].request) :
             found' = [found EXCEPT ![p] = row.status]
        /\ Reach(p, "readiness")
        /\ UNCHANGED <<vars, outcome>>
  /\ UNCHANGED <<job, dispatched, answer>>

(* A blocker ends the preparation.                                         *)
JudgeReadiness(p) ==
  /\ stage[p] = "readiness"
  /\ \/ \E status \in Endings.readiness : Conclude(p, status)
     \/ Reach(p, "references") /\ UNCHANGED <<vars, outcome>>
  /\ UNCHANGED <<job, found, dispatched, answer>>

(* References, and with no await after them capability, limits, metadata,  *)
(* command and its validation.                                             *)
ResolveReferences(p) ==
  /\ stage[p] = "references"
  /\ \E status \in Endings.references : Conclude(p, status)
  /\ UNCHANGED <<job, found, dispatched, answer>>

----------------------------------------------------------------------------
(* The service.                                                            *)

(* Defect: the status of the answer is always the resolver's.              *)
AnswerFromOutcome(status, reported) == status

(* Defect: the connector's status is recorded as it is.                    *)
DispatchToStatusVerbatim(reported) == reported

DispatchToStatus(reported) ==
  IF reported \in {"failed", "not_supported"} THEN reported ELSE "accepted"

(* dispatch ? dispatchToStatus(dispatch) : deriveStatus(result)            *)
Answer(status, reported) ==
  IF reported = None THEN status ELSE DispatchToStatus(reported)

Return(p) ==
  /\ answer' = [answer EXCEPT ![p] = Answer(outcome[p], dispatched[p])]
  /\ Reach(p, "returned")

(* Defect: a command goes out whatever the resolver concluded.             *)
DispatchableAnyway(p) == TRUE

(* result.prepared && result.command                                       *)
Dispatchable(p) == outcome[p] = "accepted"

AfterOutcome(p) ==
  /\ stage[p] = "outcome"
  /\ RecordingSucceeded(OutcomeRecording[p])
  /\ IF Dispatchable(p) THEN Reach(p, "dispatch") /\ UNCHANGED answer
                        ELSE Return(p)
  /\ UNCHANGED <<vars, job, outcome, found, dispatched>>

(* The dispatch port never throws: it reports failures as a status.        *)
Dispatch(p) ==
  /\ stage[p] = "dispatch"
  /\ \E reported \in Reports :
       /\ dispatched' = [dispatched EXCEPT ![p] = reported]
       /\ StartRecording(p, DispatchRecording[p], DispatchToStatus(reported))
  /\ Reach(p, "record")
  /\ UNCHANGED <<job, outcome, found, answer>>

AfterDispatch(p) ==
  /\ stage[p] = "record"
  /\ RecordingSucceeded(DispatchRecording[p])
  /\ Return(p)
  /\ UNCHANGED <<vars, job, outcome, found, dispatched>>

(* Defect: the rejection of a recording reaches nobody.                    *)
ThrowNever(p) == FALSE /\ UNCHANGED allVars

(* createEvent throws, and so does prepare.                                *)
Throw(p) ==
  /\ \/ stage[p] = "outcome" /\ RecordingFailed(OutcomeRecording[p])
     \/ stage[p] = "record" /\ RecordingFailed(DispatchRecording[p])
  /\ Reach(p, "threw")
  /\ UNCHANGED <<vars, job, outcome, found, dispatched, answer>>

(* A read of the resolver raises.                                          *)
FailRead(p) ==
  /\ stage[p] \in Raising
  /\ Reach(p, "threw")
  /\ UNCHANGED <<vars, job, outcome, found, dispatched, answer>>

Advance(p) ==
  \/ ReadRequest(p) \/ JudgeReadiness(p) \/ ResolveReferences(p)
  \/ AfterOutcome(p) \/ AfterDispatch(p) \/ Throw(p)

Arrive(c) == Receive(c) /\ UNCHANGED preparationVars
Serve(c) == Step(c) /\ UNCHANGED preparationVars
CutShort(c) == Abort(c) /\ UNCHANGED preparationVars

PreparationNext ==
  \/ \E c \in Clients : Arrive(c)
  \/ \E c \in Calls : Serve(c) \/ CutShort(c)
  \/ \E p \in Preparations :
       Prepare(p) \/ Advance(p) \/ Dispatch(p) \/ FailRead(p)

PreparationSpec == PreparationInit /\ [][PreparationNext]_allVars

(* Every await of a preparation and of a call is answered or fails, except *)
(* that of the dispatch: its promise may never settle (CloseInsideResponse *)
(* of CredentialDispatch), so Dispatch is not owed.                        *)
FairPreparationSpec ==
  /\ PreparationSpec
  /\ \A p \in Preparations : WF_allVars(Advance(p))
  /\ \A c \in Calls : WF_allVars(Serve(c))
----------------------------------------------------------------------------
PreparationTypeOK ==
  /\ stage \in [Preparations ->
       {"idle", "find", "readiness", "references", "outcome", "dispatch",
        "record", "returned", "threw"}]
  /\ job \in [Preparations -> Optional(Job)]
  /\ outcome \in [Preparations -> Optional(OutcomeStatuses)]
  /\ found \in [Preparations -> Optional(Statuses)]
  /\ dispatched \in [Preparations -> Optional(Reports)]
  /\ answer \in [Preparations -> Optional(OutcomeStatuses)]

EventsBy(c) == {e \in Events(Target(c)) : e.by = c}

(* Nothing is dispatched before the acceptance is on the record: when the  *)
(* connector is called, the request's own tenant has an accepted event of  *)
(* this preparation on the timeline and its entry in the audit log.        *)
DispatchFollowsAcceptance ==
  \A p \in Preparations : stage[p] = "dispatch" \/ dispatched[p] # None =>
    LET c == OutcomeRecording[p]
    IN /\ outcome[p] = "accepted"
       /\ Audited(c, "execution_request.event.created")
       /\ \E e \in EventsBy(c) : e.type = "accepted" /\ e.tenant = job[p].tenant

(* What prepare answers is what the timeline says: the last event that it  *)
(* recorded names the status it returns, and it recorded one event, or two *)
(* when it dispatched, the dispatch after the outcome.                     *)
AnswerOnTimeline ==
  \A p \in Preparations : stage[p] = "returned" =>
    LET first == OutcomeRecording[p]
        second == DispatchRecording[p]
        events == timeline[job[p].request]
        Places(c) == {i \in DOMAIN events : events[i].by = c}
    IN IF dispatched[p] = None
       THEN /\ Places(second) = {}
            /\ \E i \in Places(first) : events[i].next = answer[p]
       ELSE \E i \in Places(first), j \in Places(second) :
              i < j /\ events[j].next = answer[p]

(* A preparation leaves no trace on a request of another tenant, and none  *)
(* at all when it finds no request.                                        *)
PreparationStaysInTenant ==
  \A p \in Preparations : \A c \in {OutcomeRecording[p], DispatchRecording[p]} :
    /\ \A r \in Requests : \A e \in Events(r) :
         e.by = c => \A row \in requests[r] : row.tenant = job[p].tenant
    /\ \A a \in audit : a.by = c => a.tenant = job[p].tenant

(* A preparation waits for its connector or it comes to its end: again and *)
(* again each of them is at the dispatch or has returned or thrown, and    *)
(* none goes back to what it has left, so one that dispatches and is       *)
(* answered, or does not dispatch, returns or throws.                      *)
PreparationEnds ==
  []<>(\A p \in Preparations :
         stage[p] \in {"idle", "dispatch", "returned", "threw"})

----------------------------------------------------------------------------
(* What the comments and documents say and the code does not do.           *)

(* Every outcome that the resolver reaches is recorded on the timeline:    *)
(* once the recording has ended, the event is there.                       *)
OutcomeRecorded ==
  \A p \in Preparations :
    outcome[p] # None /\ pc[OutcomeRecording[p]] \in Ended =>
      EventsBy(OutcomeRecording[p]) # {}

(* The status of the request is validated before a command is prepared:    *)
(* a request that was found failed or completed is not dispatched.         *)
EndedRequestNotDispatched ==
  \A p \in Preparations :
    dispatched[p] # None => found[p] \notin {"failed", "completed_demo"}
=============================================================================
