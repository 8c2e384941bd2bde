---------------------- MODULE CommandPreparation_proofs ----------------------
(***************************************************************************)
(* Theorems of CommandPreparation, for any number of preparations on any   *)
(* requests, with any clients and any calls cut short: what a preparation  *)
(* dispatches and answers, and what it leaves on the timeline and in the   *)
(* audit log.                                                              *)
(*                                                                         *)
(* A recording is a call of the lifecycle like those of a client, so that  *)
(* the invariants of ExecutionLifecycle_proofs are kept by every step of a *)
(* preparation.                                                            *)
(***************************************************************************)
EXTENDS CommandPreparation, ExecutionLifecycle_proofs

(* An event call has resolved the status that its input names.             *)
ResolvedOK ==
  \A c \in Calls : (Serving(c) \/ At(c, "ok")) /\ call[c].op = "event" =>
    next[c] = ResolveNextStatus(call[c].type, call[c].next)

LEMMA ResolvedMoves ==
  ASSUME Base, ResolvedOK, NEW c \in Calls, Moves(c)
  PROVE  ResolvedOK'
  <1> SUFFICES ASSUME NEW d \in Calls, Serving(d)' \/ At(d, "ok")',
                      call'[d].op = "event"
               PROVE  next'[d] = ResolveNextStatus(call'[d].type, call'[d].next)
    BY DEF ResolvedOK, ResolveNextStatus, StatusFromEventType
  <1> USE DEF Serving, At
  <1>1. CASE d # c
    BY <1>1, OthersRest DEF ResolvedOK
  <1>2. CASE d = c
    <2> USE <1>2 DEF Base, TypeOK, Goto, Running
    <2>1. CASE \E input, step : Arrives(c, input, step)
      BY <2>1 DEF Arrives
    <2>2. CASE InsertRequest(c) \/ EvaluateReadiness(c)
      BY <2>2 DEF InsertRequest, EvaluateReadiness, ControlOK
    <2>3. CASE Finds(c)
      BY <2>3 DEF Finds, FindForEvent, FindForReadiness
    <2>4. CASE UpdateStatus(c) \/ Appends(c) \/ Stops(c)
      BY <2>4 DEF UpdateStatus, Appends, InsertInitialEvent, InsertEvent, Stops,
         RejectAfterFind, Abort, ResolvedOK
    <2>5. CASE Audits(c)
      BY <2>5, AuditsRecord DEF RecordAudit, ResolvedOK
    <2>6. QED
      BY <2>1, <2>2, <2>3, <2>4, <2>5, MoveKinds
  <1>3. QED
    BY <1>1, <1>2

LEMMA ResolvedStutter == ResolvedOK /\ UNCHANGED vars => ResolvedOK'
  BY DEF vars, ResolvedOK, Serving, At

LEMMA OkStays ==
  ASSUME Base, NEW c \in Calls, NEW d \in Calls, Moves(c), pc[d] = "ok"
  PROVE  pc'[d] = "ok"
  <1>1. CASE d # c
    BY <1>1, OthersRest
  <1>2. CASE d = c
    BY <1>2, MoveKinds DEF Arrives, InsertRequest, Finds, FindForEvent,
       FindForReadiness, EvaluateReadiness, UpdateStatus, Appends,
       InsertInitialEvent, InsertEvent, Audits, AuditCreated, AuditEvent,
       AuditOperation, AuditStatusChanged, Stops, RejectAfterFind, Abort,
       Running, At
  <1>3. QED
    BY <1>1, <1>2

--------------------------------------------------------------------------------
(* How far a preparation has come fixes the calls it has made.             *)
Input(p, status) ==
  [op |-> "event", tenant |-> job[p].tenant, request |-> job[p].request,
   type |-> status, next |-> None, actor |-> job[p].actor]

OutcomeOK(p) ==
  LET c == OutcomeRecording[p]
  IN /\ pc[c] = "idle" <=> outcome[p] = None
     /\ outcome[p] # None => call[c] = Input(p, outcome[p])

DispatchOK(p) ==
  LET c == DispatchRecording[p]
  IN /\ pc[c] = "idle" <=> dispatched[p] = None
     /\ dispatched[p] # None => call[c] = Input(p, DispatchToStatus(dispatched[p]))

StageOK(p) ==
  /\ stage[p] # "idle" => job[p] \in Job
  /\ outcome[p] # None => stage[p] # "idle"
  /\ stage[p] \in {"idle", "find", "readiness", "references"} => outcome[p] = None
  /\ stage[p] \in {"outcome", "dispatch", "record", "returned"} => outcome[p] # None
  /\ stage[p] \in {"idle", "find", "readiness", "references", "outcome",
                   "dispatch"} => dispatched[p] = None
  /\ stage[p] = "record" => dispatched[p] # None
  /\ stage[p] = "dispatch" \/ dispatched[p] # None =>
       outcome[p] = "accepted" /\ pc[OutcomeRecording[p]] = "ok"
  /\ stage[p] = "returned" =>
       /\ answer[p] = Answer(outcome[p], dispatched[p])
       /\ pc[OutcomeRecording[p]] = "ok"
       /\ dispatched[p] # None => pc[DispatchRecording[p]] = "ok"

PreparationsOK ==
  /\ PreparationTypeOK
  /\ \A p \in Preparations : OutcomeOK(p) /\ DispatchOK(p) /\ StageOK(p)

LEMMA PreparationsInit == PreparationInit => PreparationsOK
  BY RecordingsAssumption
     DEF PreparationInit, Init, PreparationsOK, PreparationTypeOK, OutcomeOK,
         DispatchOK, StageOK, Optional

(* A call of the lifecycle takes a step: no preparation does.              *)
LEMMA PreparationsServe ==
  ASSUME Base, PreparationsOK, NEW c \in Calls, Moves(c),
         UNCHANGED preparationVars, pc[c] = "idle" => c \notin Recordings
  PROVE  PreparationsOK'
  <1>1. \A x \in Recordings :
          /\ x \in Calls
          /\ pc[x] = "idle" <=> pc'[x] = "idle"
          /\ pc[x] # "idle" => call'[x] = call[x]
          /\ pc[x] = "ok" => pc'[x] = "ok"
    BY RecordingsAssumption, OthersRest, Arrived, OkStays DEF Recordings
  <1>2. \A p \in Preparations : /\ OutcomeRecording[p] \in Recordings
                                /\ DispatchRecording[p] \in Recordings
    BY DEF Recordings
  <1>3. PreparationTypeOK'
    BY DEF preparationVars, PreparationsOK, PreparationTypeOK
  <1>4. ASSUME NEW p \in Preparations
        PROVE  OutcomeOK(p)' /\ DispatchOK(p)' /\ StageOK(p)'
    BY <1>1, <1>2 DEF preparationVars, PreparationsOK, OutcomeOK, DispatchOK,
       StageOK, Input
  <1>5. QED
    BY <1>3, <1>4 DEF PreparationsOK

LEMMA RecordingsApart ==
  ASSUME NEW p \in Preparations, NEW q \in Preparations
  PROVE  /\ OutcomeRecording[p] \in Calls /\ DispatchRecording[p] \in Calls
         /\ OutcomeRecording[p] # DispatchRecording[q]
         /\ p # q => /\ OutcomeRecording[p] # OutcomeRecording[q]
                     /\ DispatchRecording[p] # DispatchRecording[q]
  BY RecordingsAssumption

(* Starting a recording is the arrival of a call.                          *)
LEMMA RecordingArrives ==
  ASSUME PreparationsOK, NEW p \in Preparations, NEW c \in Calls,
         NEW status \in OutcomeStatuses, stage[p] # "idle", pc[c] = "idle",
         StartRecording(p, c, status)
  PROVE  Moves(c)
  <1>1. job[p] \in Job /\ status # None
    BY NoneAssumption DEF PreparationsOK, StageOK, OutcomeStatuses, Statuses
  <1>2. Input(p, status) \in CallInput
    BY <1>1 DEF Input, Job, CallInput, OutcomeStatuses, EventTypes, Clients,
       Requests
  <1>3. Arrives(c, Input(p, status), "find")
    BY <1>1, <1>2 DEF StartRecording, Arrives, Input, At
  <1>4. QED
    BY <1>3 DEF Moves

LEMMA PreparationsConclude ==
  ASSUME Base, PreparationsOK, NEW p \in Preparations,
         NEW status \in OutcomeStatuses, Conclude(p, status),
         stage[p] \in {"find", "readiness", "references"},
         UNCHANGED <<job, found, dispatched, answer>>
  PROVE  /\ Moves(OutcomeRecording[p])
         /\ PreparationsOK'
  <1> DEFINE c == OutcomeRecording[p]
  <1>1. c \in Calls /\ pc[c] = "idle" /\ status # None /\ status \in Statuses
    BY RecordingsApart, NoneAssumption
       DEF PreparationsOK, StageOK, OutcomeOK, OutcomeStatuses, Statuses
  <1>2. Moves(c)
    BY <1>1, RecordingArrives DEF Conclude
  <1>3. /\ call' = [call EXCEPT ![c] = Input(p, status)]
        /\ pc' = [pc EXCEPT ![c] = "find"]
        /\ outcome' = [outcome EXCEPT ![p] = status]
        /\ stage' = [stage EXCEPT ![p] = "outcome"]
    BY DEF Conclude, StartRecording, Reach, Goto, Input
  <1>4. PreparationTypeOK'
    BY <1>3 DEF PreparationsOK, PreparationTypeOK, Optional
  <1>5. ASSUME NEW q \in Preparations
        PROVE  OutcomeOK(q)' /\ DispatchOK(q)' /\ StageOK(q)'
    <2>1. CASE q = p
      <3>1. /\ pc'[c] = "find" /\ call'[c] = Input(p, status)
            /\ outcome'[p] = status /\ stage'[p] = "outcome"
        BY <1>1, <1>3 DEF Base, TypeOK, PreparationsOK, PreparationTypeOK
      <3>2. /\ pc'[DispatchRecording[p]] = pc[DispatchRecording[p]]
            /\ call'[DispatchRecording[p]] = call[DispatchRecording[p]]
        BY <1>3, RecordingsApart DEF Base, TypeOK
      <3>3. QED
        BY <1>1, <2>1, <3>1, <3>2
           DEF PreparationsOK, OutcomeOK, DispatchOK, StageOK, Input
    <2>2. CASE q # p
      <3>1. /\ outcome'[q] = outcome[q] /\ stage'[q] = stage[q]
            /\ \A x \in {OutcomeRecording[q], DispatchRecording[q]} :
                 pc'[x] = pc[x] /\ call'[x] = call[x]
        BY <1>3, <2>2, RecordingsApart
           DEF Base, TypeOK, PreparationsOK, PreparationTypeOK
      <3>2. QED
        BY <3>1 DEF PreparationsOK, OutcomeOK, DispatchOK, StageOK, Input
    <2>3. QED
      BY <2>1, <2>2
  <1>6. QED
    BY <1>2, <1>4, <1>5 DEF PreparationsOK

(* A step of one preparation that makes no call.                           *)
LEMMA PreparationsProceed ==
  ASSUME PreparationsOK, NEW p \in Preparations, PreparationTypeOK',
         UNCHANGED <<vars, outcome, dispatched>>,
         \A q \in Preparations \ {p} :
           stage'[q] = stage[q] /\ job'[q] = job[q] /\ answer'[q] = answer[q],
         job'[p] = job[p] \/ (outcome[p] = None /\ dispatched[p] = None),
         StageOK(p)'
  PROVE  PreparationsOK'
  <1>1. UNCHANGED <<pc, call>>
    BY DEF vars
  <1>2. ASSUME NEW q \in Preparations
        PROVE  OutcomeOK(q)' /\ DispatchOK(q)' /\ StageOK(q)'
    <2>1. CASE q = p
      BY <1>1, <2>1 DEF PreparationsOK, OutcomeOK, DispatchOK, Input
    <2>2. CASE q # p
      <3>1. stage'[q] = stage[q] /\ job'[q] = job[q] /\ answer'[q] = answer[q]
        BY <2>2
      <3>2. OutcomeOK(q)' /\ DispatchOK(q)'
        BY <1>1, <3>1 DEF PreparationsOK, OutcomeOK, DispatchOK, Input
      <3>3. StageOK(q)'
        BY <1>1, <3>1 DEF PreparationsOK, StageOK
      <3>4. QED
        BY <3>2, <3>3
    <2>3. QED
      BY <2>1, <2>2
  <1>3. QED
    BY <1>2 DEF PreparationsOK

LEMMA PreparationsDispatch ==
  ASSUME Base, PreparationsOK, NEW p \in Preparations, Dispatch(p)
  PROVE  /\ Moves(DispatchRecording[p])
         /\ PreparationsOK'
  <1> DEFINE c == DispatchRecording[p]
  <1>1. PICK reported \in Reports :
          /\ dispatched' = [dispatched EXCEPT ![p] = reported]
          /\ StartRecording(p, c, DispatchToStatus(reported))
    BY DEF Dispatch
  <1>2. /\ c \in Calls /\ stage[p] = "dispatch" /\ pc[c] = "idle"
        /\ reported # None /\ DispatchToStatus(reported) \in OutcomeStatuses
    BY RecordingsApart, ReportsAssumption, ReportedAssumption
       DEF Dispatch, PreparationsOK, StageOK, DispatchOK, DispatchToStatus,
           OutcomeStatuses
  <1>3. Moves(c)
    BY <1>1, <1>2, RecordingArrives
  <1>4. /\ call' = [call EXCEPT ![c] = Input(p, DispatchToStatus(reported))]
        /\ pc' = [pc EXCEPT ![c] = "find"]
        /\ stage' = [stage EXCEPT ![p] = "record"]
        /\ UNCHANGED <<job, outcome, found, answer>>
    BY <1>1 DEF Dispatch, StartRecording, Reach, Goto, Input
  <1>5. PreparationTypeOK'
    BY <1>1, <1>4 DEF PreparationsOK, PreparationTypeOK, Optional
  <1>6. ASSUME NEW q \in Preparations
        PROVE  OutcomeOK(q)' /\ DispatchOK(q)' /\ StageOK(q)'
    <2>1. CASE q = p
      <3>1. /\ pc'[c] = "find"
            /\ call'[c] = Input(p, DispatchToStatus(reported))
            /\ dispatched'[p] = reported /\ stage'[p] = "record"
        BY <1>1, <1>2, <1>4 DEF Base, TypeOK, PreparationsOK, PreparationTypeOK
      <3>2. /\ pc'[OutcomeRecording[p]] = pc[OutcomeRecording[p]]
            /\ call'[OutcomeRecording[p]] = call[OutcomeRecording[p]]
        BY <1>4, RecordingsApart DEF Base, TypeOK
      <3>3. QED
        BY <1>2, <1>4, <2>1, <3>1, <3>2
           DEF PreparationsOK, OutcomeOK, DispatchOK, StageOK, Input
    <2>2. CASE q # p
      <3>1. /\ dispatched'[q] = dispatched[q] /\ stage'[q] = stage[q]
            /\ \A x \in {OutcomeRecording[q], DispatchRecording[q]} :
                 pc'[x] = pc[x] /\ call'[x] = call[x]
        BY <1>1, <1>4, <2>2, RecordingsApart
           DEF Base, TypeOK, PreparationsOK, PreparationTypeOK
      <3>2. QED
        BY <1>4, <3>1 DEF PreparationsOK, OutcomeOK, DispatchOK, StageOK, Input
    <2>3. QED
      BY <2>1, <2>2
  <1>7. QED
    BY <1>3, <1>5, <1>6 DEF PreparationsOK

(* Every step of a preparation is the arrival of one of its calls, or      *)
(* leaves the lifecycle as it is.                                          *)
LEMMA PreparationsAdvance ==
  ASSUME Base, PreparationsOK, NEW p \in Preparations,
         Prepare(p) \/ Advance(p) \/ Dispatch(p) \/ FailRead(p)
  PROVE  /\ (\E c \in Calls : Moves(c)) \/ UNCHANGED vars
         /\ PreparationsOK'
  <1> USE RecordingsApart DEF Endings
  <1>1. CASE Prepare(p)
    <2>1. PreparationTypeOK'
      BY <1>1 DEF Prepare, Reach, PreparationsOK, PreparationTypeOK, Optional
    <2>2. StageOK(p)' /\ outcome[p] = None /\ dispatched[p] = None
      BY <1>1 DEF Prepare, Reach, PreparationsOK, PreparationTypeOK, StageOK
    <2>3. QED
      BY <1>1, <2>1, <2>2, PreparationsProceed
         DEF Prepare, Reach, PreparationsOK, PreparationTypeOK
  <1>2. CASE ReadRequest(p)
    <2>1. CASE Conclude(p, "blocked") /\ UNCHANGED found
      BY <1>2, <2>1, PreparationsConclude DEF ReadRequest, OutcomeStatuses
    <2>2. CASE ~(Conclude(p, "blocked") /\ UNCHANGED found)
      <3>1. PICK row \in FindByTenantAndId(job[p].tenant, job[p].request) :
              /\ found' = [found EXCEPT ![p] = row.status]
              /\ Reach(p, "readiness")
              /\ UNCHANGED <<vars, outcome, job, dispatched, answer>>
              /\ stage[p] = "find"
        BY <1>2, <2>2 DEF ReadRequest
      <3>2. row.status \in Statuses
        BY <3>1 DEF FindByTenantAndId, Base, TypeOK, PreparationsOK, StageOK,
           Job, Clients, Requests, Row
      <3>3. PreparationTypeOK'
        BY <3>1, <3>2 DEF Reach, PreparationsOK, PreparationTypeOK, Optional
      <3>4. StageOK(p)'
        BY <3>1 DEF Reach, PreparationsOK, PreparationTypeOK, StageOK
      <3>5. QED
        BY <3>1, <3>3, <3>4, PreparationsProceed
           DEF Reach, PreparationsOK, PreparationTypeOK
    <2>3. QED
      BY <2>1, <2>2
  <1>3. CASE JudgeReadiness(p)
    <2>1. CASE Conclude(p, "blocked")
      BY <1>3, <2>1, PreparationsConclude DEF JudgeReadiness, OutcomeStatuses
    <2>2. CASE ~Conclude(p, "blocked")
      <3>1. PreparationTypeOK'
        BY <1>3, <2>2 DEF JudgeReadiness, Reach, PreparationsOK,
           PreparationTypeOK
      <3>2. StageOK(p)'
        BY <1>3, <2>2 DEF JudgeReadiness, Reach, PreparationsOK,
           PreparationTypeOK, StageOK
      <3>3. QED
        BY <1>3, <2>2, <3>1, <3>2, PreparationsProceed
           DEF JudgeReadiness, Reach, PreparationsOK, PreparationTypeOK
    <2>3. QED
      BY <2>1, <2>2
  <1>4. CASE ResolveReferences(p)
    BY <1>4, PreparationsConclude DEF ResolveReferences
  <1>5. CASE Dispatch(p)
    BY <1>5, PreparationsDispatch
  <1>6. CASE AfterOutcome(p) \/ AfterDispatch(p)
    <2>1. Answer(outcome[p], dispatched[p]) \in OutcomeStatuses
      BY <1>6, ReportsAssumption
         DEF AfterOutcome, AfterDispatch, Answer, DispatchToStatus, StageOK,
             PreparationsOK, PreparationTypeOK, Optional, OutcomeStatuses
    <2>2. PreparationTypeOK'
      BY <1>6, <2>1 DEF AfterOutcome, AfterDispatch, Return, Reach,
         PreparationsOK, PreparationTypeOK, Optional
    <2>3. UNCHANGED <<vars, pc, job, outcome, dispatched>>
      BY <1>6 DEF AfterOutcome, AfterDispatch, vars
    <2>4. StageOK(p)'
      BY <1>6, <2>3 DEF AfterOutcome, AfterDispatch, Dispatchable, Return,
         Reach, RecordingSucceeded, At, PreparationsOK, PreparationTypeOK,
         StageOK
    <2>5. QED
      BY <1>6, <2>2, <2>3, <2>4, PreparationsProceed
         DEF AfterOutcome, AfterDispatch, Return, Reach, PreparationsOK,
             PreparationTypeOK
  <1>7. CASE Throw(p) \/ FailRead(p)
    <2>1. PreparationTypeOK'
      BY <1>7 DEF Throw, FailRead, Reach, PreparationsOK, PreparationTypeOK
    <2>2. UNCHANGED <<vars, pc, job, outcome, found, dispatched, answer>>
      BY <1>7 DEF Throw, FailRead, vars
    <2>3. StageOK(p)'
      BY <1>7, <2>2 DEF Throw, FailRead, Raising, Reach, PreparationsOK,
         PreparationTypeOK, StageOK
    <2>4. QED
      BY <1>7, <2>1, <2>2, <2>3, PreparationsProceed
         DEF Throw, FailRead, Reach, PreparationsOK, PreparationTypeOK
  <1>8. QED
    BY <1>1, <1>2, <1>3, <1>4, <1>5, <1>6, <1>7 DEF Advance

--------------------------------------------------------------------------------
(* The event of a dispatch comes after the event of the outcome.           *)
PlacesOK ==
  \A p \in Preparations, r \in Requests :
    \A j \in DOMAIN timeline[r] : timeline[r][j].by = DispatchRecording[p] =>
      \E i \in DOMAIN timeline[r] :
        i < j /\ timeline[r][i].by = OutcomeRecording[p]

(* The event of a call that ended well is somewhere on its timeline.       *)
LEMMA PlaceOf ==
  ASSUME TrailOK, NEW c \in Calls, NEW r \in Requests, pc[c] = "ok",
         Target(c) = r
  PROVE  \E i \in DOMAIN timeline[r] : timeline[r][i] = EventOf(c)
  BY DEF TrailOK, Past, Events

LEMMA PlacesMoves ==
  ASSUME Base, TrailOK, PreparationsOK, PlacesOK, NEW c \in Calls, Moves(c)
  PROVE  PlacesOK'
  <1> SUFFICES ASSUME NEW p \in Preparations, NEW r \in Requests,
                      NEW j \in DOMAIN timeline'[r],
                      timeline'[r][j].by = DispatchRecording[p]
               PROVE  \E i \in DOMAIN timeline'[r] :
                        i < j /\ timeline'[r][i].by = OutcomeRecording[p]
    BY DEF PlacesOK, Requests
  <1>1. CASE timeline'[r] = timeline[r]
    BY <1>1 DEF PlacesOK
  <1>2. CASE timeline'[r] # timeline[r]
    <2>1. Appends(c)
      BY <1>2, MoveKinds DEF Arrives, InsertRequest, Finds, FindForEvent,
         FindForReadiness, EvaluateReadiness, UpdateStatus, Audits,
         AuditCreated, AuditEvent, AuditOperation, AuditStatusChanged,
         RecordAudit, Stops, RejectAfterFind, Abort, tables
    <2>2. /\ AppendEvent(c) /\ pc[c] \in {"initial_event", "event"}
      BY <2>1 DEF Appends, InsertInitialEvent, InsertEvent, At
    <2>3. /\ r = Target(c) /\ timeline'[r] = Append(timeline[r], EventOf(c))
          /\ timeline[r] \in Seq(Event) /\ EventOf(c) \in Event
      BY <1>2, <2>2, EventTyped DEF AppendEvent, Base, TypeOK
    <2>4. /\ DOMAIN timeline[r] = 1..Len(timeline[r])
          /\ DOMAIN timeline'[r] = 1..(Len(timeline[r]) + 1)
          /\ \A i \in DOMAIN timeline[r] : timeline'[r][i] = timeline[r][i]
          /\ timeline'[r][Len(timeline[r]) + 1] = EventOf(c)
          /\ Len(timeline[r]) \in Nat
      BY <2>3
    <2>5. CASE j \in DOMAIN timeline[r]
      BY <2>4, <2>5 DEF PlacesOK
    <2>6. CASE j = Len(timeline[r]) + 1
      <3>1. c = DispatchRecording[p]
        BY <2>4, <2>6 DEF EventOf
      <3>2. /\ dispatched[p] # None /\ outcome[p] # None
            /\ pc[OutcomeRecording[p]] = "ok"
            /\ call[c] = Input(p, DispatchToStatus(dispatched[p]))
            /\ call[OutcomeRecording[p]] = Input(p, outcome[p])
        BY <2>2, <3>1, NoneAssumption
           DEF PreparationsOK, DispatchOK, OutcomeOK, StageOK, Statuses
      <3>3. Target(OutcomeRecording[p]) = r
        BY <2>3, <3>2 DEF Target, Input
      <3>4. PICK i \in DOMAIN timeline[r] :
              timeline[r][i] = EventOf(OutcomeRecording[p])
        BY <3>2, <3>3, PlaceOf, RecordingsApart
      <3>5. timeline'[r][i].by = OutcomeRecording[p]
        BY <2>4, <3>4 DEF EventOf
      <3>6. i \in DOMAIN timeline'[r] /\ i < j
        BY <2>4, <2>6
      <3>7. QED
        BY <3>5, <3>6
    <2>7. QED
      BY <2>4, <2>5, <2>6
  <1>3. QED
    BY <1>1, <1>2

LEMMA PlacesStutter == PlacesOK /\ UNCHANGED vars => PlacesOK'
  BY DEF vars, PlacesOK, Requests

--------------------------------------------------------------------------------
Prepared == Accounts /\ ResolvedOK /\ PreparationsOK /\ PlacesOK

LEMMA PreparedInit == PreparationInit => Prepared
  <1> SUFFICES ASSUME PreparationInit PROVE Prepared
    OBVIOUS
  <1>1. Init
    BY DEF PreparationInit
  <1>2. ResolvedOK /\ PlacesOK
    BY <1>1 DEF Init, ResolvedOK, PlacesOK, Serving, Running, At, Requests
  <1>3. QED
    BY <1>1, <1>2, AccountsInit, PreparationsInit DEF Prepared

LEMMA PreparedStep ==
  ASSUME Prepared, [PreparationNext]_allVars
  PROVE  Prepared'
  <1> USE DEF Prepared, Accounts, Trail
  <1>1. ASSUME (\E c \in Calls : Moves(c)) \/ UNCHANGED vars
        PROVE  Accounts' /\ ResolvedOK' /\ PlacesOK'
    BY <1>1, AccountsMoves, AccountsStutter, ResolvedMoves, ResolvedStutter,
       PlacesMoves, PlacesStutter
  <1>2. CASE \E c \in Clients : Arrive(c)
    <2>1. PICK c \in Clients : Receive(c) /\ UNCHANGED preparationVars
      BY <1>2 DEF Arrive
    <2>2. c \in Calls /\ c \notin Recordings /\ Moves(c)
      BY <2>1, ReceiveArrives DEF Clients, Moves
    <2>3. PreparationsOK'
      BY <2>1, <2>2, PreparationsServe
    <2>4. QED
      BY <1>1, <2>2, <2>3
  <1>3. CASE \E c \in Calls : Serve(c) \/ CutShort(c)
    <2>1. PICK c \in Calls : /\ Step(c) \/ Abort(c)
                             /\ UNCHANGED preparationVars
      BY <1>3 DEF Serve, CutShort
    <2>2. Moves(c) /\ pc[c] # "idle"
      BY <2>1 DEF Moves, Step, InsertRequest, InsertInitialEvent,
         RejectAfterFind, FindForEvent, FindForReadiness, EvaluateReadiness,
         UpdateStatus, InsertEvent, AuditCreated, AuditEvent, AuditOperation,
         AuditStatusChanged, Abort, At, Running
    <2>3. PreparationsOK'
      BY <2>1, <2>2, PreparationsServe
    <2>4. QED
      BY <1>1, <2>2, <2>3
  <1>4. CASE \E p \in Preparations :
               Prepare(p) \/ Advance(p) \/ Dispatch(p) \/ FailRead(p)
    BY <1>1, <1>4, PreparationsAdvance
  <1>5. CASE UNCHANGED allVars
    <2>1. UNCHANGED vars /\ UNCHANGED preparationVars
      BY <1>5 DEF allVars
    <2>2. PreparationsOK'
      BY <2>1 DEF vars, preparationVars, PreparationsOK, PreparationTypeOK,
         OutcomeOK, DispatchOK, StageOK, Input
    <2>3. QED
      BY <1>1, <2>1, <2>2
  <1>6. QED
    BY <1>2, <1>3, <1>4, <1>5 DEF PreparationNext

LEMMA PreparedInvariant == PreparationSpec => []Prepared
  <1>1. Prepared /\ [PreparationNext]_allVars => Prepared'
    BY PreparedStep
  <1>2. QED
    BY <1>1, PreparedInit, PTL DEF PreparationSpec

(* Every field of a preparation keeps its type.                            *)
THEOREM PreparationTypeCorrect == PreparationSpec => []PreparationTypeOK
  <1>1. Prepared => PreparationTypeOK
    BY DEF Prepared, PreparationsOK
  <1>2. QED
    BY <1>1, PreparedInvariant, PTL

(* What the two recordings of a preparation were asked, and what they      *)
(* reported if they ended well.                                            *)
LEMMA RecordingReports ==
  ASSUME Prepared, NEW p \in Preparations, NEW c \in Calls,
         NEW status \in OutcomeStatuses, call[c] = Input(p, status)
  PROVE  /\ Target(c) = job[p].request /\ call[c].tenant = job[p].tenant
         /\ pc[c] = "ok" =>
              /\ EventOf(c).by = c /\ EventOf(c).type = status
              /\ EventOf(c).next = status
              /\ job[p].request \in Requests =>
                   EventOf(c).tenant = job[p].tenant
  <1>1. /\ Target(c) = job[p].request /\ call[c].tenant = job[p].tenant
        /\ call[c].op = "event" /\ call[c].type = status /\ call[c].next = None
    BY DEF Input, Target
  <1>2. status # None /\ StatusFromEventType(status) = status
    BY NoneAssumption DEF StatusFromEventType, OutcomeStatuses, Statuses
  <1>3. ASSUME pc[c] = "ok"
        PROVE  /\ EventOf(c).by = c /\ EventOf(c).type = status
               /\ EventOf(c).next = status
    <2>1. next[c] = status
      BY <1>1, <1>2, <1>3 DEF Prepared, ResolvedOK, ResolveNextStatus, At
    <2>2. QED
      BY <1>1, <1>2, <2>1 DEF EventOf, EventType, EventNext
  <1>4. ASSUME pc[c] = "ok", job[p].request \in Requests
        PROVE  EventOf(c).tenant = job[p].tenant
    <2>1. EventOf(c) \in Events(job[p].request)
      BY <1>1, <1>4 DEF Prepared, Accounts, Trail, TrailOK, Past
    <2>2. seen[c].tenant = call[c].tenant
      BY <1>3, <1>4, <2>1 DEF Prepared, Accounts, Trail, TrailOK
    <2>3. QED
      BY <1>1, <2>2 DEF EventOf
  <1>5. QED
    BY <1>1, <1>3, <1>4

LEMMA AcceptanceFirst == Prepared => DispatchFollowsAcceptance
  <1> SUFFICES ASSUME Prepared, NEW p \in Preparations, NEW c,
                      c = OutcomeRecording[p],
                      stage[p] = "dispatch" \/ dispatched[p] # None
      PROVE  /\ outcome[p] = "accepted"
             /\ Audited(c, "execution_request.event.created")
             /\ \E e \in EventsBy(c) :
                  e.type = "accepted" /\ e.tenant = job[p].tenant
    BY DEF DispatchFollowsAcceptance
  <1>1. /\ outcome[p] = "accepted" /\ pc[c] = "ok" /\ c \in Calls
        /\ outcome[p] # None /\ job[p] \in Job
        /\ call[c] = Input(p, "accepted")
    BY RecordingsApart, NoneAssumption
       DEF Prepared, PreparationsOK, StageOK, OutcomeOK, Statuses
  <1>2. job[p].request \in Requests /\ Target(c) = job[p].request
    BY <1>1 DEF Job, Clients, Requests, Target, Input
  <1>3. /\ EventOf(c).by = c /\ EventOf(c).type = "accepted"
        /\ EventOf(c).tenant = job[p].tenant
    BY <1>1, <1>2, RecordingReports DEF OutcomeStatuses
  <1>4. EventOf(c) \in Events(job[p].request)
    BY <1>1, <1>2 DEF Prepared, Accounts, Trail, TrailOK, Past
  <1>5. EventOf(c) \in EventsBy(c)
    BY <1>2, <1>3, <1>4 DEF EventsBy
  <1>6. Audited(c, "execution_request.event.created")
    BY <1>1 DEF Prepared, Accounts, Trail, AuditOK, StagesOK
  <1>7. QED
    BY <1>1, <1>3, <1>5, <1>6

LEMMA AnswerTold == Prepared => AnswerOnTimeline
  <1> SUFFICES ASSUME Prepared, NEW p \in Preparations, stage[p] = "returned"
      PROVE LET first == OutcomeRecording[p]
                second == DispatchRecording[p]
                events == timeline[job[p].request]
                Places(c) == {i \in DOMAIN events : events[i].by = c}
            IN IF dispatched[p] = None
               THEN /\ Places(second) = {}
                    /\ \E i \in Places(first) : events[i].next = answer[p]
               ELSE \E i \in Places(first), j \in Places(second) :
                      i < j /\ events[j].next = answer[p]
    BY DEF AnswerOnTimeline
  <1> DEFINE r == job[p].request
             first == OutcomeRecording[p]
             second == DispatchRecording[p]
  <1>1. /\ outcome[p] # None /\ outcome[p] \in OutcomeStatuses /\ job[p] \in Job
        /\ answer[p] = Answer(outcome[p], dispatched[p])
        /\ first \in Calls /\ pc[first] = "ok"
        /\ call[first] = Input(p, outcome[p])
    BY RecordingsApart DEF Prepared, PreparationsOK, PreparationTypeOK,
       StageOK, OutcomeOK, Optional
  <1>2. r \in Requests
    BY <1>1 DEF Job, Clients, Requests
  <1>3. CASE dispatched[p] = None
    <2>1. pc[second] = "idle"
      BY <1>3 DEF Prepared, PreparationsOK, DispatchOK
    <2>2. \A j \in DOMAIN timeline[r] : timeline[r][j].by # second
      BY <1>2, <2>1 DEF Prepared, Accounts, Trail, TrailOK, Events, Past
    <2>3. EventOf(first).by = first /\ EventOf(first).next = outcome[p]
      BY <1>1, RecordingReports
    <2>4. PICK i \in DOMAIN timeline[r] : timeline[r][i] = EventOf(first)
      BY <1>1, <1>2, PlaceOf DEF Prepared, Accounts, Trail, Target, Input
    <2>5. answer[p] = outcome[p]
      BY <1>1, <1>3 DEF Answer
    <2>6. QED
      BY <1>3, <2>2, <2>3, <2>4, <2>5
  <1>4. CASE dispatched[p] # None
    <2> DEFINE status == DispatchToStatus(dispatched[p])
    <2>1. /\ second \in Calls /\ pc[second] = "ok"
          /\ call[second] = Input(p, status)
      BY <1>4, RecordingsApart DEF Prepared, PreparationsOK, StageOK, DispatchOK
    <2>2. status \in OutcomeStatuses /\ answer[p] = status
      BY <1>1, <1>4 DEF Answer, DispatchToStatus, OutcomeStatuses
    <2>3. EventOf(second).by = second /\ EventOf(second).next = status
      BY <2>1, <2>2, RecordingReports
    <2>4. PICK j \in DOMAIN timeline[r] : timeline[r][j] = EventOf(second)
      BY <1>2, <2>1, PlaceOf DEF Prepared, Accounts, Trail, Target, Input
    <2>5. PICK i \in DOMAIN timeline[r] : i < j /\ timeline[r][i].by = first
      BY <1>2, <2>3, <2>4 DEF Prepared, PlacesOK
    <2>6. QED
      BY <1>4, <2>2, <2>3, <2>4, <2>5
  <1>5. QED
    BY <1>3, <1>4

LEMMA TenantKept == Prepared => PreparationStaysInTenant
  <1> SUFFICES ASSUME Prepared, NEW p \in Preparations,
                      NEW c \in {OutcomeRecording[p], DispatchRecording[p]}
      PROVE  /\ \A r \in Requests : \A e \in Events(r) : e.by = c =>
                  \A row \in requests[r] : row.tenant = job[p].tenant
             /\ \A a \in audit : a.by = c => a.tenant = job[p].tenant
    BY DEF PreparationStaysInTenant
  <1> USE DEF Prepared, Accounts, Trail
  <1>1. c \in Calls /\ (pc[c] # "idle" => call[c].tenant = job[p].tenant)
    <2>1. OutcomeOK(p) /\ DispatchOK(p)
      BY DEF PreparationsOK
    <2>2. \A status : Input(p, status).tenant = job[p].tenant
      BY DEF Input
    <2>3. c \in Calls
      BY RecordingsApart
    <2>4. ASSUME pc[c] # "idle" PROVE call[c].tenant = job[p].tenant
      BY <2>1, <2>2, <2>4 DEF OutcomeOK, DispatchOK
    <2>5. QED
      BY <2>3, <2>4
  <1>2. ASSUME NEW r \in Requests, NEW e \in Events(r), e.by = c
        PROVE  /\ seen[c].tenant = job[p].tenant
               /\ \A row \in requests[r] : row.tenant = job[p].tenant
    <2>1. /\ pc[c] # "idle" /\ seen[c].tenant = call[c].tenant
          /\ e.tenant = seen[c].tenant
      BY <1>2 DEF TrailOK, Past, EventOf
    <2>2. \A row \in requests[r] : row.tenant = e.tenant
      BY <1>2 DEF TenantOK
    <2>3. QED
      BY <1>1, <2>1, <2>2
  <1>3. ASSUME NEW a \in audit, a.by = c
        PROVE  a.tenant = job[p].tenant
    <2>1. /\ EventOf(c) \in Events(a.request) /\ a.request \in Requests
          /\ a.tenant = seen[c].tenant /\ EventOf(c).by = c
      BY <1>3 DEF AuditOK, EntriesOK, EventOf
    <2>2. QED
      BY <1>2, <2>1
  <1>4. QED
    BY <1>2, <1>3

(* Whatever clients do meanwhile and whichever call is cut short, nothing  *)
(* goes out before the acceptance is on the timeline and in the audit log. *)
THEOREM AcceptanceBeforeDispatch == PreparationSpec => []DispatchFollowsAcceptance
  BY AcceptanceFirst, PreparedInvariant, PTL

(* The status that prepare answers is the one its last event names, and    *)
(* the event of the dispatch comes after that of the outcome.              *)
THEOREM AnswerIsOnTimeline == PreparationSpec => []AnswerOnTimeline
  BY AnswerTold, PreparedInvariant, PTL

(* A preparation leaves no event on, and no audit entry about, a request   *)
(* of another tenant.                                                      *)
THEOREM PreparationInTenant == PreparationSpec => []PreparationStaysInTenant
  BY TenantKept, PreparedInvariant, PTL
==============================================================================
