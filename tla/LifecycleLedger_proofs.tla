------------------------ MODULE LifecycleLedger_proofs ------------------------
(***************************************************************************)
(* ExecutionLifecycle implements RequestLedger, step by step, and calls    *)
(* that never overlap leave a timeline that is the request's history.      *)
(***************************************************************************)
EXTENDS ExecutionLifecycle_proofs

(* The ledger, as Ledger's substitutions read it off the tables.           *)
LedgerStatus == [r \in Requests |-> {row.status : row \in requests[r]}]

LedgerRecorded ==
  UNION {{[by |-> e.by, request |-> r, prev |-> e.prev, next |-> e.next] :
            e \in Events(r)} : r \in Requests}

LedgerAttested ==
  {[by |-> a.by, request |-> a.request, kind |-> a.action] : a \in audit}

(* A request that is not stored has had no status.                         *)
FreshOK == \A r \in Requests : requests[r] = {} => held[r] = {}

LEMMA FreshInit == Init => FreshOK
  BY DEF Init, FreshOK

LEMMA HeldKept ==
  ASSUME NEW c \in Calls, Moves(c), ~InsertRequest(c), ~UpdateStatus(c)
  PROVE  held' = held /\ requests' = requests
  BY MoveKinds DEF Arrives, Finds, FindForEvent, FindForReadiness,
     EvaluateReadiness, Appends, InsertInitialEvent, InsertEvent, Audits,
     AuditCreated, AuditEvent, AuditOperation, AuditStatusChanged,
     RecordAudit, Stops, RejectAfterFind, Abort, history, tables

LEMMA FreshMoves ==
  ASSUME Base, FreshOK, NEW c \in Calls, Moves(c)
  PROVE  FreshOK'
  <1>1. CASE InsertRequest(c)
    BY <1>1 DEF InsertRequest, Base, TypeOK, FreshOK, Requests
  <1>2. CASE UpdateStatus(c)
    <2>1. PICK row \in FindByTenantAndId(seen[c].tenant, Target(c)) :
            requests' = [requests EXCEPT ![Target(c)] =
                {[row EXCEPT !.status = next[c], !.revision = @ + 1]}]
      BY <1>2 DEF UpdateStatus
    <2>2. \E new : requests' = [requests EXCEPT ![Target(c)] = {new}]
      BY <2>1
    <2>3. PICK new : requests' = [requests EXCEPT ![Target(c)] = {new}]
      BY <2>2
    <2>4. held' = [held EXCEPT ![Target(c)] = @ \union {next[c]}]
      BY <1>2 DEF UpdateStatus
    <2>5. /\ requests \in [Requests -> SUBSET Row]
          /\ held \in [Requests -> SUBSET Statuses]
      BY DEF Base, TypeOK
    <2>6. ASSUME NEW r \in Requests, requests'[r] = {}
          PROVE  held'[r] = {}
      <3>1. r # Target(c)
        BY <2>3, <2>5, <2>6
      <3>2. requests[r] = {} /\ held'[r] = held[r]
        BY <2>3, <2>4, <2>5, <2>6, <3>1
      <3>3. QED
        BY <3>2 DEF FreshOK
    <2>7. QED
      BY <2>6 DEF FreshOK, Requests
  <1>3. CASE ~InsertRequest(c) /\ ~UpdateStatus(c)
    BY <1>3, HeldKept DEF FreshOK, Requests
  <1>4. QED
    BY <1>1, <1>2, <1>3

LEMMA FreshStutter == FreshOK /\ UNCHANGED vars => FreshOK'
  BY DEF vars, FreshOK, Requests

LEMMA TimelineKept ==
  ASSUME NEW c \in Calls, Moves(c), ~Appends(c)
  PROVE  timeline' = timeline
  BY MoveKinds DEF Arrives, InsertRequest, Finds, FindForEvent,
     FindForReadiness, EvaluateReadiness, UpdateStatus, Audits, AuditCreated,
     AuditEvent, AuditOperation, AuditStatusChanged, RecordAudit, Stops,
     RejectAfterFind, Abort, tables

--------------------------------------------------------------------------------
(* Each statement is a step of the ledger, or none of its business.        *)
LEMMA InsertRegisters ==
  ASSUME Base, FreshOK, TenantOK, NEW c \in Calls, InsertRequest(c)
  PROVE  Ledger!Register(c)
  <1>1. c \in Requests /\ requests[c] = {} /\ held[c] = {}
    BY DEF InsertRequest, At, TenantOK, FreshOK, Requests
  <1>2. requests' = [requests EXCEPT ![c] =
          {[tenant |-> call[c].tenant, status |-> "accepted", revision |-> 0]}]
    BY DEF InsertRequest
  <1>3. LedgerStatus' = [LedgerStatus EXCEPT ![c] = {"accepted"}]
    <2>1. \A r \in Requests : requests'[r] =
            IF r = c THEN {[tenant |-> call[c].tenant, status |-> "accepted",
                            revision |-> 0]}
                     ELSE requests[r]
      BY <1>2 DEF Base, TypeOK
    <2>2. {row.status : row \in {[tenant |-> call[c].tenant,
                                  status |-> "accepted", revision |-> 0]}}
            = {"accepted"}
      OBVIOUS
    <2>3. QED
      BY <2>1, <2>2 DEF LedgerStatus, Requests
  <1>4. held' = [held EXCEPT ![c] = {"accepted"}]
    BY <1>1 DEF InsertRequest
  <1>5. LedgerStatus[c] = {}
    BY <1>1 DEF LedgerStatus
  <1>6. LedgerRecorded' = LedgerRecorded /\ LedgerAttested' = LedgerAttested
    BY DEF InsertRequest, LedgerRecorded, LedgerAttested, Events, Requests
  <1>7. QED
    BY <1>3, <1>4, <1>5, <1>6
       DEF Ledger!Register, LedgerStatus, LedgerRecorded, LedgerAttested

LEMMA UpdateSets ==
  ASSUME Base, NEW c \in Calls, UpdateStatus(c), NEW r \in Requests,
         r = Target(c), NEW status, status = next[c]
  PROVE  Ledger!SetStatus(r, status)
  <1>1. r \in Requests
    OBVIOUS
  <1>2. PICK row \in requests[r] :
          requests' = [requests EXCEPT ![r] =
                         {[row EXCEPT !.status = next[c], !.revision = @ + 1]}]
    BY DEF UpdateStatus, FindByTenantAndId
  <1> DEFINE new == [row EXCEPT !.status = next[c], !.revision = @ + 1]
  <1>3. new.status = next[c]
    BY <1>1, <1>2 DEF Base, TypeOK, Row
  <1>4. LedgerStatus' = [LedgerStatus EXCEPT ![r] = {next[c]}]
    <2>1. \A q \in Requests : requests'[q] = IF q = r THEN {new} ELSE requests[q]
      BY <1>1, <1>2 DEF Base, TypeOK
    <2>2. {x.status : x \in {new}} = {next[c]}
      BY <1>3
    <2> HIDE DEF new
    <2>3. QED
      BY <2>1, <2>2 DEF LedgerStatus, Requests
  <1>5. held' = [held EXCEPT ![r] = @ \union {next[c]}]
    BY DEF UpdateStatus
  <1>6. LedgerStatus[r] # {}
    BY <1>1, <1>2 DEF LedgerStatus
  <1>7. LedgerRecorded' = LedgerRecorded /\ LedgerAttested' = LedgerAttested
    BY DEF UpdateStatus, LedgerRecorded, LedgerAttested, Events, Requests
  <1>8. QED
    BY <1>4, <1>5, <1>6, <1>7
       DEF Ledger!SetStatus, LedgerStatus, LedgerRecorded, LedgerAttested

LEMMA AppendRecords ==
  ASSUME Base, HeldOK, TrailOK, NEW c \in Calls, Appends(c),
         NEW r \in Requests, r = Target(c),
         NEW before, before = EventPrev(c), NEW after, after = EventNext(c)
  PROVE  Ledger!Record(c, r, before, after)
  <1> DEFINE e == EventOf(c)
             entry == [by |-> c, request |-> r, prev |-> EventPrev(c),
                       next |-> EventNext(c)]
  <1>1. r \in Requests /\ pc[c] \in {"initial_event", "event"} /\ Moves(c)
    BY DEF Appends, InsertInitialEvent, InsertEvent, At, Base, ControlOK,
       CallInput, Target, Moves, Step
  <1>2. EventNext(c) \in held[r] /\ EventPrev(c) \in held[r] \union {None}
    <2>1. seen[c].status \in held[r] /\ next[c] \in Optional(held[r])
      BY <1>1 DEF HeldOK, Serving, Running
    <2>2. QED
      BY <2>1 DEF EventNext, EventPrev, Optional
  <1>3. \A x \in LedgerRecorded : x.by # c
    BY <1>1 DEF LedgerRecorded, TrailOK, Past
  <1>4. LedgerRecorded' = LedgerRecorded \union {entry}
    <2>1. e.by = c /\ e.prev = EventPrev(c) /\ e.next = EventNext(c)
      BY DEF EventOf
    <2> DEFINE Of(S, q) == {[by |-> x.by, request |-> q, prev |-> x.prev,
                             next |-> x.next] : x \in S}
    <2>2. \A q \in Requests : Events(q)' =
            Events(q) \union (IF q = r THEN {e} ELSE {})
      BY <1>1, TimelineGrows
    <2>3. Of({e}, r) = {entry}
      BY <2>1
    <2>4. \A q \in Requests : Of(Events(q)', q) =
            Of(Events(q), q) \union (IF q = r THEN {entry} ELSE {})
      BY <2>2, <2>3
    <2>5. LedgerRecorded = UNION {Of(Events(q), q) : q \in Requests}
      BY DEF LedgerRecorded
    <2>6. LedgerRecorded' = UNION {Of(Events(q)', q) : q \in Requests}
      BY DEF LedgerRecorded, Requests
    <2> HIDE DEF Of
    <2>7. QED
      BY <1>1, <2>4, <2>5, <2>6
  <1>5. /\ held' = held /\ LedgerStatus' = LedgerStatus
        /\ LedgerAttested' = LedgerAttested
    BY DEF Appends, InsertInitialEvent, InsertEvent, history, LedgerStatus,
       LedgerAttested, Requests
  <1>6. QED
    BY <1>2, <1>3, <1>4, <1>5
       DEF Ledger!Record, LedgerStatus, LedgerRecorded, LedgerAttested

LEMMA AuditAttests ==
  ASSUME Base, TrailOK, AuditOK, NEW c \in Calls, Audits(c)
  PROVE  \/ \E e \in LedgerRecorded, kind \in AuditActions : Ledger!Attest(e, kind)
         \/ UNCHANGED Ledger!vars
  <1>1. PICK action, prev, step :
          /\ action \in AuditActions
          /\ RecordAudit(c, action, prev, step)
          /\ pc[c] \in Past
          /\ action = "execution_request.status_changed" => pc[c] = "audit_status"
    BY AuditsRecord DEF AuditActions, Past
  <1>2. /\ held' = held /\ LedgerStatus' = LedgerStatus
        /\ LedgerRecorded' = LedgerRecorded
    BY <1>1 DEF RecordAudit, history, LedgerStatus, LedgerRecorded, Events,
       Requests
  <1>3. CASE audit' = audit
    BY <1>2, <1>3 DEF LedgerStatus, LedgerRecorded, Ledger!vars
  <1>4. CASE audit' = audit \union {Entry(c, action, prev)}
    <2> DEFINE e == [by |-> c, request |-> Target(c), prev |-> EventPrev(c),
                     next |-> EventNext(c)]
    <2>1. Target(c) \in Requests /\ EventOf(c) \in Events(Target(c))
      BY <1>1 DEF TrailOK, Past, Base, ControlOK, CallInput, Target
    <2>2. e \in LedgerRecorded
      BY <2>1 DEF LedgerRecorded, EventOf
    <2>3. action = "execution_request.status_changed" =>
            e.prev # None /\ e.prev # e.next
      <3>1. pc[c] = "audit_status" =>
              Changed(c) /\ call[c].op # "create" /\ seen[c] \in Row
        BY DEF AuditOK, StagesOK, Base, ControlOK, At, Serving, Running
      <3>2. QED
        BY <1>1, <3>1, NoneAssumption
           DEF Changed, Changes, EventPrev, EventNext, Row
    <2>4. LedgerAttested' = LedgerAttested \union
            {[by |-> e.by, request |-> e.request, kind |-> action]}
      <3> DEFINE Of(a) == [by |-> a.by, request |-> a.request, kind |-> a.action]
                 entry == Entry(c, action, prev)
      <3>1. Of(entry) = [by |-> e.by, request |-> e.request, kind |-> action]
        BY DEF Entry
      <3>2. /\ LedgerAttested = {Of(a) : a \in audit}
            /\ LedgerAttested' = {Of(a) : a \in audit'}
        BY DEF LedgerAttested
      <3> HIDE DEF Of, e
      <3>3. QED
        BY <1>4, <3>1, <3>2
    <2>5. Ledger!Attest(e, action)
      BY <1>2, <2>3, <2>4
         DEF Ledger!Attest, LedgerStatus, LedgerRecorded, LedgerAttested
    <2>6. QED
      BY <1>1, <2>2, <2>5
  <1>5. QED
    BY <1>1, <1>3, <1>4 DEF RecordAudit

--------------------------------------------------------------------------------
Chronicle == Accounts /\ HeldOK /\ FreshOK

LEMMA ChronicleInvariant == Spec => []Chronicle
  <1>1. Init => Chronicle
    BY AccountsInit, HeldInit, FreshInit DEF Chronicle
  <1>2. Chronicle /\ [Next]_vars => Chronicle'
    BY NextMoves, AccountsMoves, AccountsStutter, HeldMoves, HeldStutter,
       FreshMoves, FreshStutter DEF Chronicle, Accounts, Trail
  <1>3. QED
    BY <1>1, <1>2, PTL DEF Spec

LEMMA LedgerInit == Init => Ledger!Init
  <1> SUFFICES ASSUME Init PROVE Ledger!Init
    OBVIOUS
  <1>1. LedgerStatus = [r \in Requests |-> {}]
    BY DEF Init, LedgerStatus
  <1>2. LedgerRecorded = {}
    BY DEF Init, LedgerRecorded, Events
  <1>3. LedgerAttested = {}
    BY DEF Init, LedgerAttested
  <1>4. QED
    BY <1>1, <1>2, <1>3
       DEF Ledger!Init, Init, LedgerStatus, LedgerRecorded, LedgerAttested

LEMMA LedgerSteps ==
  ASSUME Chronicle, [Next]_vars
  PROVE  [Ledger!Next]_(Ledger!vars)
  <1> USE DEF Chronicle, Accounts, Trail
  <1>1. CASE UNCHANGED vars
    BY <1>1 DEF vars, Ledger!vars, Events, Requests
  <1>2. ASSUME NEW c \in Calls, Moves(c)
        PROVE  Ledger!Next \/ UNCHANGED Ledger!vars
    <2>1. CASE InsertRequest(c)
      <3>1. Ledger!Register(c) /\ c \in Requests
        BY <2>1, InsertRegisters DEF Requests
      <3>2. QED
        BY <3>1 DEF Ledger!Next
    <2>2. CASE UpdateStatus(c)
      <3>1. Target(c) \in Requests /\ next[c] \in Statuses
        BY <2>2 DEF UpdateStatus, At, Base, TypeOK, ControlOK, CallInput,
           Target, Changed, Changes, Optional
      <3>2. \E r \in Requests, status \in Statuses : Ledger!SetStatus(r, status)
        BY <2>2, <3>1, UpdateSets
      <3>3. QED
        BY <3>2 DEF Ledger!Next
    <2>3. CASE Appends(c)
      <3>1. /\ Target(c) \in Requests /\ EventNext(c) \in Statuses
            /\ EventPrev(c) \in Statuses \union {None}
        BY <2>3, EventTyped DEF Appends, InsertInitialEvent, InsertEvent, At,
           Base, ControlOK, CallInput, Target
      <3>2. \E r \in Requests, before \in Statuses \union {None},
               after \in Statuses : Ledger!Record(c, r, before, after)
        BY <2>3, <3>1, AppendRecords
      <3>3. QED
        BY <3>2 DEF Ledger!Next
    <2>4. CASE Audits(c)
      BY <2>4, AuditAttests DEF Ledger!Next, LedgerRecorded
    <2>5. CASE ~InsertRequest(c) /\ ~UpdateStatus(c) /\ ~Appends(c) /\ ~Audits(c)
      <3>1. UNCHANGED <<requests, held, timeline, audit>>
        BY <1>2, <2>5, HeldKept, TimelineKept, AuditKept
      <3>2. QED
        BY <3>1 DEF Ledger!vars, Events, Requests
    <2>6. QED
      BY <2>1, <2>2, <2>3, <2>4, <2>5
  <1>3. QED
    BY <1>1, <1>2, NextMoves

(* Read as a ledger, the tables behave: a status is stored before an event *)
(* names it, an event is recorded before an entry attests it, each call    *)
(* records one event, and only a real transition is attested as one.       *)
THEOREM LedgerImplemented == Spec => ImplementsLedger
  <1>1. QED
    BY ChronicleInvariant, LedgerInit, LedgerSteps, PTL
       DEF Spec, ImplementsLedger, Ledger!Spec

--------------------------------------------------------------------------------
(* Calls that never overlap.  One call at most serves the request; until   *)
(* its event is recorded the timeline stops short of the status it wrote,  *)
(* and at every other moment it ends in the stored status.                 *)
On(c, r) == Serving(c) /\ Target(c) = r

Chained(events) ==
  /\ events # <<>>
  /\ events[1].prev = None
  /\ \A i \in 2..Len(events) : events[i].prev = events[i - 1].next

EndsIn(events, status) == events[Len(events)].next = status

Undecided(c) ==
  pc[c] \in {"evaluate", "update"} \/ (At(c, "event") /\ ~Changed(c))

OrderAt(r) ==
  /\ \A c, d \in Calls : On(c, r) /\ On(d, r) => c = d
  /\ \A row \in requests[r] :
       /\ \A c \in Calls : On(c, r) /\ At(c, "initial_event") =>
            timeline[r] = <<>> /\ next[c] = row.status
       /\ \A c \in Calls : On(c, r) /\ At(c, "event") /\ Changed(c) =>
            /\ Chained(timeline[r]) /\ EndsIn(timeline[r], seen[c].status)
            /\ next[c] = row.status
       /\ \A c \in Calls : On(c, r) /\ Undecided(c) => seen[c].status = row.status
       /\ (\A c \in Calls : On(c, r) => ~Unreported(c)) =>
            Chained(timeline[r]) /\ EndsIn(timeline[r], row.status)

OrderOK == \A r \in Requests : orderly[r] => OrderAt(r)

LEMMA OrderInit == Init => OrderOK
  BY DEF Init, OrderOK, OrderAt, On, Serving, Running

LEMMA ChainAppended ==
  ASSUME NEW events \in Seq(Event), NEW e \in Event,
         \/ events = <<>> /\ e.prev = None
         \/ Chained(events) /\ EndsIn(events, e.prev)
  PROVE  Chained(Append(events, e)) /\ EndsIn(Append(events, e), e.next)
  <1> DEFINE longer == Append(events, e)
  <1>1. /\ longer \in Seq(Event) /\ Len(longer) = Len(events) + 1
        /\ longer[Len(longer)] = e /\ Len(events) \in Nat
        /\ \A i \in 1..Len(events) : longer[i] = events[i]
    OBVIOUS
  <1>2. longer # <<>> /\ EndsIn(longer, e.next)
    BY <1>1 DEF EndsIn
  <1>3. CASE events = <<>> /\ e.prev = None
    BY <1>1, <1>2, <1>3 DEF Chained
  <1>4. CASE Chained(events) /\ EndsIn(events, e.prev)
    <2>1. Len(events) >= 1
      BY <1>4 DEF Chained
    <2>2. longer[1].prev = None
      BY <1>1, <1>4, <2>1 DEF Chained
    <2>3. ASSUME NEW i \in 2..Len(longer)
          PROVE  longer[i].prev = longer[i - 1].next
      <3>1. CASE i = Len(longer)
        BY <1>1, <1>4, <2>1, <3>1 DEF EndsIn
      <3>2. CASE i # Len(longer)
        <4>1. i \in 2..Len(events) /\ i \in 1..Len(events) /\ i - 1 \in 1..Len(events)
          BY <1>1, <2>3, <3>2
        <4>2. QED
          BY <1>1, <1>4, <4>1 DEF Chained
      <3>3. QED
        BY <3>1, <3>2
    <2>4. QED
      BY <1>2, <2>2, <2>3 DEF Chained
  <1>5. QED
    BY <1>3, <1>4

(* A step that leaves the row and the timeline, and the calls that have    *)
(* something to report, as they are.                                       *)
LEMMA OrderKept ==
  ASSUME NEW r \in Requests, OrderAt(r),
         requests'[r] = requests[r], timeline'[r] = timeline[r],
         \A d \in Calls : On(d, r)' => On(d, r),
         \A d \in Calls : On(d, r) /\ Unreported(d) => On(d, r)' /\ Unreported(d)',
         \A d \in Calls : On(d, r)' /\ (Unreported(d)' \/ Undecided(d)') =>
            /\ pc'[d] = pc[d] /\ seen'[d] = seen[d] /\ next'[d] = next[d]
  PROVE  OrderAt(r)'
  <1>1. \A c, d \in Calls : On(c, r)' /\ On(d, r)' => c = d
    BY DEF OrderAt
  <1>2. ASSUME NEW row \in requests'[r]
        PROVE  /\ \A c \in Calls : On(c, r)' /\ At(c, "initial_event")' =>
                    timeline'[r] = <<>> /\ next'[c] = row.status
               /\ \A c \in Calls : On(c, r)' /\ At(c, "event")' /\ Changed(c)' =>
                    /\ Chained(timeline'[r])
                    /\ EndsIn(timeline'[r], seen'[c].status)
                    /\ next'[c] = row.status
               /\ \A c \in Calls : On(c, r)' /\ Undecided(c)' =>
                    seen'[c].status = row.status
               /\ (\A c \in Calls : On(c, r)' => ~Unreported(c)') =>
                    Chained(timeline'[r]) /\ EndsIn(timeline'[r], row.status)
    <2>1. ASSUME NEW c \in Calls, On(c, r)', At(c, "initial_event")'
          PROVE  timeline'[r] = <<>> /\ next'[c] = row.status
      BY <1>2, <2>1 DEF OrderAt, Unreported, At
    <2>2. ASSUME NEW c \in Calls, On(c, r)', At(c, "event")', Changed(c)'
          PROVE  /\ Chained(timeline'[r])
                 /\ EndsIn(timeline'[r], seen'[c].status)
                 /\ next'[c] = row.status
      BY <1>2, <2>2 DEF OrderAt, Unreported, At, Changed
    <2>3. ASSUME NEW c \in Calls, On(c, r)', Undecided(c)'
          PROVE  seen'[c].status = row.status
      BY <1>2, <2>3 DEF OrderAt, Undecided, At, Changed
    <2>4. ASSUME \A c \in Calls : On(c, r)' => ~Unreported(c)'
          PROVE  Chained(timeline'[r]) /\ EndsIn(timeline'[r], row.status)
      BY <1>2, <2>4 DEF OrderAt
    <2>5. QED
      BY <2>1, <2>2, <2>3, <2>4
  <1>3. QED
    BY <1>1, <1>2 DEF OrderAt, Chained, EndsIn

LEMMA OthersKeepOrder ==
  ASSUME Base, NEW c \in Calls, Moves(c), NEW r \in Requests,
         NEW d \in Calls \ {c}
  PROVE  /\ On(d, r)' <=> On(d, r)
         /\ Unreported(d)' <=> Unreported(d)
         /\ Undecided(d)' <=> Undecided(d)
         /\ At(d, "initial_event")' <=> At(d, "initial_event")
         /\ At(d, "event")' <=> At(d, "event")
         /\ Changed(d)' <=> Changed(d)
         /\ pc'[d] = pc[d] /\ seen'[d] = seen[d] /\ next'[d] = next[d]
  BY OthersRest DEF On, Serving, Target, Unreported, Undecided, At, Changed

LEMMA OrderlyShrinks ==
  ASSUME Base, NEW c \in Calls, Moves(c), NEW r \in Requests, orderly'[r]
  PROVE  /\ orderly[r]
         /\ Finds(c) /\ Target(c) = r => \A d \in Calls : ~On(d, r)
         /\ Stops(c) /\ Target(c) = r => ~Unreported(c)
  <1>1. CASE Finds(c)
    BY <1>1 DEF Finds, FindForEvent, FindForReadiness, NoteArrival, On, Base,
       TypeOK, Stops, RejectAfterFind, Abort, Unreported, At
  <1>2. CASE Stops(c) /\ ~Finds(c)
    BY <1>2 DEF Stops, RejectAfterFind, Abort, Unreported, At, history
  <1>3. CASE ~Finds(c) /\ ~Stops(c)
    BY <1>3, MoveKinds DEF Arrives, InsertRequest, EvaluateReadiness,
       UpdateStatus, Appends, InsertInitialEvent, InsertEvent, Audits,
       AuditCreated, AuditEvent, AuditOperation, AuditStatusChanged,
       RecordAudit, history
  <1>4. QED
    BY <1>1, <1>2, <1>3

LEMMA OrderInsert ==
  ASSUME Base, TenantOK, NEW c \in Calls, InsertRequest(c)
  PROVE  OrderAt(c)'
  <1>1. Moves(c) /\ c \in Requests /\ requests[c] = {}
    BY DEF Moves, Step, InsertRequest, At, TenantOK, Requests
  <1>2. \A d \in Calls : ~On(d, c)
    BY <1>1 DEF TenantOK, On
  <1>3. timeline'[c] = <<>>
    <2>1. Events(c) = {} /\ timeline[c] \in Seq(Event)
      BY <1>1 DEF TenantOK, Base, TypeOK
    <2>2. ASSUME timeline[c] # <<>> PROVE FALSE
      <3>1. 1 \in DOMAIN timeline[c]
        BY <2>1, <2>2
      <3>2. QED
        BY <2>1, <3>1 DEF Events
    <2>3. QED
      BY <2>2 DEF InsertRequest
  <1>4. \A d \in Calls : On(d, c)' => d = c
    BY <1>1, <1>2, OthersKeepOrder
  <1>5. /\ pc'[c] = "initial_event" /\ next'[c] = "accepted"
        /\ \A row \in requests'[c] : row.status = "accepted"
    BY <1>1 DEF InsertRequest, Goto, Base, TypeOK
  <1>6. On(c, c)'
    BY <1>5 DEF On, InsertRequest, At, Base, ControlOK, Target, Serving, Running
  <1>7. QED
    BY <1>3, <1>4, <1>5, <1>6 DEF OrderAt, Undecided, Unreported, At

(* The row a call found is the one that is stored, and nobody else is on   *)
(* the request.                                                            *)
LEMMA OrderFind ==
  ASSUME Base, RevisionOK, NEW c \in Calls, NEW r \in Requests, Finds(c),
         Target(c) = r, OrderAt(r), \A d \in Calls : ~On(d, r)
  PROVE  OrderAt(r)'
  <1>1. Moves(c)
    BY DEF Moves, Step, Finds
  <1>2. PICK row \in requests[r] :
          /\ seen' = [seen EXCEPT ![c] = row]
          /\ \/ pc' = [pc EXCEPT ![c] = "evaluate"] /\ next' = next
             \/ \E nxt : /\ next' = [next EXCEPT ![c] = nxt]
                         /\ pc' = [pc EXCEPT ![c] = AfterResolving(row, nxt)]
    BY DEF Finds, FindForEvent, FindForReadiness, FindByTenantAndId, Goto
  <1>3. UNCHANGED <<requests, timeline, call>>
    BY DEF Finds, FindForEvent, FindForReadiness, tables
  <1>4. \A d \in Calls : On(d, r)' => d = c
    BY <1>1, OthersKeepOrder
  <1>5. /\ seen'[c] = row
        /\ \/ pc'[c] \in {"evaluate", "update"}
           \/ pc'[c] = "event" /\ ~Changed(c)'
    BY <1>2 DEF Base, TypeOK, AfterResolving, Changed
  <1>6. /\ Chained(timeline[r]) /\ EndsIn(timeline[r], row.status)
        /\ \A x \in requests[r] : x = row
    BY DEF OrderAt, RevisionOK
  <1>7. QED
    BY <1>3, <1>4, <1>5, <1>6 DEF OrderAt, Undecided, Unreported, At, Chained,
       EndsIn

LEMMA OrderEvaluate ==
  ASSUME Base, NEW c \in Calls, NEW r \in Requests, EvaluateReadiness(c),
         Target(c) = r, OrderAt(r)
  PROVE  OrderAt(r)'
  <1>1. Moves(c) /\ On(c, r) /\ Undecided(c)
    BY DEF Moves, Step, EvaluateReadiness, At, On, Serving, Running, Undecided
  <1>2. UNCHANGED <<requests, timeline, call, seen>>
    BY DEF EvaluateReadiness, tables
  <1>3. pc'[c] = "update" \/ (pc'[c] = "event" /\ ~Changed(c)')
    BY DEF EvaluateReadiness, Goto, Base, TypeOK, AfterResolving, Changed
  <1>4. \A d \in Calls : On(d, r) \/ On(d, r)' => d = c
    BY <1>1, OthersKeepOrder DEF OrderAt
  <1>5. ~Unreported(c)
    BY DEF Unreported, EvaluateReadiness, At
  <1>6. \A row \in requests[r] :
          /\ Chained(timeline[r]) /\ EndsIn(timeline[r], row.status)
          /\ seen[c].status = row.status
    BY <1>1, <1>4, <1>5 DEF OrderAt
  <1>7. QED
    BY <1>2, <1>3, <1>4, <1>6 DEF OrderAt, Undecided, Unreported, At, Chained,
       EndsIn

LEMMA OrderUpdate ==
  ASSUME Base, NEW c \in Calls, NEW r \in Requests, UpdateStatus(c),
         Target(c) = r, OrderAt(r)
  PROVE  OrderAt(r)'
  <1>1. Moves(c) /\ On(c, r) /\ Undecided(c) /\ ~Unreported(c)
    BY DEF Moves, Step, UpdateStatus, At, On, Serving, Running, Undecided,
       Unreported
  <1>2. PICK row \in requests[r] : requests'[r] =
          {[row EXCEPT !.status = next[c], !.revision = @ + 1]} /\ row \in Row
    BY DEF UpdateStatus, FindByTenantAndId, Base, TypeOK
  <1>3. \A new \in requests'[r] : new.status = next[c]
    BY <1>2 DEF Row
  <1>4. /\ UNCHANGED <<timeline, call, seen, next>> /\ pc'[c] = "event"
        /\ Changed(c)'
    BY DEF UpdateStatus, Goto, Base, TypeOK, ControlOK, Changed, At
  <1>5. \A d \in Calls : On(d, r) \/ On(d, r)' => d = c
    BY <1>1, OthersKeepOrder DEF OrderAt
  <1>6. /\ Chained(timeline[r]) /\ EndsIn(timeline[r], row.status)
        /\ seen[c].status = row.status
    BY <1>1, <1>2, <1>5 DEF OrderAt
  <1>7. On(c, r)'
    BY <1>1, <1>4 DEF On, Serving, Running, Target
  <1>8. QED
    BY <1>3, <1>4, <1>5, <1>6, <1>7
       DEF OrderAt, Undecided, Unreported, At, Chained, EndsIn

LEMMA OrderAppend ==
  ASSUME Base, NEW c \in Calls, NEW r \in Requests, Appends(c),
         Target(c) = r, OrderAt(r)
  PROVE  OrderAt(r)'
  <1>1. /\ Moves(c) /\ On(c, r) /\ AppendEvent(c)
        /\ pc[c] \in {"initial_event", "event"}
    BY DEF Moves, Step, Appends, InsertInitialEvent, InsertEvent, At, On,
       Serving, Running
  <1>2. /\ UNCHANGED <<requests, call, seen, next>>
        /\ pc'[c] \in {"audit_created", "audit_event"}
    BY DEF Appends, InsertInitialEvent, InsertEvent, Goto, Base, TypeOK
  <1>3. \A d \in Calls : On(d, r) \/ On(d, r)' => d = c
    BY <1>1, OthersKeepOrder DEF OrderAt
  <1>4. /\ timeline'[r] = Append(timeline[r], EventOf(c))
        /\ EventOf(c) \in Event /\ timeline[r] \in Seq(Event)
        /\ EventOf(c).prev = EventPrev(c) /\ EventOf(c).next = EventNext(c)
    BY <1>1, EventTyped DEF AppendEvent, Base, TypeOK, EventOf
  <1>5. ASSUME NEW row \in requests[r]
        PROVE  Chained(timeline'[r]) /\ EndsIn(timeline'[r], row.status)
    <2>1. CASE pc[c] = "initial_event"
      <3>1. call[c].op = "create" /\ timeline[r] = <<>> /\ next[c] = row.status
        BY <1>1, <2>1 DEF OrderAt, At, Base, ControlOK
      <3>2. EventPrev(c) = None /\ EventNext(c) = row.status
        <4>1. row.status # None
          BY NoneAssumption DEF Base, TypeOK, Row
        <4>2. QED
          BY <3>1, <4>1 DEF EventPrev, EventNext
      <3>3. QED
        BY <1>4, <3>1, <3>2, ChainAppended
    <2>2. CASE pc[c] = "event"
      <3>1. EventPrev(c) = seen[c].status /\ row.status \in Statuses
        BY <2>2 DEF EventPrev, Base, TypeOK, ControlOK, Row
      <3>2. CASE Changed(c)
        <4>1. /\ Chained(timeline[r]) /\ EndsIn(timeline[r], seen[c].status)
              /\ next[c] = row.status
          BY <1>1, <2>2, <3>2 DEF OrderAt, At
        <4>2. EventNext(c) = row.status
          BY <3>1, <4>1, NoneAssumption DEF EventNext
        <4>3. QED
          BY <1>4, <3>1, <4>1, <4>2, ChainAppended
      <3>3. CASE ~Changed(c)
        <4>1. Undecided(c) /\ ~Unreported(c)
          BY <2>2, <3>3 DEF Undecided, Unreported, At
        <4>2. /\ Chained(timeline[r]) /\ EndsIn(timeline[r], row.status)
              /\ seen[c].status = row.status
          BY <1>1, <1>3, <4>1 DEF OrderAt
        <4>3. EventNext(c) = row.status
          BY <3>3, <4>2 DEF EventNext, Changed, Changes
        <4>4. QED
          BY <1>4, <3>1, <4>2, <4>3, ChainAppended
      <3>4. QED
        BY <3>2, <3>3
    <2>3. QED
      BY <1>1, <2>1, <2>2
  <1>6. QED
    BY <1>2, <1>3, <1>5 DEF OrderAt, Undecided, Unreported, At, Chained, EndsIn

LEMMA OrderMoves ==
  ASSUME Base, TenantOK, RevisionOK, OrderOK, NEW c \in Calls, Moves(c)
  PROVE  OrderOK'
  <1> SUFFICES ASSUME NEW r \in Requests, orderly'[r]
               PROVE  OrderAt(r)'
    BY DEF OrderOK, Requests
  <1>1. OrderAt(r)
    BY OrderlyShrinks DEF OrderOK
  <1>2. CASE InsertRequest(c) /\ r = c
    BY <1>2, OrderInsert
  <1>3. CASE Target(c) = r /\ (EvaluateReadiness(c) \/ UpdateStatus(c)
                               \/ Appends(c))
    BY <1>1, <1>3, OrderEvaluate, OrderUpdate, OrderAppend
  <1>4. CASE Finds(c) /\ Target(c) = r
    <2>1. \A d \in Calls : ~On(d, r)
      BY <1>4, OrderlyShrinks
    <2>2. QED
      BY <1>1, <1>4, <2>1, OrderFind
  <1>5. CASE /\ ~(InsertRequest(c) /\ r = c)
             /\ Target(c) = r => ~EvaluateReadiness(c) /\ ~UpdateStatus(c)
                                 /\ ~Appends(c) /\ ~Finds(c)
    <2>1. /\ requests'[r] = requests[r] /\ timeline'[r] = timeline[r]
      <3>1. requests'[r] = requests[r]
        BY <1>5, RowsMove
      <3>2. timeline'[r] = timeline[r]
        <4>1. CASE Appends(c)
          BY <1>5, <4>1 DEF Appends, InsertInitialEvent, InsertEvent,
             AppendEvent, Base, TypeOK
        <4>2. CASE ~Appends(c)
          BY <4>2, TimelineKept
        <4>3. QED
          BY <4>1, <4>2
      <3>3. QED
        BY <3>1, <3>2
    <2>2. /\ On(c, r)' => On(c, r)
          /\ On(c, r) => ~Unreported(c)
          /\ On(c, r)' => ~Unreported(c)' /\ ~Undecided(c)'
      <3>1. CASE \E input, step : Arrives(c, input, step)
        BY <3>1 DEF Arrives, On, Serving, Running, At, Goto, Base, TypeOK
      <3>2. CASE Stops(c)
        <4>1. pc'[c] \in {"rejected", "error"}
          BY <3>2 DEF Stops, RejectAfterFind, Abort, Goto, Base, TypeOK
        <4>2. QED
          BY <3>2, <4>1, OrderlyShrinks DEF On, Serving, Running
      <3>3. CASE Audits(c)
        <4>1. AfterOperation(c) \in Past /\ AfterEventAudit(c) \in Past
          BY DEF AfterEventAudit, AfterOperation, Past
        <4>2. call' = call /\ pc'[c] \in Past \union {"error"} /\ pc[c] \in Past
          <5>1. \E action, prev, step : /\ step \in Past /\ pc[c] \in Past
                                        /\ RecordAudit(c, action, prev, step)
            BY <3>3, <4>1, AuditsRecord DEF Past
          <5>2. QED
            BY <5>1 DEF RecordAudit, Goto, Base, TypeOK
        <4>3. QED
          BY <3>3, <4>2 DEF On, Serving, Running, Target, Past, Unreported,
             Undecided, At, Audits, AuditCreated, AuditEvent, AuditOperation,
             AuditStatusChanged
      <3>4. CASE Target(c) # r /\ ~(\E input, step : Arrives(c, input, step))
        <4>1. pc[c] # "idle"
          BY <3>4, MoveKinds DEF InsertRequest, Finds, FindForEvent,
             FindForReadiness, EvaluateReadiness, UpdateStatus, Appends,
             InsertInitialEvent, InsertEvent, Audits, AuditCreated, AuditEvent,
             AuditOperation, AuditStatusChanged, Stops, RejectAfterFind, Abort,
             At, Running
        <4>2. Target(c)' # r
          BY <3>4, <4>1, Arrived
        <4>3. QED
          BY <3>4, <4>2 DEF On
      <3>5. InsertRequest(c) => Target(c) = c
        BY DEF InsertRequest, At, Base, ControlOK
      <3>6. QED
        BY <1>5, <3>1, <3>2, <3>3, <3>4, <3>5, MoveKinds
    <2>3. /\ \A d \in Calls : On(d, r)' => On(d, r)
          /\ \A d \in Calls : On(d, r) /\ Unreported(d) =>
               On(d, r)' /\ Unreported(d)'
          /\ \A d \in Calls : On(d, r)' /\ (Unreported(d)' \/ Undecided(d)') =>
               pc'[d] = pc[d] /\ seen'[d] = seen[d] /\ next'[d] = next[d]
      BY <2>2, OthersKeepOrder
    <2>4. QED
      BY <1>1, <2>1, <2>3, OrderKept
  <1>6. QED
    BY <1>2, <1>3, <1>4, <1>5

LEMMA OrderStutter == OrderOK /\ UNCHANGED vars => OrderOK'
  <1> SUFFICES ASSUME OrderOK, UNCHANGED vars, NEW r \in Requests, orderly'[r]
               PROVE  OrderAt(r)'
    BY DEF OrderOK, Requests
  <1>1. OrderAt(r)
    BY DEF OrderOK, vars
  <1>2. QED
    BY <1>1, OrderKept
       DEF vars, On, Serving, Target, Unreported, Undecided, At, Changed

LEMMA OrderTells == TenantOK /\ OrderOK => OrderlyTimeline
  <1> SUFFICES ASSUME TenantOK, OrderOK, NEW r \in Requests,
                      NEW row \in requests[r], orderly[r],
                      \A c \in Calls : Unreported(c) => Target(c) # r
               PROVE  /\ timeline[r] # <<>>
                      /\ timeline[r][1].prev = None
                      /\ \A i \in 2..Len(timeline[r]) :
                           timeline[r][i].prev = timeline[r][i - 1].next
                      /\ timeline[r][Len(timeline[r])].next = row.status
    BY DEF OrderlyTimeline
  <1>1. Chained(timeline[r]) /\ EndsIn(timeline[r], row.status)
    BY DEF OrderOK, OrderAt, On
  <1>2. QED
    BY <1>1 DEF Chained, EndsIn

(* Calls that never overlap, none cut short between its status write and   *)
(* its event, leave a timeline that is the request's history.              *)
THEOREM TimelineIsHistory == Spec => []OrderlyTimeline
  <1>1. Init => Accounts /\ OrderOK
    BY AccountsInit, OrderInit
  <1>2. Accounts /\ OrderOK /\ [Next]_vars => (Accounts /\ OrderOK)'
    BY NextMoves, AccountsMoves, AccountsStutter, OrderMoves, OrderStutter
       DEF Accounts, Trail
  <1>3. Accounts /\ OrderOK => OrderlyTimeline
    BY OrderTells DEF Accounts
  <1>4. QED
    BY <1>1, <1>2, <1>3, PTL DEF Spec

===============================================================================
