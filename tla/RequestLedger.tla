--------------------------- MODULE RequestLedger ----------------------------
(***************************************************************************)
(* What a reader of execution_requests, execution_request_events and       *)
(* audit_logs may rely on at every instant, however many writers are at    *)
(* work and wherever one of them stops:                                    *)
(*                                                                         *)
(*   - a status is stored before any event names it, so an event never     *)
(*     reports a status that its request has not had;                      *)
(*   - an event is recorded before anything in the audit log attests it,   *)
(*     and a transition is attested only for an event that reports one.    *)
(*                                                                         *)
(* Nothing is promised about the other direction: a stored status may lack *)
(* its event, and an event its attestation.                                *)
(***************************************************************************)
CONSTANTS
  Writers,      \* who records events, each at most one
  Requests,     \* the requests there may be
  Statuses,     \* the statuses a request may have
  Initial,      \* the status a request is registered with
  Attestations, \* the kinds of audit entry
  OfTransition, \* the kind that attests a change of status
  None

VARIABLES
  status,    \* request -> the set holding its status, empty if unregistered
  held,      \* request -> the statuses it has had
  recorded,  \* events: who, of which request, from and to which status
  attested   \* audit entries: whose event, of which request, which kind

vars == <<status, held, recorded, attested>>

Init ==
  /\ status = [r \in Requests |-> {}]
  /\ held = [r \in Requests |-> {}]
  /\ recorded = {}
  /\ attested = {}

(* A request comes into being.                                             *)
Register(r) ==
  /\ status[r] = {}
  /\ status' = [status EXCEPT ![r] = {Initial}]
  /\ held' = [held EXCEPT ![r] = {Initial}]
  /\ UNCHANGED <<recorded, attested>>

(* A writer stores a status, whatever the status was.                      *)
SetStatus(r, s) ==
  /\ status[r] # {}
  /\ status' = [status EXCEPT ![r] = {s}]
  /\ held' = [held EXCEPT ![r] = @ \union {s}]
  /\ UNCHANGED <<recorded, attested>>

(* A writer records an event between two statuses the request has had.     *)
Record(w, r, prev, next) ==
  /\ \A e \in recorded : e.by # w
  /\ next \in held[r]
  /\ prev \in held[r] \union {None}
  /\ recorded' = recorded \union
       {[by |-> w, request |-> r, prev |-> prev, next |-> next]}
  /\ UNCHANGED <<status, held, attested>>

(* An audit entry attests a recorded event.                                *)
Attest(e, kind) ==
  /\ kind = OfTransition => e.prev # None /\ e.prev # e.next
  /\ attested' = attested \union
       {[by |-> e.by, request |-> e.request, kind |-> kind]}
  /\ UNCHANGED <<status, held, recorded>>

Next ==
  \/ \E r \in Requests : Register(r)
  \/ \E r \in Requests, s \in Statuses : SetStatus(r, s)
  \/ \E w \in Writers, r \in Requests, prev \in Statuses \union {None},
        next \in Statuses : Record(w, r, prev, next)
  \/ \E e \in recorded, kind \in Attestations : Attest(e, kind)

Spec == Init /\ [][Next]_vars
=============================================================================
