------------------------ MODULE CatalogHistory_proofs ------------------------
(***************************************************************************)
(* What calls that run at the same time leave of one another's writes,     *)
(* answers and listings.  The invariants speak of a call long after it was *)
(* answered; they hold because a call keeps what it began with and a row   *)
(* is changed only by a call that remains known as its writer.             *)
(***************************************************************************)
EXTENDS Catalog_proofs, FiniteSetTheorems

(* Call x goes on as it began.                                             *)
Follows(x) ==
  /\ call'[x].table = call[x].table /\ call'[x].op = call[x].op
  /\ call'[x].request = call[x].request
  /\ call'[x].id = call[x].id /\ call'[x].status = call[x].status

LEMMA EffectMoves ==
  ASSUME Typed, NEW c \in Calls, NEW d \in Descriptors, Effect(c, d)
  PROVE  /\ DOMAIN call' = Calls
         /\ \A x \in Calls \ {c} : call'[x] = call[x]
         /\ call[c] = IdleCall \/ Follows(c)
         /\ call'[c].table = d.name
  <1>1. CallOK(c) /\ DOMAIN call = Calls
    BY DEF Typed
  <1>2. CASE Advances(c, d)
    <2>1. PICK new : Advanced(c, d, new)
      BY <1>1, <1>2, AdvancesGivesRecord
    <2>2. QED
      BY <1>1, <2>1, MovedCalls DEF Advanced, Follows
  <1>3. CASE Records(c, d)
    <2>1. PICK new : Recorded(c, d, new)
      BY <1>1, <1>3, RecordsGivesRecord
    <2>2. QED
      BY <1>1, <2>1, MovedCalls DEF Recorded, Follows
  <1>4. CASE Declined(c, d) \/ Shown(c, d) \/ Stored(c, d) \/ Lists(c, d)
    <2>1. PICK new : Opens(c, d, new)
      BY <1>4 DEF Declined, Shown, Stored, Lists
    <2>2. QED
      BY <1>1, <2>1, MovedCalls DEF Opens, CallOK
  <1>5. QED
    BY <1>2, <1>3, <1>4 DEF Effect

(* A column of a row that was there changes by a write of its call alone.  *)
LEMMA EffectOnRows ==
  ASSUME Typed, NEW c \in Calls, NEW d \in Descriptors, Effect(c, d),
         NEW t \in Tables, NEW i \in DOMAIN rows[t],
         NEW col \in DOMAIN rows[t][i]
  PROVE  /\ i \in DOMAIN rows'[t]
         /\ DOMAIN rows'[t][i] = DOMAIN rows[t][i]
         /\ rows'[t][i][col] # rows[t][i][col] =>
              /\ call'[c].table = t /\ call'[c].id = i
              /\ call'[c].op \in {"update", "archive"}
              /\ \/ /\ call'[c].op = "update"
                    /\ col \in DOMAIN call'[c].request.set \ {"tenant"}
                 \/ call'[c].op = "archive" /\ col = "status"
  <1>1. CallOK(c) /\ DOMAIN call = Calls
    BY DEF Typed
  <1>2. CASE ~Stored(c, d)
    <2>1. UNCHANGED rows
      BY <1>2 DEF Effect, Declined, Shown, Lists, Advances, Records
    <2>2. QED
      BY <2>1
  <1>3. CASE Stored(c, d)
    <2>1. PICK new, row :
            /\ Opens(c, d, new)
            /\ Fits(d, row, new.id)
            /\ Inserts(d, new, row) \/ Updates(d, new, row)
      BY <1>3 DEF Stored
    <2>2. Grown(d, new.id, row)
      BY <2>1, StoringGrows DEF Typed
    <2>3. call'[c] = new /\ new.table = d.name
      BY <1>1, <2>1, MovedCalls DEF Opens
    <2>4. CASE t # d.name \/ i # new.id
      BY <2>2, <2>4 DEF Grown
    <2>5. CASE t = d.name /\ i = new.id
      <3>1. Updates(d, new, row)
        <4>1. i # Len(rows[d.name]) + 1
          BY <2>5, PositionsAreNumbers DEF Typed
        <4>2. QED
          BY <2>1, <2>5, <4>1 DEF Inserts
      <3>2. rows'[t][i] = row /\ i \in DOMAIN rows'[t]
        BY <2>2, <2>5 DEF Grown
      <3>3. DOMAIN row = DOMAIN rows[t][i]
        BY <2>1, <2>5 DEF Fits, Typed, RowsOK, WellKept
      <3>4. CASE new.op = "update"
        BY <2>3, <2>5, <3>1, <3>2, <3>3, <3>4 DEF Updates, Merged
      <3>5. CASE new.op = "archive"
        BY <2>3, <2>5, <3>1, <3>2, <3>3, <3>5 DEF Updates, Merged
      <3>6. QED
        BY <3>1, <3>4, <3>5 DEF Updates
    <2>6. QED
      BY <2>4, <2>5
  <1>4. QED
    BY <1>2, <1>3

(* Steps without an effect: the calls rest, or they are dropped together.  *)
Rests ==
  /\ UNCHANGED <<rows, entries>>
  /\ \A x \in Calls :
       /\ Follows(x)
       /\ call'[x].items = call[x].items /\ call'[x].total = call[x].total
       /\ call'[x].before = call[x].before
       /\ \/ call'[x].at = call[x].at /\ call'[x].answer = call[x].answer
          \/ call'[x].at = "done" /\ call'[x].answer = "dropped"

LEMMA StepsOfCatalog ==
  ASSUME Typed, [Next]_tableVars
  PROVE  \/ \E c \in Calls : \E d \in Descriptors : Effect(c, d)
         \/ Rests
  <1>1. ASSUME Restart PROVE Rests
    <2>1. ASSUME NEW x \in Calls, call'[x] # call[x]
          PROVE  /\ Follows(x)
                 /\ call'[x].items = call[x].items
                 /\ call'[x].total = call[x].total
                 /\ call'[x].before = call[x].before
                 /\ call'[x].at = "done" /\ call'[x].answer = "dropped"
      <3>1. /\ \A f \in DOMAIN IdleCall \ {"at", "answer"} :
                 call'[x][f] = call[x][f]
            /\ call'[x].at = "done" /\ call'[x].answer = "dropped"
        BY <1>1, <2>1, Restarted
      <3>2. QED
        BY <3>1 DEF Follows, IdleCall
    <2>2. UNCHANGED <<rows, entries>>
      BY <1>1, Restarted
    <2>3. QED
      BY <2>1, <2>2 DEF Rests, Follows
  <1>2. ASSUME UNCHANGED tableVars PROVE Rests
    BY <1>2 DEF Rests, Follows, tableVars
  <1>3. QED
    BY <1>1, <1>2, CallEffect DEF Next

----------------------------------------------------------------------------
(* Tenants.                                                                *)

(* What call c is given, changes or lists.                                 *)
InTenant(d, c) ==
  /\ call[c].id # Null
       => rows[d.name][call[c].id]["tenant"] = call[c].request.tenant
  /\ call[c].items # Null => \A i \in call[c].items :
       rows[d.name][i]["tenant"] = call[c].request.tenant

LEMMA TenantsStay ==
  ASSUME Typed, NEW c \in Calls, NEW d \in Descriptors, Effect(c, d),
         NEW e \in Descriptors, e.scoped, NEW i \in DOMAIN rows[e.name]
  PROVE  /\ i \in DOMAIN rows'[e.name]
         /\ rows'[e.name][i]["tenant"] = rows[e.name][i]["tenant"]
  <1>1. e.name \in Tables /\ "tenant" \in DOMAIN rows[e.name][i]
    BY TablesAssumption, TablesDescribed
    DEF Typed, RowsOK, WellKept, Described
  <1>2. QED
    BY <1>1, EffectOnRows

LEMMA TenantsOfCall ==
  ASSUME Typed, NEW c \in Calls, NEW d \in Descriptors, Effect(c, d),
         d.scoped, call[c].table = d.name => InTenant(d, c)
  PROVE  InTenant(d, c)'
  <1>1. CallOK(c) /\ DOMAIN call = Calls /\ call'[c].table = d.name
    BY EffectMoves DEF Typed
  <1>2. CASE Declined(c, d) \/ Lists(c, d)
    <2>1. PICK new : Opens(c, d, new) /\ new.id = Null
      BY <1>2 DEF Declined, Lists
    <2>2. QED
      BY <1>1, <2>1, MovedCalls DEF Opens, InTenant
  <1>3. CASE Shown(c, d)
    <2>1. PICK new :
            /\ Opens(c, d, new)
            /\ d.scoped => rows[d.name][new.id]["tenant"] = new.request.tenant
            /\ UNCHANGED rows
      BY <1>3 DEF Shown
    <2>2. QED
      BY <1>1, <2>1, MovedCalls DEF Opens, InTenant
  <1>4. CASE Stored(c, d)
    <2>1. PICK new, row :
            /\ Opens(c, d, new)
            /\ Fits(d, row, new.id)
            /\ d.scoped => row["tenant"] = new.request.tenant
            /\ Inserts(d, new, row) \/ Updates(d, new, row)
      BY <1>4 DEF Stored
    <2>2. rows'[d.name][new.id] = row
      BY <2>1, StoringGrows DEF Typed, Grown
    <2>3. QED
      BY <1>1, <2>1, <2>2, MovedCalls DEF Opens, InTenant
  <1>5. CASE Advances(c, d)
    <2>1. PICK new : Advanced(c, d, new)
      BY <1>1, <1>5, AdvancesGivesRecord
    <2>2. call'[c] = new /\ UNCHANGED rows
      BY <1>1, <2>1, MovedCalls DEF Advanced
    <2>3. InTenant(d, c)
      BY <2>1 DEF Advanced
    <2>4. \/ new.items = call[c].items
          \/ \A i \in new.items :
               rows[d.name][i]["tenant"] = call[c].request.tenant
      BY <2>1 DEF Advanced, PageOf, Matching
    <2>5. QED
      BY <2>1, <2>2, <2>3, <2>4 DEF Advanced, InTenant
  <1>6. CASE Records(c, d)
    <2>1. PICK new : Recorded(c, d, new)
      BY <1>1, <1>6, RecordsGivesRecord
    <2>2. call'[c] = new /\ UNCHANGED rows
      BY <1>1, <2>1, MovedCalls DEF Recorded
    <2>3. QED
      BY <2>1, <2>2 DEF Recorded, InTenant
  <1>7. QED
    BY <1>2, <1>3, <1>4, <1>5, <1>6 DEF Effect

LEMMA TenantsStep ==
  ASSUME Typed, AnswersStayInTenant, [Next]_tableVars
  PROVE  AnswersStayInTenant'
  <1> SUFFICES ASSUME NEW e \in Descriptors, e.scoped, NEW x \in Calls,
                      call'[x].table = e.name
               PROVE  InTenant(e, x)'
    BY DEF AnswersStayInTenant, InTenant
  <1>1. call[x].table = e.name => InTenant(e, x)
    BY DEF AnswersStayInTenant, InTenant
  <1>2. CASE Rests
    BY <1>1, <1>2 DEF Rests, Follows, InTenant
  <1>3. ASSUME NEW c \in Calls, NEW d \in Descriptors, Effect(c, d)
        PROVE  InTenant(e, x)'
    <2>1. CASE x = c
      <3>1. d = e
        BY <1>3, <2>1, EffectMoves, NamesApart
      <3>2. QED
        BY <1>1, <1>3, <2>1, <3>1, TenantsOfCall
    <2>2. CASE x # c
      <3>1. call'[x] = call[x]
        BY <1>3, <2>2, EffectMoves
      <3>2. InTenant(e, x)
        BY <1>1, <3>1
      <3>3. /\ call[x].id # Null => call[x].id \in DOMAIN rows[e.name]
            /\ call[x].items # Null => call[x].items \subseteq DOMAIN rows[e.name]
        BY <3>1 DEF Typed, CallOK
      <3>4. \A i \in DOMAIN rows[e.name] :
              rows'[e.name][i]["tenant"] = rows[e.name][i]["tenant"]
        BY <1>3, TenantsStay
      <3>5. QED
        BY <3>1, <3>2, <3>3, <3>4 DEF InTenant
    <2>3. QED
      BY <2>1, <2>2
  <1>4. QED
    BY <1>2, <1>3, StepsOfCatalog

LEMMA TenantsInit == TableInit => AnswersStayInTenant
  BY DEF TableInit, AnswersStayInTenant, IdleCall

(* Whatever a caller is given, changes or lists stays of the tenant it     *)
(* named, though other calls write the same rows: no statement moves a row *)
(* from one tenant to another.                                             *)
THEOREM CatalogStaysInTenant == Spec => []AnswersStayInTenant
  <1>1. TableInit => AnswersStayInTenant
    BY TenantsInit
  <1>2. Typed /\ AnswersStayInTenant /\ [Next]_tableVars => AnswersStayInTenant'
    BY TenantsStep
  <1>3. QED
    BY <1>1, <1>2, CatalogKept, PTL DEF Spec

----------------------------------------------------------------------------
(* Writers.                                                                *)

LEMMA WritersStay ==
  ASSUME Typed, [Next]_tableVars, NEW t, NEW i, i # Null, NEW col
  PROVE  Writers(t, i, col) \subseteq Writers(t, i, col)'
  <1>1. \A x \in Calls : call[x] = IdleCall \/ Follows(x)
    BY StepsOfCatalog, EffectMoves DEF Rests, Follows
  <1>2. ASSUME NEW x \in Writers(t, i, col)
        PROVE  x \in Writers(t, i, col)'
    BY <1>1 DEF Writers, Follows, IdleCall
  <1>3. QED
    BY <1>2

(* A column that changes has got a writer, which keeps its name.           *)
LEMMA ChangesAreWritten ==
  ASSUME Typed, NEW c \in Calls, NEW d \in Descriptors, Effect(c, d),
         NEW t \in Tables, NEW i \in DOMAIN rows[t],
         NEW col \in DOMAIN rows[t][i],
         rows'[t][i][col] # rows[t][i][col]
  PROVE  /\ c \in Writers(t, i, col)'
         /\ call'[c].op = "archive" => col = "status"
         /\ call'[c].op \in {"update", "archive"}
  BY EffectOnRows DEF Writers

----------------------------------------------------------------------------
(* Conflicts.                                                              *)

(* Somebody gave a row of the table another key.                           *)
Renamed(t) ==
  \E i \in DOMAIN rows[t] : \E x \in Writers(t, i, "key") : call[x].op = "update"

(* Who is told of a conflict lost to another: the key is taken, or was.    *)
LostTo(d, c) == d.scoped /\ (KeyTaken(d, call[c]) \/ Renamed(d.name))

ConflictsOK ==
  \A d \in Descriptors : \A c \in Calls :
    (call[c].table = d.name /\ call[c].answer = "conflict") => LostTo(d, c)

LEMMA RenamedStays ==
  ASSUME Typed, [Next]_tableVars, NEW d \in Descriptors, Renamed(d.name)
  PROVE  Renamed(d.name)'
  <1>1. PICK i \in DOMAIN rows[d.name] :
          \E x \in Writers(d.name, i, "key") : call[x].op = "update"
    BY DEF Renamed
  <1>2. PICK x \in Writers(d.name, i, "key") : call[x].op = "update"
    BY <1>1
  <1>3. d.name \in Tables /\ i # Null
    BY PositionsAreNumbers DEF Typed
  <1>4. x \in Writers(d.name, i, "key")'
    BY <1>3, WritersStay
  <1>5. call'[x].op = "update"
    BY <1>2, StepsOfCatalog, EffectMoves DEF Rests, Follows, Writers, IdleCall
  <1>6. i \in DOMAIN rows'[d.name]
    <2>1. CASE Rests
      BY <2>1 DEF Rests
    <2>2. ASSUME NEW c \in Calls, NEW e \in Descriptors, Effect(c, e)
          PROVE  i \in DOMAIN rows'[d.name]
      <3>1. "key" \in DOMAIN rows[d.name][i]
        BY TablesDescribed DEF Typed, RowsOK, WellKept, Described
      <3>2. QED
        BY <1>3, <2>2, <3>1, EffectOnRows
    <2>3. QED
      BY <2>1, <2>2, StepsOfCatalog
  <1>7. QED
    BY <1>4, <1>5, <1>6 DEF Renamed

(* A taken key stays taken until its row is renamed.                       *)
LEMMA TakenStays ==
  ASSUME Typed, NEW c \in Calls, NEW d \in Descriptors, Effect(c, d),
         NEW e \in Descriptors, e.scoped, NEW asked, KeyTaken(e, asked)
  PROVE  KeyTaken(e, asked)' \/ Renamed(e.name)'
  <1>1. PICK i \in DOMAIN rows[e.name] :
          /\ rows[e.name][i]["tenant"] = asked.request.tenant
          /\ rows[e.name][i]["key"] = asked.request.set["key"]
    BY DEF KeyTaken
  <1>2. /\ i \in DOMAIN rows'[e.name]
        /\ rows'[e.name][i]["tenant"] = rows[e.name][i]["tenant"]
    BY TenantsStay
  <1>3. e.name \in Tables /\ "key" \in DOMAIN rows[e.name][i]
    BY TablesAssumption, TablesDescribed
    DEF Typed, RowsOK, WellKept, Described
  <1>4. CASE rows'[e.name][i]["key"] = rows[e.name][i]["key"]
    <2>1. "key" \in DOMAIN asked.request.set
      BY DEF KeyTaken
    <2>2. QED
      BY <1>1, <1>2, <1>4, <2>1 DEF KeyTaken
  <1>5. CASE rows'[e.name][i]["key"] # rows[e.name][i]["key"]
    <2>1. c \in Writers(e.name, i, "key")' /\ call'[c].op = "update"
      BY <1>3, <1>5, ChangesAreWritten
    <2>2. QED
      BY <1>2, <2>1 DEF Renamed
  <1>6. QED
    BY <1>4, <1>5

LEMMA ConflictsInit == TableInit => ConflictsOK
  BY DEF TableInit, ConflictsOK, IdleCall

LEMMA ConflictsStep ==
  ASSUME Typed, ConflictsOK, [Next]_tableVars
  PROVE  ConflictsOK'
  <1> SUFFICES ASSUME NEW e \in Descriptors, NEW x \in Calls,
                      call'[x].table = e.name, call'[x].answer = "conflict"
               PROVE  LostTo(e, x)'
    BY DEF ConflictsOK
  <1>1. CASE Rests
    <2>1. LostTo(e, x)
      BY <1>1 DEF Rests, Follows, ConflictsOK
    <2>2. KeyTaken(e, call[x]) => KeyTaken(e, call[x])'
      BY <1>1 DEF Rests, Follows, KeyTaken
    <2>3. QED
      BY <2>1, <2>2, RenamedStays DEF LostTo
  <1>2. ASSUME NEW c \in Calls, NEW d \in Descriptors, Effect(c, d)
        PROVE  LostTo(e, x)'
    <2>1. CASE call'[x] = call[x]
      <3>1. LostTo(e, x)
        BY <2>1 DEF ConflictsOK
      <3>2. CASE KeyTaken(e, call[x])
        <4>1. PICK asked : asked = call[x]
          OBVIOUS
        <4>2. KeyTaken(e, asked)' \/ Renamed(e.name)'
          BY <1>2, <3>1, <3>2, <4>1, TakenStays DEF LostTo
        <4>3. call'[x] = asked
          BY <2>1, <4>1
        <4>4. QED
          BY <3>1, <4>2, <4>3 DEF LostTo, KeyTaken
      <3>3. QED
        BY <3>1, <3>2, RenamedStays DEF LostTo
    <2>2. CASE call'[x] # call[x]
      <3>1. x = c /\ DOMAIN call = Calls /\ d = e
        BY <1>2, <2>2, EffectMoves, NamesApart DEF Typed
      <3>2. CASE Declined(c, d)
        <4>1. PICK new :
                /\ Opens(c, d, new)
                /\ new.answer = "conflict" => d.scoped /\ KeyTaken(d, new)
                /\ UNCHANGED rows
          BY <3>2 DEF Declined
        <4>2. call'[c] = new
          BY <3>1, <4>1, MovedCalls DEF Opens
        <4>3. d.scoped /\ KeyTaken(d, new)
          BY <3>1, <4>1, <4>2
        <4>4. QED
          BY <3>1, <4>1, <4>2, <4>3 DEF LostTo, KeyTaken
      <3>3. CASE Shown(c, d) \/ Stored(c, d) \/ Lists(c, d)
        <4>1. PICK new : Opens(c, d, new) /\ new.answer # "conflict"
          BY <3>3 DEF Shown, Stored, Lists
        <4>2. QED
          BY <3>1, <4>1, MovedCalls DEF Opens
      <3>4. CASE Advances(c, d)
        <4>1. PICK new : Advanced(c, d, new)
          BY <3>4, AdvancesGivesRecord DEF Typed
        <4>2. QED
          BY <3>1, <4>1, MovedCalls DEF Advanced
      <3>5. CASE Records(c, d)
        <4>1. PICK new : Recorded(c, d, new)
          BY <3>5, RecordsGivesRecord DEF Typed
        <4>2. QED
          BY <3>1, <4>1, MovedCalls DEF Recorded
      <3>6. QED
        BY <1>2, <3>2, <3>3, <3>4, <3>5 DEF Effect
    <2>3. QED
      BY <2>1, <2>2
  <1>3. QED
    BY <1>1, <1>2, StepsOfCatalog

LEMMA KeysSettled == Typed /\ ConflictsOK => RacesForKeysSettle
  <1> SUFFICES ASSUME Typed, ConflictsOK PROVE RacesForKeysSettle
    OBVIOUS
  <1>1. \A d \in Descriptors : \A i, j \in DOMAIN rows[d.name] :
          i # j => \E col \in d.unique :
                     rows[d.name][i][col] # rows[d.name][j][col]
    BY DEF Typed, RowsOK, WellKept
  <1>2. ASSUME NEW d \in Descriptors, NEW c \in Calls,
               call[c].table = d.name, call[c].answer = "conflict"
        PROVE  KeyTaken(d, call[c]) \/ Renamed(d.name)
    BY <1>2 DEF ConflictsOK, LostTo
  <1>3. QED
    BY <1>1, <1>2 DEF RacesForKeysSettle, KeyTaken, Renamed

(* The keys of a tenant stay apart however creations and renamings meet,   *)
(* and a conflict is the truth: the key is taken, or was until a renaming. *)
THEOREM ConflictsAreReal == Spec => []RacesForKeysSettle
  <1>1. TableInit => ConflictsOK
    BY ConflictsInit
  <1>2. Typed /\ ConflictsOK /\ [Next]_tableVars => ConflictsOK'
    BY ConflictsStep
  <1>3. Typed /\ ConflictsOK => RacesForKeysSettle
    BY KeysSettled
  <1>4. QED
    BY <1>1, <1>2, <1>3, CatalogKept, PTL DEF Spec

----------------------------------------------------------------------------
(* The audit log.                                                          *)

(* The audit log accounts for the status of row i of the table of d.       *)
Accounted(d, i) ==
  LET status == rows[d.name][i]["status"]
  IN \/ i \in DOMAIN InitialRows[d.name]
          /\ status = InitialRows[d.name][i]["status"]
     \/ \E e \in entries : e.table = d.name /\ e.id = i /\ e.status = status
     \/ \E c \in Calls : /\ call[c].table = d.name /\ call[c].id = i
                         /\ call[c].status = status /\ call[c].answer # "ok"

LEMMA AuditInit == TableInit => AuditExplainsStatus
  BY TablesAssumption DEF TableInit, AuditExplainsStatus

(* What accounted for a status does so until the row is written.           *)
LEMMA AccountStays ==
  ASSUME Typed, [Next]_tableVars, NEW d \in Descriptors,
         NEW i \in DOMAIN rows[d.name], Accounted(d, i),
         rows'[d.name][i]["status"] = rows[d.name][i]["status"]
  PROVE  Accounted(d, i)'
  <1> DEFINE status == rows[d.name][i]["status"]
  <1> HIDE DEF status
  <1>0. rows'[d.name][i]["status"] = status
    BY DEF status
  <1>1. CASE i \in DOMAIN InitialRows[d.name]
               /\ status = InitialRows[d.name][i]["status"]
    BY <1>0, <1>1 DEF Accounted
  <1>2. CASE \E e \in entries : e.table = d.name /\ e.id = i /\ e.status = status
    <2>1. entries \subseteq entries'
      <3>1. CASE Rests
        BY <3>1 DEF Rests
      <3>2. ASSUME NEW c \in Calls, NEW e \in Descriptors, Effect(c, e)
            PROVE  entries \subseteq entries'
        BY <3>2 DEF Effect, Declined, Shown, Stored, Lists, Advances, Records
      <3>3. QED
        BY <3>1, <3>2, StepsOfCatalog
    <2>2. QED
      BY <1>0, <1>2, <2>1 DEF Accounted
  <1>3. CASE \E c \in Calls : /\ call[c].table = d.name /\ call[c].id = i
                              /\ call[c].status = status /\ call[c].answer # "ok"
    <2>1. PICK x \in Calls : /\ call[x].table = d.name /\ call[x].id = i
                             /\ call[x].status = status /\ call[x].answer # "ok"
      BY <1>3
    <2>2. i # Null
      BY PositionsAreNumbers DEF Typed
    <2>3. call[x] # IdleCall
      BY <2>1, <2>2 DEF IdleCall
    <2>4. Follows(x)
      BY <2>3, StepsOfCatalog, EffectMoves DEF Rests, Follows
    <2>5. CASE call'[x].answer # "ok"
      BY <1>0, <2>1, <2>4, <2>5 DEF Follows, Accounted
    <2>6. CASE call'[x].answer = "ok"
      <3>1. PICK e \in Descriptors : Effect(x, e)
        <4>1. ~Rests
          BY <2>1, <2>6 DEF Rests
        <4>2. PICK c \in Calls : \E e \in Descriptors : Effect(c, e)
          BY <4>1, StepsOfCatalog
        <4>3. PICK e \in Descriptors : Effect(c, e)
          BY <4>2
        <4>4. c = x
          BY <2>1, <2>6, <4>3, EffectMoves
        <4>5. QED
          BY <4>3, <4>4
      <3>2. CallOK(x) /\ call[x].at # "idle"
        BY <2>3 DEF Typed, CallOK
      <3>3. Records(x, e)
        <4>1. ~Advances(x, e)
          BY <2>1, <2>2, <3>2 DEF Advances, Listing, CallOK
        <4>2. QED
          BY <3>1, <3>2, <4>1
          DEF Effect, Declined, Shown, Stored, Lists, Opens
      <3>4. PICK new : Recorded(x, e, new)
        BY <3>2, <3>3, RecordsGivesRecord
      <3>5. call'[x] = new
        BY <3>4, MovedCalls DEF Recorded, Typed
      <3>6. \E entry \in entries' :
              /\ entry.table = d.name /\ entry.id = i /\ entry.status = status
        BY <2>1, <2>6, <3>4, <3>5 DEF Recorded
      <3>7. QED
        BY <1>0, <3>6 DEF Accounted
    <2>7. QED
      BY <2>5, <2>6
  <1>4. QED
    BY <1>1, <1>2, <1>3 DEF Accounted, status

(* The writer of a row accounts for its status until it is answered.       *)
LEMMA StoredIsAccounted ==
  ASSUME Typed, NEW c \in Calls, NEW d \in Descriptors, Stored(c, d),
         NEW e \in Descriptors, e.audited, NEW i \in DOMAIN rows'[e.name]
  PROVE  \/ Accounted(e, i)'
         \/ i \in DOMAIN rows[e.name] /\ rows'[e.name][i] = rows[e.name][i]
  <1>1. PICK new, row :
          /\ Opens(c, d, new)
          /\ new.status = row["status"]
          /\ Fits(d, row, new.id)
          /\ Inserts(d, new, row) \/ Updates(d, new, row)
          /\ d.audited => new.answer # "ok"
    BY DEF Stored
  <1>2. call'[c] = new /\ new.table = d.name
    BY <1>1, MovedCalls DEF Opens, Typed
  <1>3. Grown(d, new.id, row)
    BY <1>1, StoringGrows DEF Typed
  <1>4. CASE e = d /\ i = new.id
    BY <1>1, <1>2, <1>3, <1>4 DEF Accounted, Grown
  <1>5. CASE e = d /\ i # new.id
    BY <1>3, <1>5 DEF Grown
  <1>6. CASE e # d
    BY <1>3, <1>6, NamesApart, TablesAssumption DEF Grown
  <1>7. QED
    BY <1>4, <1>5, <1>6

LEMMA AuditStep ==
  ASSUME Typed, AuditExplainsStatus, [Next]_tableVars
  PROVE  AuditExplainsStatus'
  <1> SUFFICES ASSUME NEW e \in Descriptors, e.audited,
                      NEW i \in DOMAIN rows'[e.name]
               PROVE  Accounted(e, i)'
    BY DEF AuditExplainsStatus, Accounted
  <1>1. CASE i \in DOMAIN rows[e.name] /\ rows'[e.name][i] = rows[e.name][i]
    <2>1. Accounted(e, i)
      BY <1>1 DEF AuditExplainsStatus, Accounted
    <2>2. QED
      BY <1>1, <2>1, AccountStays
  <1>2. CASE ~(i \in DOMAIN rows[e.name] /\ rows'[e.name][i] = rows[e.name][i])
    <2>1. PICK c \in Calls : \E d \in Descriptors : Effect(c, d)
      BY <1>2, StepsOfCatalog DEF Rests
    <2>2. PICK d \in Descriptors : Effect(c, d)
      BY <2>1
    <2>3. Stored(c, d)
      BY <1>2, <2>2 DEF Effect, Declined, Shown, Lists, Advances, Records
    <2>4. QED
      BY <1>2, <2>3, StoredIsAccounted
  <1>3. QED
    BY <1>1, <1>2

(* The audit log accounts for the status of every row, save for the writes *)
(* whose caller was not told "ok", whatever is lost, fails or is restarted *)
(* between the statement and its entry.                                    *)
THEOREM StatusIsAccountedFor == Spec => []AuditExplainsStatus
  <1>1. TableInit => AuditExplainsStatus
    BY AuditInit
  <1>2. Typed /\ AuditExplainsStatus /\ [Next]_tableVars => AuditExplainsStatus'
    BY AuditStep
  <1>3. QED
    BY <1>1, <1>2, CatalogKept, PTL DEF Spec

----------------------------------------------------------------------------
(* Updates.                                                                *)

(* A column of a row there was from the start has its value or a writer.   *)
BeginningKept ==
  \A t \in Tables : \A i \in DOMAIN InitialRows[t] :
    /\ i \in DOMAIN rows[t]
    /\ \A col \in DOMAIN rows[t][i] :
         rows[t][i][col] = InitialRows[t][i][col] \/ Writers(t, i, col) # {}

(* What c wrote stays, unless another wrote the column as well.            *)
WriteKept(c) ==
  LET t == call[c].table
      i == call[c].id
  IN \A col \in AskedColumns(c) :
       /\ col \in DOMAIN rows[t][i]
       /\ rows[t][i][col] = Asked(c, col) \/ \E x \in Writers(t, i, col) : x # c

Changing(c) == call[c].op \in {"update", "archive"}

WritesOK ==
  \A c \in Calls :
    /\ call[c].at = "listing" => call[c].op = "list"
    /\ Changing(c) /\ call[c].answer = "ok" => call[c].id # Null
    /\ Changing(c) /\ call[c].id # Null => WriteKept(c)

LEMMA UpdatesInit == TableInit => BeginningKept /\ WritesOK
  BY CatalogConstants
  DEF TableInit, BeginningKept, WritesOK, Changing, IdleCall

LEMMA BeginningStep ==
  ASSUME Typed, BeginningKept, [Next]_tableVars
  PROVE  BeginningKept'
  <1> SUFFICES ASSUME NEW t \in Tables, NEW i \in DOMAIN InitialRows[t]
               PROVE  /\ i \in DOMAIN rows'[t]
                      /\ \A col \in DOMAIN rows'[t][i] :
                           \/ rows'[t][i][col] = InitialRows[t][i][col]
                           \/ Writers(t, i, col)' # {}
    BY DEF BeginningKept
  <1>1. /\ i \in DOMAIN rows[t]
        /\ \A col \in DOMAIN rows[t][i] :
             rows[t][i][col] = InitialRows[t][i][col] \/ Writers(t, i, col) # {}
    BY DEF BeginningKept
  <1>2. i # Null
    BY <1>1, PositionsAreNumbers, TablesAssumption DEF Typed
  <1>3. CASE Rests
    BY <1>1, <1>2, <1>3, WritersStay DEF Rests
  <1>4. ASSUME NEW c \in Calls, NEW d \in Descriptors, Effect(c, d)
        PROVE  /\ i \in DOMAIN rows'[t]
               /\ \A col \in DOMAIN rows'[t][i] :
                    \/ rows'[t][i][col] = InitialRows[t][i][col]
                    \/ Writers(t, i, col)' # {}
    <2>1. ASSUME NEW col \in DOMAIN rows[t][i]
          PROVE  \/ rows'[t][i][col] = InitialRows[t][i][col]
                 \/ Writers(t, i, col)' # {}
      <3>1. CASE rows'[t][i][col] = rows[t][i][col]
        BY <1>1, <1>2, <3>1, WritersStay
      <3>2. CASE rows'[t][i][col] # rows[t][i][col]
        BY <1>1, <1>4, <3>2, ChangesAreWritten
      <3>3. QED
        BY <3>1, <3>2
    <2>2. i \in DOMAIN rows'[t] /\ DOMAIN rows'[t][i] = DOMAIN rows[t][i]
      <3>1. \E col : col \in DOMAIN rows[t][i]
        BY <1>1, TablesAssumption, TablesDescribed
        DEF Typed, RowsOK, WellKept, Described
      <3>2. QED
        BY <1>1, <1>4, <3>1, EffectOnRows
    <2>3. QED
      BY <2>1, <2>2
  <1>5. QED
    BY <1>3, <1>4, StepsOfCatalog

(* A call that goes on keeps what it wrote.                                *)
LEMMA WriteStays ==
  ASSUME Typed, [Next]_tableVars, NEW c \in Calls, Follows(c), Changing(c),
         call[c].id # Null, WriteKept(c),
         UNCHANGED rows
           \/ \E x \in Calls \ {c} : \E d \in Descriptors : Effect(x, d)
  PROVE  WriteKept(c)'
  <1>0. PICK t, i : t = call[c].table /\ i = call[c].id
    OBVIOUS
  <1>1. t \in Tables /\ i \in DOMAIN rows[t] /\ i # Null
    BY <1>0 DEF Typed, CallOK
  <1>2. /\ AskedColumns(c)' = AskedColumns(c)
        /\ \A col : Asked(c, col)' = Asked(c, col)
        /\ call'[c].table = t /\ call'[c].id = i
    BY <1>0 DEF Follows, AskedColumns, Asked
  <1>3. ASSUME NEW col \in AskedColumns(c)
        PROVE  /\ col \in DOMAIN rows'[t][i]
               /\ \/ rows'[t][i][col] = Asked(c, col)
                  \/ \E x \in Writers(t, i, col)' : x # c
    <2>1. /\ col \in DOMAIN rows[t][i]
          /\ \/ rows[t][i][col] = Asked(c, col)
             \/ \E x \in Writers(t, i, col) : x # c
      BY <1>0, <1>3 DEF WriteKept
    <2>2. Writers(t, i, col) \subseteq Writers(t, i, col)'
      BY <1>1, WritersStay
    <2>3. CASE UNCHANGED rows
      BY <2>1, <2>2, <2>3
    <2>4. ASSUME NEW x \in Calls \ {c}, NEW d \in Descriptors, Effect(x, d)
          PROVE  /\ col \in DOMAIN rows'[t][i]
                 /\ \/ rows'[t][i][col] = Asked(c, col)
                    \/ \E y \in Writers(t, i, col)' : y # c
      <3>1. col \in DOMAIN rows'[t][i]
        BY <1>1, <2>1, <2>4, EffectOnRows
      <3>2. CASE rows'[t][i][col] = rows[t][i][col]
        BY <2>1, <2>2, <3>1, <3>2
      <3>3. CASE rows'[t][i][col] # rows[t][i][col]
        <4>1. x \in Writers(t, i, col)'
          BY <1>1, <2>1, <2>4, <3>3, ChangesAreWritten
        <4>2. QED
          BY <3>1, <4>1
      <3>4. QED
        BY <3>2, <3>3
    <2>5. QED
      BY <2>3, <2>4
  <1>4. QED
    BY <1>2, <1>3 DEF WriteKept

(* What a call has just written is in the row.                             *)
LEMMA WriteBegins ==
  ASSUME Typed, NEW c \in Calls, NEW d \in Descriptors, Stored(c, d)
  PROVE  /\ call'[c].at # "listing" /\ call'[c].id # Null
         /\ Changing(c)' => WriteKept(c)'
  <1>1. PICK new, row :
          /\ Opens(c, d, new)
          /\ Fits(d, row, new.id)
          /\ Inserts(d, new, row) \/ Updates(d, new, row)
          /\ new.at # "listing"
    BY DEF Stored
  <1>2. call'[c] = new /\ new.table = d.name
    BY <1>1, MovedCalls DEF Opens, Typed
  <1>3. Grown(d, new.id, row) /\ new.id # Null
    BY <1>1, StoringGrows, NumberIsNotNull DEF Typed, Grown
  <1>4. ASSUME Changing(c)' PROVE WriteKept(c)'
    <2>1. Updates(d, new, row)
      BY <1>1, <1>2, <1>4 DEF Changing, Inserts
    <2>2. rows'[d.name][new.id] = row
      BY <1>3 DEF Grown
    <2>3. /\ DOMAIN row = DOMAIN d.defaults /\ "status" \in DOMAIN row
          /\ DOMAIN rows[d.name][new.id] = DOMAIN d.defaults
      BY <1>1, <2>1, TablesDescribed
      DEF Fits, Updates, Described, Typed, RowsOK, WellKept
    <2>4. CASE new.op = "update"
      <3>1. ASSUME NEW col \in DOMAIN new.request.set
            PROVE  col \in DOMAIN row /\ row[col] = new.request.set[col]
        BY <2>1, <2>3, <2>4 DEF Updates, Merged
      <3>2. QED
        BY <1>2, <2>2, <2>4, <3>1 DEF WriteKept, AskedColumns, Asked
    <2>5. CASE new.op = "archive"
      <3>1. row["status"] = IF d.name = "field_mappings" THEN "inactive"
                            ELSE "archived"
        BY <2>1, <2>3, <2>5 DEF Updates, Merged
      <3>2. QED
        BY <1>2, <2>2, <2>3, <2>5, <3>1 DEF WriteKept, AskedColumns, Asked
    <2>6. QED
      BY <2>1, <2>4, <2>5 DEF Updates
  <1>5. QED
    BY <1>1, <1>2, <1>3, <1>4

LEMMA WritesStep ==
  ASSUME Typed, WritesOK, [Next]_tableVars
  PROVE  WritesOK'
  <1> SUFFICES ASSUME NEW x \in Calls
               PROVE  /\ call'[x].at = "listing" => call'[x].op = "list"
                      /\ Changing(x)' /\ call'[x].answer = "ok"
                           => call'[x].id # Null
                      /\ Changing(x)' /\ call'[x].id # Null => WriteKept(x)'
    BY DEF WritesOK
  <1> DEFINE Goal == /\ call'[x].at = "listing" => call'[x].op = "list"
                     /\ Changing(x)' /\ call'[x].answer = "ok"
                          => call'[x].id # Null
                     /\ Changing(x)' /\ call'[x].id # Null => WriteKept(x)'
  <1>1. /\ call[x].at = "listing" => call[x].op = "list"
        /\ Changing(x) /\ call[x].answer = "ok" => call[x].id # Null
        /\ Changing(x) /\ call[x].id # Null => WriteKept(x)
    BY DEF WritesOK
  <1>2. ASSUME Follows(x), UNCHANGED rows,
               \/ call'[x].at # "listing" \/ call'[x].at = call[x].at,
               \/ call'[x].answer # "ok" \/ call[x].answer = "ok"
                  \/ call[x].id # Null \/ call[x].at = "listing"
        PROVE  Goal
    <2>1. Changing(x)' <=> Changing(x)
      BY <1>2 DEF Changing, Follows
    <2>2. Changing(x) /\ call[x].id # Null => WriteKept(x)'
      BY <1>1, <1>2, WriteStays
    <2>3. QED
      BY <1>1, <1>2, <2>1, <2>2 DEF Follows, Changing
  <1>3. CASE Rests
    BY <1>1, <1>2, <1>3 DEF Rests
  <1>4. ASSUME NEW c \in Calls \ {x}, NEW d \in Descriptors, Effect(c, d)
        PROVE  Goal
    <2>1. call'[x] = call[x]
      BY <1>4, EffectMoves
    <2>2. Follows(x)
      BY <2>1 DEF Follows
    <2>3. Changing(x)' <=> Changing(x)
      BY <2>1 DEF Changing
    <2>4. Changing(x) /\ call[x].id # Null => WriteKept(x)'
      BY <1>1, <1>4, <2>2, WriteStays
    <2>5. QED
      BY <1>1, <2>1, <2>3, <2>4
  <1>5. ASSUME NEW d \in Descriptors, Effect(x, d)
        PROVE  Goal
    <2>1. CallOK(x)
      BY DEF Typed
    <2>2. CASE Advances(x, d)
      <3>1. PICK new : Advanced(x, d, new)
        BY <2>1, <2>2, AdvancesGivesRecord
      <3>2. call'[x] = new /\ UNCHANGED rows /\ call[x].at = "listing"
        BY <3>1, MovedCalls DEF Advanced, Typed
      <3>3. Follows(x)
        BY <3>1, <3>2 DEF Advanced, Follows
      <3>4. new.at # "listing" \/ new.at = call[x].at
        BY <3>2
      <3>5. QED
        BY <1>2, <3>2, <3>3, <3>4
    <2>3. CASE Records(x, d)
      <3>1. PICK new : Recorded(x, d, new)
        BY <2>1, <2>3, RecordsGivesRecord
      <3>2. call'[x] = new /\ UNCHANGED rows /\ new.at = "done"
        BY <3>1, MovedCalls DEF Recorded, Typed
      <3>3. Follows(x)
        BY <3>1, <3>2 DEF Recorded, Follows
      <3>4. call[x].id # Null
        BY <2>1, <3>1 DEF CallOK, Recorded
      <3>5. QED
        BY <1>2, <3>2, <3>3, <3>4
    <2>4. CASE Stored(x, d)
      BY <2>4, WriteBegins
    <2>5. CASE Declined(x, d) \/ Shown(x, d) \/ Lists(x, d)
      <3>1. PICK new :
              /\ Opens(x, d, new)
              /\ new.at = "listing" => new.op = "list"
              /\ new.answer = "ok" => new.op = "find"
              /\ new.id # Null => new.op = "find"
        BY <2>5 DEF Declined, Shown, Lists
      <3>2. QED
        BY <3>1, MovedCalls DEF Opens, Typed, Changing
    <2>6. QED
      BY <1>5, <2>2, <2>3, <2>4, <2>5 DEF Effect
  <1>6. QED
    BY <1>3, <1>4, <1>5, StepsOfCatalog

LEMMA UpdatesKept == Typed /\ BeginningKept /\ WritesOK => UpdatesSurvive
  <1> SUFFICES ASSUME Typed, BeginningKept, WritesOK PROVE UpdatesSurvive
    OBVIOUS
  <1>1. ASSUME NEW t \in Tables, NEW i \in DOMAIN InitialRows[t],
               NEW col \in DOMAIN rows[t][i],
               rows[t][i][col] # InitialRows[t][i][col]
        PROVE  Writers(t, i, col) # {}
    BY <1>1 DEF BeginningKept
  <1>2. ASSUME NEW c \in Calls, Changing(c), call[c].answer = "ok",
               NEW col \in AskedColumns(c)
        PROVE  \/ rows[call[c].table][call[c].id][col] = Asked(c, col)
               \/ Writers(call[c].table, call[c].id, col) # {c}
    BY <1>2 DEF WritesOK, WriteKept
  <1>3. QED
    BY <1>1, <1>2 DEF UpdatesSurvive, Changing

(* Updates of one row at the same time leave one another's columns alone:  *)
(* what a call was told it stored stays until another call writes the same *)
(* column, and what nobody asked to change is as it was in the beginning.  *)
THEOREM ConcurrentUpdatesSurvive == Spec => []UpdatesSurvive
  <1>1. TableInit => BeginningKept /\ WritesOK
    BY UpdatesInit
  <1>2. Typed /\ BeginningKept /\ [Next]_tableVars => BeginningKept'
    BY BeginningStep
  <1>3. Typed /\ WritesOK /\ [Next]_tableVars => WritesOK'
    BY WritesStep
  <1>4. Typed /\ BeginningKept /\ WritesOK => UpdatesSurvive
    BY UpdatesKept
  <1>5. QED
    BY <1>1, <1>2, <1>3, <1>4, CatalogKept, PTL DEF Spec

----------------------------------------------------------------------------
(* Listings.                                                               *)

LEMMA PageBounds ==
  ASSUME NEW page \in Nat \ {0}
  PROVE  /\ (page - 1) * PageSize \in Nat
         /\ page * PageSize = (page - 1) * PageSize + PageSize
  <1>1. \A p, s \in Nat : p * s \in Nat /\ (p + 1) * s = p * s + s
    OBVIOUS
  <1>2. page - 1 \in Nat /\ (page - 1) + 1 = page /\ PageSize \in Nat
    BY CatalogConstants
  <1>3. QED
    BY <1>1, <1>2

(* The ranks of the members of a finite set of numbers are 1, 2, ... up to *)
(* their number, each taken once.                                          *)
LEMMA RanksCount ==
  ASSUME NEW ids \in SUBSET Nat, IsFiniteSet(ids)
  PROVE  LET rank == [i \in ids |-> Cardinality({j \in ids : j >= i})]
         IN rank \in Bijection(ids, 1 .. Cardinality(ids))
  <1> DEFINE Above(i) == {j \in ids : j >= i}
             rank == [i \in ids |-> Cardinality(Above(i))]
             n == Cardinality(ids)
  <1>1. n \in Nat
    BY FS_CardinalityType
  <1>2. ASSUME NEW i \in ids
        PROVE  /\ IsFiniteSet(Above(i)) /\ i \in Above(i)
               /\ Cardinality(Above(i)) \in 1 .. n
    <2>1. Above(i) \in SUBSET ids /\ i \in Above(i)
      OBVIOUS
    <2> HIDE DEF Above
    <2>2. IsFiniteSet(Above(i)) /\ Cardinality(Above(i)) <= n
      BY <2>1, FS_Subset
    <2>3. Cardinality(Above(i)) \in Nat
      BY <2>2, FS_CardinalityType
    <2>4. Cardinality(Above(i)) # 0
      BY <2>1, <2>2, FS_EmptySet
    <2> DEFINE above == Cardinality(Above(i))
    <2> HIDE DEF n
    <2>5. above \in 1 .. n
      <3>1. above \in Nat /\ above # 0 /\ above <= n
        BY <2>2, <2>3, <2>4 DEF n
      <3> HIDE DEF above
      <3>2. QED
        BY <1>1, <3>1
    <2>6. QED
      BY <2>1, <2>2, <2>5
  <1>3. ASSUME NEW i \in ids, NEW k \in ids, i < k
        PROVE  Cardinality(Above(i)) # Cardinality(Above(k))
    <2>1. Above(k) \in SUBSET Above(i) /\ i \in Above(i) /\ i \notin Above(k)
      <3>1. i \in Nat /\ k \in Nat /\ \A j \in ids : j \in Nat
        OBVIOUS
      <3>2. \A j \in ids : j >= k => j >= i
        BY <1>3, <3>1
      <3>3. i >= i /\ ~(i >= k)
        BY <1>3, <3>1
      <3>4. QED
        BY <3>2, <3>3
    <2> HIDE DEF Above
    <2>2. QED
      BY <1>2, <2>1, FS_Subset
  <1>4. ASSUME NEW i \in ids, NEW k \in ids, i # k
        PROVE  Cardinality(Above(i)) # Cardinality(Above(k))
    <2>1. i < k \/ k < i
      BY <1>4
    <2> HIDE DEF Above
    <2>2. QED
      BY <1>3, <2>1
  <1> HIDE DEF Above, n
  <1>5. rank \in Injection(ids, 1 .. n)
    BY <1>2, <1>4 DEF Injection, IsInjective
  <1>6. IsFiniteSet(1 .. n) /\ Cardinality(1 .. n) = n
    BY <1>1, FS_Interval
  <1> HIDE DEF rank
  <1>7. rank \in Surjection(ids, 1 .. n)
    BY <1>5, <1>6, FS_Injection DEF n
  <1>8. rank \in Bijection(ids, 1 .. n)
    BY <1>5, <1>7 DEF Bijection
  <1>9. QED
    BY <1>8 DEF rank, Above, n

(* A page of rows holds as many as Fill says, for any size of page.        *)
LEMMA PageFills ==
  ASSUME NEW ids \in SUBSET Nat, IsFiniteSet(ids), NEW page \in Nat \ {0}
  PROVE  /\ IsFiniteSet(PageOf(ids, page))
         /\ Cardinality(PageOf(ids, page)) = Fill(Cardinality(ids), page)
  <1> DEFINE rank == [i \in ids |-> Cardinality({j \in ids : j >= i})]
             n == Cardinality(ids)
             skipped == (page - 1) * PageSize
             shown == {r \in 1 .. n : r > skipped /\ r <= skipped + PageSize}
             items == PageOf(ids, page)
             place == [i \in items |-> rank[i]]
  <1>1. n \in Nat /\ skipped \in Nat /\ PageSize \in Nat \ {0}
        /\ page * PageSize = skipped + PageSize
    BY FS_CardinalityType, PageBounds, CatalogConstants
  <1>2. rank \in Bijection(ids, 1 .. n)
    BY RanksCount
  <1>3. items = {i \in ids : rank[i] > skipped /\ rank[i] <= skipped + PageSize}
    BY <1>1 DEF PageOf
  <1>4. IsFiniteSet(items)
    BY <1>3, FS_Subset
  <1> HIDE DEF rank, n, skipped, items
  <1>5. place \in Bijection(items, shown)
    <2>1. /\ \A i \in ids : rank[i] \in 1 .. n
          /\ \A i, k \in ids : rank[i] = rank[k] => i = k
          /\ \A r \in 1 .. n : \E i \in ids : rank[i] = r
      BY <1>2 DEF Bijection, Injection, Surjection, IsInjective
    <2>2. \A i \in items : i \in ids /\ rank[i] \in shown
      BY <1>3, <2>1
    <2>3. \A r \in shown : \E i \in items : rank[i] = r
      BY <1>3, <2>1
    <2> HIDE DEF shown
    <2>4. place \in [items -> shown]
      BY <2>2
    <2>5. \A i, k \in items : place[i] = place[k] => i = k
      BY <2>1, <2>2
    <2>6. \A r \in shown : \E i \in items : place[i] = r
      BY <2>3
    <2>7. place \in Injection(items, shown)
      BY <2>4, <2>5 DEF Injection, IsInjective
    <2>8. place \in Surjection(items, shown)
      BY <2>4, <2>6 DEF Surjection
    <2>9. QED
      BY <2>7, <2>8 DEF Bijection
  <1> HIDE DEF shown, place
  <1>6. Cardinality(items) = Cardinality(shown)
    BY <1>4, <1>5, FS_Bijection DEF ExistsBijection
  <1>7. Cardinality(shown) = Fill(n, page)
    <2>1. CASE n <= skipped
      <3>1. shown = {}
        BY <1>1, <2>1 DEF shown
      <3>2. Cardinality(shown) = 0
        BY <3>1, FS_EmptySet
      <3>3. ~(n > skipped + PageSize)
        BY <1>1, <2>1
      <3>4. QED
        BY <2>1, <3>2, <3>3 DEF Fill, skipped
    <2>2. CASE n > skipped + PageSize
      <3>1. shown = (skipped + 1) .. (skipped + PageSize)
        BY <1>1, <2>2 DEF shown
      <3>2. Cardinality(shown) = PageSize
        BY <1>1, <3>1, FS_Interval
      <3>3. ~(n <= skipped)
        BY <1>1, <2>2
      <3>4. QED
        BY <2>2, <3>2, <3>3 DEF Fill, skipped
    <2>3. CASE n > skipped /\ n <= skipped + PageSize
      <3>1. shown = (skipped + 1) .. n
        BY <1>1, <2>3 DEF shown
      <3>2. Cardinality(shown) = n - skipped
        BY <1>1, <2>3, <3>1, FS_Interval
      <3>3. ~(n <= skipped) /\ ~(n > skipped + PageSize)
        BY <1>1, <2>3
      <3>4. QED
        BY <3>2, <3>3 DEF Fill, skipped
    <2>4. QED
      BY <1>1, <2>1, <2>2, <2>3
  <1>8. QED
    BY <1>4, <1>6, <1>7 DEF items, n

(* More rows fill a page no less.                                          *)
LEMMA FillGrows ==
  ASSUME NEW m \in Nat, NEW n \in Nat, m <= n, NEW page \in Nat \ {0}
  PROVE  Fill(m, page) \in Nat /\ Fill(n, page) \in Nat
         /\ Fill(m, page) <= Fill(n, page)
  <1> DEFINE skipped == (page - 1) * PageSize
  <1>1. skipped \in Nat /\ PageSize \in Nat
    BY PageBounds, CatalogConstants
  <1>2. \A k \in Nat : /\ k <= skipped => Fill(k, page) = 0
                       /\ k > skipped + PageSize => Fill(k, page) = PageSize
                       /\ k > skipped /\ k <= skipped + PageSize
                            => Fill(k, page) = k - skipped
    <2> TAKE k \in Nat
    <2> HIDE DEF skipped
    <2>1. CASE k <= skipped
      BY <1>1, <2>1 DEF Fill, skipped
    <2>2. CASE k > skipped /\ k <= skipped + PageSize
      <3>1. ~(k <= skipped) /\ ~(k > skipped + PageSize)
        BY <1>1, <2>2
      <3>2. QED
        BY <1>1, <2>2, <3>1 DEF Fill, skipped
    <2>3. CASE k > skipped + PageSize
      <3>1. ~(k <= skipped)
        BY <1>1, <2>3
      <3>2. QED
        BY <1>1, <2>3, <3>1 DEF Fill, skipped
    <2>4. QED
      BY <1>1, <2>1, <2>2, <2>3
  <1> HIDE DEF skipped
  <1>3. QED
    BY <1>1, <1>2

(* What a listing of all rows has been told so far, at page r.page, lies   *)
(* between the number of rows when it began and their number now.          *)
Tells(d, r, before, items, total) ==
  LET now == Cardinality(Matching(d, r))
  IN /\ before \in Nat /\ before <= now
     /\ items # Null => /\ Cardinality(items) \in Nat
                        /\ Fill(before, r.page) <= Cardinality(items)
                        /\ Cardinality(items) <= Fill(now, r.page)
     /\ total # Null => total \in Nat /\ before <= total /\ total <= now

ListingsOK ==
  \A d \in Descriptors : \A c \in Calls :
    /\ call[c].table = d.name
    /\ call[c].at = "listing" \/ (call[c].op = "list" /\ call[c].answer = "ok")
    => /\ call[c].request.page \in Nat \ {0}
       /\ call[c].answer = "ok" => call[c].items # Null /\ call[c].total # Null
       /\ call[c].request.where = <<>> =>
            Tells(d, call[c].request, call[c].before, call[c].items, call[c].total)

LEMMA MatchingIsFinite ==
  ASSUME Typed, NEW d \in Descriptors, NEW r
  PROVE  /\ Matching(d, r) \in SUBSET Nat
         /\ IsFiniteSet(Matching(d, r))
         /\ Cardinality(Matching(d, r)) \in Nat
  <1>1. /\ Len(rows[d.name]) \in Nat
        /\ Matching(d, r) \in SUBSET (1 .. Len(rows[d.name]))
    BY PositionsAreNumbers DEF Typed, Matching
  <1>2. IsFiniteSet(1 .. Len(rows[d.name]))
    BY <1>1, FS_Interval
  <1>3. IsFiniteSet(Matching(d, r))
    BY <1>1, <1>2, FS_Subset
  <1>4. QED
    BY <1>1, <1>3, FS_CardinalityType

(* No row is of a tenant that no row can have.                             *)
LEMMA UnreachableIsEmpty ==
  ASSUME Typed, NEW d \in Descriptors, NEW r, ~Reachable(d, r)
  PROVE  Matching(d, r) = {}
  BY DEF Typed, RowsOK, WellKept, Reachable, Matching

LEMMA MatchingGrows ==
  ASSUME Typed, [Next]_tableVars, NEW d \in Descriptors, NEW r, r.where = <<>>
  PROVE  /\ Cardinality(Matching(d, r)') \in Nat
         /\ Cardinality(Matching(d, r)) <= Cardinality(Matching(d, r)')
  <1>1. Matching(d, r) \subseteq Matching(d, r)'
    <2>1. CASE Rests
      BY <2>1 DEF Rests, Matching
    <2>2. ASSUME NEW c \in Calls, NEW e \in Descriptors, Effect(c, e),
                 NEW i \in Matching(d, r)
          PROVE  i \in Matching(d, r)'
      <3>1. /\ i \in DOMAIN rows[d.name] /\ d.name \in Tables
            /\ d.scoped => rows[d.name][i]["tenant"] = r.tenant
        BY <2>2, TablesAssumption DEF Matching
      <3>2. i \in DOMAIN rows'[d.name]
        <4>1. "key" \in DOMAIN rows[d.name][i]
          BY <3>1, TablesDescribed DEF Typed, RowsOK, WellKept, Described
        <4>2. QED
          BY <2>2, <3>1, <4>1, EffectOnRows
      <3>3. d.scoped => rows'[d.name][i]["tenant"] = r.tenant
        BY <2>2, <3>1, TenantsStay
      <3>4. DOMAIN r.where = {}
        OBVIOUS
      <3>5. QED
        BY <3>2, <3>3, <3>4 DEF Matching
    <2>3. QED
      BY <2>1, <2>2, StepsOfCatalog
  <1>2. IsFiniteSet(Matching(d, r)') /\ Cardinality(Matching(d, r)') \in Nat
    <2>1. Typed'
      BY TypedStep
    <2>2. ASSUME Typed' PROVE IsFiniteSet(Matching(d, r)')
      <3>1. /\ Len(rows'[d.name]) \in Nat
            /\ Matching(d, r)' \in SUBSET (1 .. Len(rows'[d.name]))
        BY <2>2 DEF Typed, RowsOK, WellKept, Matching
      <3>2. IsFiniteSet(1 .. Len(rows'[d.name]))
        BY <3>1, FS_Interval
      <3>3. QED
        BY <3>1, <3>2, FS_Subset
    <2>3. QED
      BY <2>1, <2>2, FS_CardinalityType
  <1>3. QED
    BY <1>1, <1>2, FS_Subset

LEMMA TellingStays ==
  ASSUME Typed, [Next]_tableVars, NEW d \in Descriptors, NEW r, r.where = <<>>,
         r.page \in Nat \ {0}, NEW before, NEW items, NEW total,
         Tells(d, r, before, items, total)
  PROVE  Tells(d, r, before, items, total)'
  <1> DEFINE now == Cardinality(Matching(d, r))
  <1>1. PICK m, n : m = now /\ n = now'
    OBVIOUS
  <1>2. m \in Nat /\ n \in Nat /\ m <= n
    BY <1>1, MatchingIsFinite, MatchingGrows
  <1>3. /\ Fill(m, r.page) \in Nat /\ Fill(n, r.page) \in Nat
        /\ Fill(m, r.page) <= Fill(n, r.page)
    BY <1>2, FillGrows
  <1>4. before \in Nat /\ before <= m
    BY <1>1 DEF Tells
  <1>5. before <= n
    BY <1>2, <1>4
  <1>6. items # Null => /\ Cardinality(items) \in Nat
                        /\ Fill(before, r.page) <= Cardinality(items)
                        /\ Cardinality(items) <= Fill(n, r.page)
    BY <1>1, <1>3 DEF Tells
  <1>7. total # Null => total \in Nat /\ before <= total /\ total <= n
    BY <1>1, <1>2, <1>4 DEF Tells
  <1>8. QED
    BY <1>1, <1>4, <1>5, <1>6, <1>7 DEF Tells

(* What a half of a listing is answered now.                               *)
LEMMA TellingGoesOn ==
  ASSUME Typed, NEW d \in Descriptors, NEW r, r.page \in Nat \ {0},
         NEW before, NEW items, NEW total, Tells(d, r, before, items, total),
         NEW items2, NEW total2,
         \/ items2 = items
         \/ items2 = IF Reachable(d, r) THEN PageOf(Matching(d, r), r.page) ELSE {},
         \/ total2 = total
         \/ total2 = IF Reachable(d, r) THEN Cardinality(Matching(d, r)) ELSE 0
  PROVE  Tells(d, r, before, items2, total2)
  <1>1. PICK n : n = Cardinality(Matching(d, r))
    OBVIOUS
  <1>2. n \in Nat /\ before \in Nat /\ before <= n
    BY <1>1, MatchingIsFinite DEF Tells
  <1>3. /\ Fill(before, r.page) \in Nat /\ Fill(n, r.page) \in Nat
        /\ Fill(before, r.page) <= Fill(n, r.page)
    BY <1>2, FillGrows
  <1>4. ~Reachable(d, r) => Matching(d, r) = {} /\ n = 0
    BY <1>1, UnreachableIsEmpty, FS_EmptySet
  <1>5. items2 # items => Cardinality(items2) = Fill(n, r.page)
    <2>1. Cardinality(PageOf(Matching(d, r), r.page)) = Fill(n, r.page)
      BY <1>1, MatchingIsFinite, PageFills
    <2>2. CASE Reachable(d, r)
      BY <2>1, <2>2
    <2>3. CASE ~Reachable(d, r)
      <3>1. PageOf(Matching(d, r), r.page) = {}
        BY <1>4, <2>3 DEF PageOf
      <3>2. QED
        BY <2>1, <2>3, <3>1
    <2>4. QED
      BY <2>2, <2>3
  <1>6. total2 # total => total2 = n
    BY <1>1, <1>4
  <1>7. items2 # Null => /\ Cardinality(items2) \in Nat
                         /\ Fill(before, r.page) <= Cardinality(items2)
                         /\ Cardinality(items2) <= Fill(n, r.page)
    <2>1. CASE items2 = items
      BY <1>1, <2>1 DEF Tells
    <2>2. CASE items2 # items
      BY <1>3, <1>5, <2>2
    <2>3. QED
      BY <2>1, <2>2
  <1>8. total2 # Null => total2 \in Nat /\ before <= total2 /\ total2 <= n
    <2>1. CASE total2 = total
      BY <1>1, <2>1 DEF Tells
    <2>2. CASE total2 # total
      BY <1>2, <1>6, <2>2
    <2>3. QED
      BY <2>1, <2>2
  <1>9. QED
    BY <1>1, <1>2, <1>7, <1>8 DEF Tells

AuditsNoListing == \A c \in Calls : call[c].at = "audit" => call[c].op # "list"

LEMMA ListingsInit == TableInit => AuditsNoListing /\ ListingsOK
  BY DEF TableInit, AuditsNoListing, ListingsOK, IdleCall

LEMMA AuditsStep ==
  ASSUME Typed, AuditsNoListing, [Next]_tableVars
  PROVE  AuditsNoListing'
  <1> SUFFICES ASSUME NEW x \in Calls, call'[x].at = "audit"
               PROVE  call'[x].op # "list"
    BY DEF AuditsNoListing
  <1>1. CASE Rests
    BY <1>1 DEF Rests, Follows, AuditsNoListing
  <1>2. ASSUME NEW c \in Calls, NEW e \in Descriptors, Effect(c, e), c # x
        PROVE  call'[x].op # "list"
    BY <1>2, EffectMoves DEF AuditsNoListing
  <1>3. ASSUME NEW e \in Descriptors, Effect(x, e)
        PROVE  call'[x].op # "list"
    <2>1. CallOK(x) /\ DOMAIN call = Calls
      BY DEF Typed
    <2>2. CASE Stored(x, e)
      BY <2>1, <2>2, MovedCalls DEF Stored, Opens, Inserts, Updates
    <2>3. CASE Declined(x, e) \/ Shown(x, e) \/ Lists(x, e)
      BY <2>1, <2>3, MovedCalls DEF Declined, Shown, Lists, Opens
    <2>4. CASE Advances(x, e)
      <3>1. PICK new : Advanced(x, e, new)
        BY <2>1, <2>4, AdvancesGivesRecord
      <3>2. QED
        BY <2>1, <3>1, MovedCalls DEF Advanced
    <2>5. CASE Records(x, e)
      <3>1. PICK new : Recorded(x, e, new)
        BY <2>1, <2>5, RecordsGivesRecord
      <3>2. QED
        BY <2>1, <3>1, MovedCalls DEF Recorded
    <2>6. QED
      BY <1>3, <2>2, <2>3, <2>4, <2>5 DEF Effect
  <1>4. QED
    BY <1>1, <1>2, <1>3, StepsOfCatalog

LEMMA ListingsStep ==
  ASSUME Typed, AuditsNoListing, ListingsOK, [Next]_tableVars
  PROVE  ListingsOK'
  <1> SUFFICES ASSUME NEW d \in Descriptors, NEW x \in Calls,
                      call'[x].table = d.name,
                      \/ call'[x].at = "listing"
                      \/ call'[x].op = "list" /\ call'[x].answer = "ok"
               PROVE  /\ call'[x].request.page \in Nat \ {0}
                      /\ call'[x].answer = "ok" =>
                           call'[x].items # Null /\ call'[x].total # Null
                      /\ call'[x].request.where = <<>> =>
                           Tells(d, call[x].request, call[x].before,
                                 call[x].items, call[x].total)'
    BY DEF ListingsOK
  <1>0. PICK new : new = call'[x]
    OBVIOUS
  <1>1. SUFFICES
          /\ new.request.page \in Nat \ {0}
          /\ new.answer = "ok" => new.items # Null /\ new.total # Null
          /\ new.request.where = <<>> =>
               Tells(d, new.request, new.before, new.items, new.total)
               \/ Tells(d, new.request, new.before, new.items, new.total)'
    <2>1. new.request.where = <<>> /\ new.request.page \in Nat \ {0} /\
          Tells(d, new.request, new.before, new.items, new.total)
            => Tells(d, new.request, new.before, new.items, new.total)'
      BY TellingStays
    <2>2. ASSUME new.request.where = <<>> =>
                   Tells(d, new.request, new.before, new.items, new.total)'
          PROVE  call'[x].request.where = <<>> =>
                   Tells(d, call[x].request, call[x].before,
                         call[x].items, call[x].total)'
      BY <1>0, <2>2 DEF Tells
    <2>3. QED
      BY <1>0, <2>1, <2>2
  <1>2. CASE /\ call[x].table = d.name /\ new.op = call[x].op
             /\ new.request = call[x].request /\ new.before = call[x].before
             /\ new.items = call[x].items /\ new.total = call[x].total
             /\ new.at = call[x].at /\ new.answer = call[x].answer
    BY <1>0, <1>2 DEF ListingsOK
  <1>3. CASE Rests
    BY <1>0, <1>2, <1>3 DEF Rests, Follows
  <1>4. ASSUME NEW c \in Calls, NEW e \in Descriptors, Effect(c, e), c # x
        PROVE  new = call[x]
    BY <1>0, <1>4, EffectMoves
  <1>5. ASSUME NEW e \in Descriptors, Effect(x, e)
        PROVE  /\ new.request.page \in Nat \ {0}
               /\ new.answer = "ok" => new.items # Null /\ new.total # Null
               /\ new.request.where = <<>> =>
                    Tells(d, new.request, new.before, new.items, new.total)
                    \/ Tells(d, new.request, new.before, new.items, new.total)'
    <2>1. e = d /\ CallOK(x) /\ DOMAIN call = Calls
      BY <1>5, EffectMoves, NamesApart DEF Typed
    <2>2. CASE Lists(x, d)
      <3>1. /\ new.items = Null /\ new.total = Null /\ new.answer = "none"
            /\ new.request.page \in Nat \ {0}
            /\ new.before = Cardinality(Matching(d, new.request))
        BY <1>0, <2>1, <2>2, MovedCalls DEF Lists, Opens
      <3>2. new.before \in Nat
        BY <3>1, MatchingIsFinite
      <3>3. Tells(d, new.request, new.before, new.items, new.total)
        BY <3>1, <3>2 DEF Tells
      <3>4. QED
        BY <3>1, <3>3
    <2>3. CASE Advances(x, d)
      <3>1. PICK next : Advanced(x, d, next)
        BY <2>1, <2>3, AdvancesGivesRecord
      <3>2. next = new
        BY <1>0, <2>1, <3>1, MovedCalls DEF Advanced
      <3>3. /\ new.request = call[x].request /\ new.before = call[x].before
            /\ call[x].at = "listing" /\ call[x].table = d.name
            /\ new.answer = "ok" => new.items # Null /\ new.total # Null
        BY <3>1, <3>2 DEF Advanced
      <3>4. /\ call[x].request.page \in Nat \ {0}
            /\ call[x].request.where = <<>> =>
                 Tells(d, call[x].request, call[x].before, call[x].items,
                       call[x].total)
        BY <3>3 DEF ListingsOK
      <3>5. call[x].request.where = <<>> =>
              Tells(d, call[x].request, call[x].before, new.items, new.total)
        BY <3>1, <3>2, <3>4, TellingGoesOn DEF Advanced
      <3>6. QED
        BY <3>3, <3>4, <3>5
    <2>4. CASE Declined(x, d) \/ Shown(x, d) \/ Stored(x, d)
      <3>1. new.at # "listing" /\ ~(new.op = "list" /\ new.answer = "ok")
        <4>1. CASE Declined(x, d)
          BY <1>0, <2>1, <4>1, MovedCalls DEF Declined, Opens
        <4>2. CASE Shown(x, d)
          BY <1>0, <2>1, <4>2, MovedCalls DEF Shown, Opens
        <4>3. CASE Stored(x, d)
          BY <1>0, <2>1, <4>3, MovedCalls DEF Stored, Opens, Inserts, Updates
        <4>4. QED
          BY <2>4, <4>1, <4>2, <4>3
      <3>2. QED
        BY <1>0, <3>1
    <2>5. CASE Records(x, d)
      <3>1. PICK next : Recorded(x, d, next)
        BY <2>1, <2>5, RecordsGivesRecord
      <3>2. next = new
        BY <1>0, <2>1, <3>1, MovedCalls DEF Recorded
      <3>3. new.at = "done" /\ new.op # "list"
        BY <3>1, <3>2 DEF Recorded, AuditsNoListing
      <3>4. QED
        BY <1>0, <3>3
    <2>6. QED
      BY <1>5, <2>1, <2>2, <2>3, <2>4, <2>5 DEF Effect
  <1>6. CASE new = call[x]
    <2>1. call[x].table = d.name
      BY <1>0, <1>6
    <2>2. QED
      BY <1>2, <1>6, <2>1
  <1>7. QED
    BY <1>3, <1>4, <1>5, <1>6, StepsOfCatalog

LEMMA ListingsTell == ListingsOK => ListingsAddUp
  <1> SUFFICES ASSUME ListingsOK PROVE ListingsAddUp
    OBVIOUS
  <1>1. ASSUME NEW d \in Descriptors, NEW c \in Calls,
               call[c].table = d.name, call[c].op = "list",
               call[c].answer = "ok", call[c].request.where = <<>>
        PROVE  LET page == call[c].request.page
                   now == Cardinality(Matching(d, call[c].request))
               IN /\ call[c].before <= call[c].total /\ call[c].total <= now
                  /\ Fill(call[c].before, page) <= Cardinality(call[c].items)
                  /\ Cardinality(call[c].items) <= Fill(now, page)
    BY <1>1 DEF ListingsOK, Tells
  <1>2. QED
    BY <1>1 DEF ListingsAddUp

(* Of a listing without a filter, which runs its two statements on two     *)
(* connections, each half tells of a moment between its begin and its      *)
(* answer, for any size of page, any page and however many rows are        *)
(* created meanwhile.                                                      *)
THEOREM ListingsTellTheTruth == Spec => []ListingsAddUp
  <1>1. TableInit => AuditsNoListing /\ ListingsOK
    BY ListingsInit
  <1>2. Typed /\ AuditsNoListing /\ [Next]_tableVars => AuditsNoListing'
    BY AuditsStep
  <1>3. Typed /\ AuditsNoListing /\ ListingsOK /\ [Next]_tableVars => ListingsOK'
    BY ListingsStep
  <1>4. ListingsOK => ListingsAddUp
    BY ListingsTell
  <1>5. QED
    BY <1>1, <1>2, <1>3, <1>4, CatalogKept, PTL DEF Spec
===============================================================================
