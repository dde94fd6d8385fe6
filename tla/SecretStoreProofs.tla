------------------------- MODULE SecretStoreProofs --------------------------
(***************************************************************************)
(* Proofs about SecretStore, for every set of paths, values, callers and   *)
(* calls, every initial table and every finite set of requests.            *)
(***************************************************************************)
EXTENDS SecretStore, SecretScopeProofs, FiniteSetTheorems

Table == [Paths -> Row \union {NULL}]

\* What a request's stage says of what it carries.
Stage(stage, call, who, rows, status) ==
  /\ stage = "idle" => call = NULL
  /\ stage # "idle" => call \in Calls
  /\ stage \in {"idle", "auth"} \union Ops => rows = NULL
  /\ stage \in Ops => call.op = stage /\ who \in Callers
  /\ stage = "put" => TypeOf(call) \in Type /\ call.value \in Values
  /\ stage = "audit" =>
       /\ rows # NULL /\ call.op # "list"
       /\ call.op = "values" \/ Occupied(rows) # {}
  /\ stage # "done" => status = NULL
  /\ status = 200 =>
       /\ rows # NULL
       /\ call.op \in {"list", "values"} \/ Occupied(rows) # {}

Stages == \A r \in Requests : Stage(pc[r], req[r], caller[r], found[r], reply[r])

StoreInv == TypeOK /\ Stages /\ RowsOpen

-----------------------------------------------------------------------------
(* The data.                                                               *)

\* The parts of a call have the types the handlers rely on.
LEMMA CallParts ==
  ASSUME NEW call \in Calls
  PROVE  /\ call # NULL /\ call \in Call /\ call.op \in Ops
         /\ call.op \in {"put", "get", "delete"} => call.path \in Paths
         /\ ScopeOf(call) \in Scope
<1>1. call \in Call /\ call # NULL
  BY StoreConstantsOK
<1>2. call.op \in Ops /\ (call.op \in {"put", "get", "delete"} => call.path \in Paths)
  BY <1>1, StoreConstantsOK DEF Call
<1>3. ScopeOf(call) \in Scope
  <2>1. /\ call.ws \in Segments /\ call.proj \in Segments
        /\ call.env \in Segments \union {NULL} /\ call.merge \in BOOLEAN \union {NULL}
    BY <1>1 DEF Call
  <2>2. (IF call.env = NULL \/ call.merge = NULL THEN TRUE ELSE call.merge) \in BOOLEAN
    BY <2>1
  <2>3. QED  BY <2>1, <2>2 DEF ScopeOf, Scope
<1>4. QED  BY <1>1, <1>2, <1>3

\* The empty table is one.
LEMMA EmptyIsTable == Empty \in Table /\ Occupied(Empty) = {}
BY DEF Empty, Table, Occupied

\* Neither a table nor a row is NULL.
LEMMA TablesAreRows ==
  /\ \A rows \in Table : rows # NULL
  /\ \A row \in Row : row # NULL
BY StoreConstantsOK DEF Table

\* A part of the table is a table.
LEMMA RowsAtIsTable ==
  ASSUME TypeOK, NEW paths
  PROVE  RowsAt(paths) \in Table
BY DEF TypeOK, RowsAt, Table

\* The row that a put writes.
PutRow(call) ==
  [value_type |-> TypeOf(call), sealed |-> Seal(call.path, TypeOf(call), call.value)]

\* What a put writes is a row that opens at its path.
LEMMA PutRowIsRow ==
  ASSUME NEW call \in Calls, call.op = "put", TypeOf(call) \in Type, call.value \in Values
  PROVE  /\ PutRow(call) \in Row
         /\ PutRow(call) # NULL
         /\ PutRow(call).value_type = TypeOf(call)
         /\ PutRow(call).sealed.plain = call.value
         /\ Opens(PutRow(call).sealed, call.path, TypeOf(call))
<1>1. Seal(call.path, TypeOf(call), call.value) \in Sealed
  BY CallParts DEF Seal, Sealed
<1>2. PutRow(call) \in Row
  BY <1>1 DEF PutRow, Row
<1>3. QED  BY <1>2, TablesAreRows DEF PutRow, Seal, Opens

\* Admission answers with a status the server uses.
LEMMA AdmissionIsStatus ==
  ASSUME NEW call, NEW p
  PROVE  Admission(call, p) \in Statuses
BY DEF Admission, Statuses

\* A put that is admitted has a type and a value.
LEMMA AdmittedPut ==
  ASSUME NEW call \in Calls, call.op = "put", NEW p, Admission(call, p) = 200
  PROVE  TypeOf(call) \in Type /\ call.value \in Values
<1>1. ~BadPut(call)
  BY DEF Admission
<1>2. call.value \in Values \union {NULL}
  BY CallParts DEF Call
<1>3. QED  BY <1>1, <1>2 DEF BadPut

-----------------------------------------------------------------------------
(* Types and stages.                                                       *)

\* The initial states satisfy the invariant.
LEMMA StoreInit == Init => StoreInv
<1> SUFFICES ASSUME Init PROVE StoreInv
  OBVIOUS
<1>1. secrets \in Table
  BY StoreConstantsOK DEF Init, Table
<1>2. TypeOK
  <2>1. IsABag(audit_log)
    BY DEF Init, IsABag, EmptyBag, SetToBag
  <2>2. QED  BY <1>1, <2>1 DEF Init, TypeOK, Table
<1>3. Stages
  BY StoreConstantsOK DEF Init, Stages, Stage, Ops
<1>4. RowsOpen
  BY InitStoresOpen DEF Init, RowsOpen
<1>5. QED  BY <1>2, <1>3, <1>4 DEF StoreInv

\* One more copy of an element.
LEMMA AddToBag ==
  ASSUME NEW B, IsABag(B), NEW x
  PROVE  /\ IsABag(B (+) SetToBag({x}))
         /\ DOMAIN (B (+) SetToBag({x})) = DOMAIN B \union {x}
         /\ \A y \in DOMAIN B \ {x} : (B (+) SetToBag({x}))[y] = B[y]
         /\ (B (+) SetToBag({x}))[x] = (IF x \in DOMAIN B THEN B[x] ELSE 0) + 1
BY DEF IsABag, SetToBag, (+)

\* A step changes what its own request carries and nothing of the others'.
Local(r) ==
  \A q \in Requests : q # r =>
    /\ pc'[q] = pc[q] /\ req'[q] = req[q] /\ caller'[q] = caller[q]
    /\ found'[q] = found[q] /\ reply'[q] = reply[q]

\* Every step of a request is local to it.
LEMMA StepIsLocal ==
  ASSUME TypeOK, NEW r \in Requests, Step(r)
  PROVE  Local(r)
<1> USE DEF Local, TypeOK, Goto, Answer, Find
<1>1. CASE Receive(r)  BY <1>1 DEF Receive
<1>2. CASE Authenticate(r)
  <2>1. pc' = [pc EXCEPT ![r] = pc'[r]] /\ reply' = [reply EXCEPT ![r] = reply'[r]]
        /\ caller' = [caller EXCEPT ![r] = caller'[r]]
    BY <1>2 DEF Authenticate
  <2>2. QED  BY <1>2, <2>1 DEF Authenticate
<1>3. CASE PutSecret(r)  BY <1>3 DEF PutSecret
<1>4. CASE GetSecret(r)  BY <1>4 DEF GetSecret
<1>5. CASE DeleteSecret(r)  BY <1>5 DEF DeleteSecret
<1>6. CASE ListSecrets(r)  BY <1>6 DEF ListSecrets
<1>7. CASE ListValues(r)  BY <1>7 DEF ListValues
<1>8. CASE Audit(r)  BY <1>8 DEF Audit
<1>9. CASE StatementFails(r)  BY <1>9 DEF StatementFails
<1>10. CASE Abandon(r)  BY <1>10 DEF Abandon
<1>11. QED  BY <1>1, <1>2, <1>3, <1>4, <1>5, <1>6, <1>7, <1>8, <1>9, <1>10 DEF Step

\* Types are kept, given the stages.
LEMMA TypeStep ==
  ASSUME StoreInv, NEW r \in Requests, Step(r)
  PROVE  TypeOK'
<1> USE DEF StoreInv, TypeOK, Goto, Answer, Find, Table
<1>0. Stage(pc[r], req[r], caller[r], found[r], reply[r])
  BY DEF Stages
<1>1. CASE Receive(r)  BY <1>1 DEF Receive
<1>2. CASE Authenticate(r)
  <2>1. req[r].op \in Ops
    BY <1>0, <1>2, CallParts DEF Authenticate, Stage
  <2>2. 401 \in Statuses
    BY DEF Statuses
  <2>3. CASE Answer(r, 401) /\ UNCHANGED caller
    BY <1>2, <2>2, <2>3 DEF Authenticate
  <2>4. ASSUME NEW p \in Callers, caller' = [caller EXCEPT ![r] = p],
               LET status == Admission(req[r], p)
               IN  IF status = 200 THEN Goto(r, req[r].op) ELSE Answer(r, status)
        PROVE  TypeOK'
    BY <1>2, <2>1, <2>4, AdmissionIsStatus DEF Authenticate
  <2>5. QED  BY <1>2, <2>3, <2>4 DEF Authenticate
<1>3. CASE PutSecret(r)
  <2>1. PutRow(req[r]) \in Row /\ req[r].path \in Paths
    BY <1>0, <1>3, PutRowIsRow, CallParts DEF PutSecret, Stage, Ops
  <2>2. /\ secrets' = [secrets EXCEPT ![req[r].path] = PutRow(req[r])]
        /\ found' = [found EXCEPT ![r] = [Empty EXCEPT ![req[r].path] = PutRow(req[r])]]
    BY <1>3 DEF PutSecret, PutRow
  <2>3. [Empty EXCEPT ![req[r].path] = PutRow(req[r])] \in Table
    BY <2>1, EmptyIsTable
  <2>4. secrets' \in Table /\ found' \in [Requests -> Table \union {NULL}]
    BY <2>1, <2>2, <2>3
  <2>5. QED  BY <1>3, <2>4 DEF PutSecret
<1>4. CASE GetSecret(r)
  BY <1>4, RowsAtIsTable DEF GetSecret, Statuses
<1>5. CASE DeleteSecret(r)
  <2>1. secrets' \in Table
    BY <1>5 DEF DeleteSecret
  <2>2. found' \in [Requests -> Table \union {NULL}]
    BY <1>5, RowsAtIsTable DEF DeleteSecret
  <2>3. UNCHANGED <<audit_log, req, caller>>
    BY <1>5 DEF DeleteSecret
  <2>4. CASE Answer(r, 404)
    BY <2>1, <2>2, <2>3, <2>4 DEF Statuses
  <2>5. CASE Goto(r, "audit")
    BY <2>1, <2>2, <2>3, <2>5
  <2>6. QED  BY <1>5, <2>4, <2>5 DEF DeleteSecret
<1>6. CASE ListSecrets(r)
  BY <1>6, RowsAtIsTable DEF ListSecrets, Statuses
<1>7. CASE ListValues(r)
  BY <1>7, RowsAtIsTable DEF ListValues, Statuses
<1>8. CASE Audit(r)
  <2>1. IsABag(audit_log')
    BY <1>8, AddToBag DEF Audit
  <2>2. QED  BY <1>8, <2>1 DEF Audit, Statuses
<1>9. CASE StatementFails(r)
  <2>1. ASSUME NEW status \in Statuses, Answer(r, status)
        PROVE  TypeOK'
    BY <1>9, <2>1 DEF StatementFails
  <2>2. QED  BY <1>9, <2>1 DEF StatementFails, Statuses
<1>10. CASE Abandon(r)  BY <1>10 DEF Abandon
<1>11. QED  BY <1>1, <1>2, <1>3, <1>4, <1>5, <1>6, <1>7, <1>8, <1>9, <1>10 DEF Step

\* What a step leaves its own request with.
LEMMA OwnStage ==
  ASSUME StoreInv, NEW r \in Requests, Step(r)
  PROVE  Stage(pc'[r], req'[r], caller'[r], found'[r], reply'[r])
<1> USE DEF Goto, Answer, Find, Stage
<1>0. /\ Stage(pc[r], req[r], caller[r], found[r], reply[r])
      /\ pc \in [Requests -> Ops \union {"idle", "auth", "audit", "done", "gone"}]
      /\ DOMAIN req = Requests /\ DOMAIN caller = Requests
      /\ DOMAIN found = Requests /\ DOMAIN reply = Requests
      /\ NULL \notin Nat /\ RowsOpen
  BY StoreConstantsOK DEF StoreInv, Stages, TypeOK
<1>1. CASE Receive(r)
  BY <1>0, <1>1 DEF Receive, Ops
<1>2. CASE Authenticate(r)
  <2>0. req[r] \in Calls /\ req[r].op \in Ops /\ found[r] = NULL /\ reply[r] = NULL
    BY <1>0, <1>2, CallParts DEF Authenticate
  <2>1. CASE Answer(r, 401) /\ UNCHANGED caller
    BY <1>0, <1>2, <2>0, <2>1 DEF Authenticate, Ops
  <2>2. ASSUME NEW p \in Callers, caller' = [caller EXCEPT ![r] = p],
               Admission(req[r], p) # 200, Answer(r, Admission(req[r], p))
        PROVE  Stage(pc'[r], req'[r], caller'[r], found'[r], reply'[r])
    BY <1>0, <1>2, <2>0, <2>2 DEF Authenticate, Ops
  <2>3. ASSUME NEW p \in Callers, caller' = [caller EXCEPT ![r] = p],
               Admission(req[r], p) = 200, Goto(r, req[r].op)
        PROVE  Stage(pc'[r], req'[r], caller'[r], found'[r], reply'[r])
    <3>1. req[r].op = "put" => TypeOf(req[r]) \in Type /\ req[r].value \in Values
      BY <2>0, <2>3, AdmittedPut
    <3>2. QED  BY <1>0, <1>2, <2>0, <2>3, <3>1 DEF Authenticate, Ops
  <2>4. QED  BY <1>2, <2>1, <2>2, <2>3 DEF Authenticate
<1>3. CASE PutSecret(r)
  <2>1. req[r] \in Calls /\ req[r].op = "put" /\ req[r].path \in Paths
    BY <1>0, <1>3, CallParts DEF PutSecret, Ops
  <2>2. PutRow(req[r]) # NULL /\ found'[r] = [Empty EXCEPT ![req[r].path] = PutRow(req[r])]
    BY <1>0, <1>3, <2>1, PutRowIsRow DEF PutSecret, PutRow
  <2>3. found'[r] # NULL /\ Occupied(found'[r]) # {}
    <3>1. found'[r][req[r].path] # NULL
      BY <2>1, <2>2 DEF Empty
    <3>2. found'[r] # NULL
      <4>1. PutRow(req[r]) \in Row
        BY <1>0, <1>3, <2>1, PutRowIsRow DEF PutSecret
      <4>2. found'[r] \in Table
        BY <2>1, <2>2, <4>1, EmptyIsTable DEF Table
      <4>3. QED  BY <4>2, TablesAreRows
    <3>3. QED  BY <2>1, <3>1, <3>2 DEF Occupied
  <2>4. QED  BY <1>0, <1>3, <2>1, <2>3 DEF PutSecret, Ops
<1>4. CASE GetSecret(r)
  <2>1. /\ req[r] \in Calls /\ req[r].op = "get" /\ req[r].path \in Paths
        /\ found'[r] = RowsAt({req[r].path}) /\ found'[r] # NULL
    BY <1>0, <1>4, CallParts, RowsAtIsTable, TablesAreRows DEF GetSecret, Ops, StoreInv
  <2>2. secrets[req[r].path] # NULL => Occupied(found'[r]) # {}
    BY <2>1 DEF RowsAt, Occupied
  <2>3. QED  BY <1>0, <1>4, <2>1, <2>2 DEF GetSecret, Ops
<1>5. CASE DeleteSecret(r)
  <2>1. /\ req[r] \in Calls /\ req[r].op = "delete" /\ req[r].path \in Paths
        /\ found'[r] = RowsAt({req[r].path}) /\ found'[r] # NULL
    BY <1>0, <1>5, CallParts, RowsAtIsTable, TablesAreRows DEF DeleteSecret, Ops, StoreInv
  <2>2. secrets[req[r].path] # NULL => Occupied(found'[r]) # {}
    BY <2>1 DEF RowsAt, Occupied
  <2>3. QED  BY <1>0, <1>5, <2>1, <2>2 DEF DeleteSecret, Ops
<1>6. CASE ListSecrets(r)
  <2>1. found'[r] # NULL
    BY <1>0, <1>6, RowsAtIsTable, TablesAreRows DEF ListSecrets, StoreInv
  <2>2. QED  BY <1>0, <1>6, <2>1 DEF ListSecrets, Ops
<1>7. CASE ListValues(r)
  <2>1. found'[r] # NULL
    BY <1>0, <1>7, RowsAtIsTable, TablesAreRows DEF ListValues, StoreInv
  <2>2. QED  BY <1>0, <1>7, <2>1 DEF ListValues, Ops
<1>8. CASE Audit(r)
  BY <1>0, <1>8 DEF Audit, Ops
<1>9. CASE StatementFails(r)
  BY <1>0, <1>9 DEF StatementFails, InFlight, Ops
<1>10. CASE Abandon(r)
  BY <1>0, <1>10 DEF Abandon, InFlight, Ops
<1>11. QED  BY <1>1, <1>2, <1>3, <1>4, <1>5, <1>6, <1>7, <1>8, <1>9, <1>10 DEF Step

\* Stages are kept.
LEMMA StageStep ==
  ASSUME StoreInv, NEW r \in Requests, Step(r)
  PROVE  Stages'
<1>1. ASSUME NEW q \in Requests, q # r
      PROVE  Stage(pc'[q], req'[q], caller'[q], found'[q], reply'[q])
  BY <1>1, StepIsLocal DEF StoreInv, Stages, Local
<1>2. QED  BY <1>1, OwnStage DEF Stages

-----------------------------------------------------------------------------
(* Ciphertexts.                                                            *)

AllOpen(rows) ==
  \A path \in Paths :
    rows[path] # NULL => Opens(rows[path].sealed, path, rows[path].value_type)

\* RowsOpen, table by table.
LEMMA RowsOpenIsAllOpen ==
  RowsOpen <=> AllOpen(secrets) /\ \A r \in Requests : found[r] # NULL => AllOpen(found[r])
BY DEF RowsOpen, AllOpen

\* What a step leaves in the table and hands to its own request.
LEMMA OwnRows ==
  ASSUME StoreInv, NEW r \in Requests, Step(r)
  PROVE  /\ AllOpen(secrets')
         /\ found'[r] # NULL => AllOpen(found'[r])
<1> USE DEF Find
<1>0. /\ Stage(pc[r], req[r], caller[r], found[r], reply[r])
      /\ secrets \in Table /\ DOMAIN found = Requests
      /\ AllOpen(secrets) /\ (found[r] # NULL => AllOpen(found[r]))
      /\ \A paths : AllOpen(RowsAt(paths))
  BY RowsOpenIsAllOpen DEF StoreInv, Stages, TypeOK, Table, AllOpen, RowsAt
<1>1. CASE Receive(r) \/ Authenticate(r) \/ Audit(r) \/ StatementFails(r) \/ Abandon(r)
  BY <1>0, <1>1 DEF Receive, Authenticate, Audit, StatementFails, Abandon
<1>2. CASE PutSecret(r)
  <2>1. req[r] \in Calls /\ req[r].op = "put" /\ req[r].path \in Paths
    BY <1>0, <1>2, CallParts DEF PutSecret, Stage, Ops
  <2>2. /\ secrets' = [secrets EXCEPT ![req[r].path] = PutRow(req[r])]
        /\ found'[r] = [Empty EXCEPT ![req[r].path] = PutRow(req[r])]
    BY <1>0, <1>2 DEF PutSecret, PutRow
  <2>3. /\ Opens(PutRow(req[r]).sealed, req[r].path, PutRow(req[r]).value_type)
        /\ DOMAIN secrets = Paths
    BY <1>0, <1>2, <2>1, PutRowIsRow DEF PutSecret, Stage, Ops, Table
  <2>4. QED  BY <1>0, <2>1, <2>2, <2>3 DEF AllOpen, Empty
<1>3. CASE DeleteSecret(r)
  BY <1>0, <1>3 DEF DeleteSecret, AllOpen, Table
<1>4. CASE GetSecret(r) \/ ListSecrets(r) \/ ListValues(r)
  BY <1>0, <1>4 DEF GetSecret, ListSecrets, ListValues
<1>5. QED  BY <1>1, <1>2, <1>3, <1>4 DEF Step

\* Rows stay open.
LEMMA RowsStep ==
  ASSUME StoreInv, NEW r \in Requests, Step(r)
  PROVE  RowsOpen'
<1>1. ASSUME NEW q \in Requests, q # r, found'[q] # NULL
      PROVE  AllOpen(found'[q])
  BY <1>1, StepIsLocal, RowsOpenIsAllOpen DEF StoreInv, Local
<1>2. QED  BY <1>1, OwnRows DEF RowsOpen, AllOpen

\* The invariant is inductive.
LEMMA StoreStep == StoreInv /\ [Next]_vars => StoreInv'
<1> SUFFICES ASSUME StoreInv, [Next]_vars PROVE StoreInv'
  OBVIOUS
<1>1. ASSUME NEW r \in Requests, Step(r)
      PROVE  StoreInv'
  BY <1>1, TypeStep, StageStep, RowsStep DEF StoreInv
<1>2. CASE UNCHANGED vars
  BY <1>2 DEF vars, StoreInv, TypeOK, Stages, RowsOpen
<1>3. QED  BY <1>1, <1>2 DEF Next, Finished

\* It holds in every reachable state.
LEMMA StoreInvariant == Spec => []StoreInv
BY StoreInit, StoreStep, PTL DEF Spec

\* Every variable keeps its type, the log a bag, under any calls.
THEOREM StoreTypesCorrect == Spec => []TypeOK
<1>1. StoreInv => TypeOK
  BY DEF StoreInv
<1>2. QED  BY StoreInvariant, <1>1, PTL

(***************************************************************************)
(* Ciphertexts stay bound to their rows: whatever the requests, every row  *)
(* of the table and every row a request carries past an await opens under  *)
(* its own path and type, so no interleaving makes decrypt_secret_value    *)
(* fail.                                                                   *)
(***************************************************************************)
THEOREM RowsAlwaysOpen == Spec => []RowsOpen
<1>1. StoreInv => RowsOpen
  BY DEF StoreInv
<1>2. QED  BY StoreInvariant, <1>1, PTL

-----------------------------------------------------------------------------
(* The audit log.                                                          *)

\* The served requests whose audit row is the given one.
Behind(row) == {r \in Served : RowOf(r) = row}

LogInv ==
  /\ StoreInv
  /\ DOMAIN audit_log = {RowOf(r) : r \in Served}
  /\ \A row \in DOMAIN audit_log : audit_log[row] = Cardinality(Behind(row))

\* The log begins empty, with nobody served.
LEMMA LogInit == Init => LogInv
<1> SUFFICES ASSUME Init PROVE LogInv
  OBVIOUS
<1>1. Served = {}
  BY StoreConstantsOK DEF Init, Served
<1>2. DOMAIN audit_log = {}
  BY DEF Init, EmptyBag, SetToBag
<1>3. QED  BY <1>1, <1>2, StoreInit DEF LogInv

\* A served request has ended.
LEMMA ServedAreDone ==
  ASSUME StoreInv, NEW r \in Served
  PROVE  r \in Requests /\ pc[r] = "done"
BY StoreConstantsOK DEF StoreInv, Stages, Stage, Served

\* A request that is not done is not served, and stays so unless it logs.
LEMMA OnlyAuditServes ==
  ASSUME StoreInv, NEW r \in Requests, Step(r)
  PROVE  /\ r \notin Served
         /\ Audit(r) \/ (r \notin Served' /\ audit_log' = audit_log)
<1>1. /\ pc[r] # "done" /\ DOMAIN reply = Requests
      /\ reply[r] # 200
      /\ pc[r] = "list" => req[r].op = "list"
  <2>1. pc[r] # "done"
    BY DEF Step, Receive, Authenticate, PutSecret, GetSecret, DeleteSecret, ListSecrets,
           ListValues, Audit, StatementFails, Abandon, InFlight
  <2>2. QED  BY <2>1, StoreConstantsOK DEF StoreInv, Stages, Stage, TypeOK, Ops
<1>2. r \notin Served
  BY <1>1 DEF Served
<1>3. CASE Authenticate(r)
  <2>1. reply'[r] # 200
    BY <1>1, <1>3 DEF Authenticate, Goto, Answer
  <2>2. QED  BY <1>2, <1>3, <2>1 DEF Authenticate, Served
<1>4. CASE ListSecrets(r)
  BY <1>1, <1>2, <1>4 DEF ListSecrets, Served
<1>5. CASE \/ Receive(r) \/ PutSecret(r) \/ GetSecret(r) \/ DeleteSecret(r)
           \/ ListValues(r) \/ StatementFails(r) \/ Abandon(r)
  <2>1. reply'[r] # 200 /\ audit_log' = audit_log
    BY <1>1, <1>5 DEF Receive, PutSecret, GetSecret, DeleteSecret, ListValues, StatementFails,
                      Abandon, Goto, Answer
  <2>2. QED  BY <1>2, <2>1 DEF Served
<1>6. QED  BY <1>2, <1>3, <1>4, <1>5 DEF Step

\* A step changes neither whether another request was served nor its row.
LEMMA OthersKeepRows ==
  ASSUME StoreInv, NEW r \in Requests, Step(r), NEW q \in Requests, q # r
  PROVE  (q \in Served' <=> q \in Served) /\ RowOf(q)' = RowOf(q)
BY StepIsLocal DEF StoreInv, Local, Served, RowOf

\* Sets of requests can be counted.
LEMMA ServedFinite ==
  ASSUME NEW S \in SUBSET Requests
  PROVE  IsFiniteSet(S) /\ Cardinality(S) \in Nat
BY RequestsFinite, FS_Subset, FS_CardinalityType

\* A step that does not log keeps the log exact.
LEMMA QuietLog ==
  ASSUME LogInv, NEW r \in Requests, Step(r), ~Audit(r)
  PROVE  LogInv'
<1>1. StoreInv /\ StoreInv'
  BY TypeStep, StageStep, RowsStep DEF LogInv, StoreInv
<1>2. r \notin Served /\ r \notin Served' /\ audit_log' = audit_log
  BY <1>1, OnlyAuditServes
<1>3. Served \subseteq Requests /\ Served' \subseteq Requests
  BY DEF Served
<1>4. Served' = Served /\ \A q \in Served : RowOf(q)' = RowOf(q)
  BY <1>1, <1>2, <1>3, OthersKeepRows
<1>5. {RowOf(q) : q \in Served}' = {RowOf(q) : q \in Served}
  BY <1>4
<1>6. ASSUME NEW row PROVE Behind(row)' = Behind(row)
  BY <1>4 DEF Behind
<1>7. QED  BY <1>1, <1>2, <1>5, <1>6 DEF LogInv

\* A step that logs serves its request and adds its row once.
LEMMA AuditLogs ==
  ASSUME LogInv, NEW r \in Requests, Audit(r)
  PROVE  LogInv'
<1> PICK new : new = RowOf(r)
  OBVIOUS
<1>0. IsABag(audit_log)
  BY DEF LogInv, StoreInv, TypeOK
<1>1. StoreInv /\ StoreInv' /\ Step(r)
  BY TypeStep, StageStep, RowsStep DEF LogInv, StoreInv, Step
<1>2. /\ r \notin Served /\ r \in Served'
      /\ RowOf(r)' = new /\ audit_log' = audit_log (+) SetToBag({new})
  <2>1. r \notin Served
    BY <1>1, OnlyAuditServes
  <2>2. reply'[r] = 200 /\ req' = req /\ req[r].op # "list"
    BY <1>1 DEF Audit, Answer, StoreInv, TypeOK, Stages, Stage
  <2>3. QED  BY <2>1, <2>2 DEF Audit, Served, RowOf
<1>3. Served \subseteq Requests /\ Served' \subseteq Requests
  BY DEF Served
<1>4. Served' = Served \union {r} /\ \A q \in Served : RowOf(q)' = RowOf(q)
  BY <1>1, <1>2, <1>3, OthersKeepRows
<1>5. {RowOf(q) : q \in Served}' = {RowOf(q) : q \in Served} \union {new}
  BY <1>2, <1>4
<1>6. Behind(new)' = Behind(new) \union {r} /\ r \notin Behind(new)
  BY <1>2, <1>4 DEF Behind
<1>7. ASSUME NEW row, row # new PROVE Behind(row)' = Behind(row)
  BY <1>2, <1>4, <1>7 DEF Behind
<1>8. Cardinality(Behind(new)') = Cardinality(Behind(new)) + 1
  <2>1. IsFiniteSet(Behind(new))
    BY <1>3, ServedFinite DEF Behind
  <2>2. QED  BY <1>6, <2>1, FS_AddElement
<1>9. new \notin DOMAIN audit_log => Cardinality(Behind(new)) = 0
  <2>1. new \notin DOMAIN audit_log => Behind(new) = {}
    BY DEF LogInv, Behind
  <2>2. QED  BY <2>1, FS_EmptySet
<1>10. /\ DOMAIN audit_log' = DOMAIN audit_log \union {new}
       /\ \A row \in DOMAIN audit_log \ {new} : audit_log'[row] = audit_log[row]
       /\ audit_log'[new] = (IF new \in DOMAIN audit_log THEN audit_log[new] ELSE 0) + 1
  <2> DEFINE added == audit_log (+) SetToBag({new})
  <2>1. /\ DOMAIN added = DOMAIN audit_log \union {new}
        /\ \A row \in DOMAIN audit_log \ {new} : added[row] = audit_log[row]
        /\ added[new] = (IF new \in DOMAIN audit_log THEN audit_log[new] ELSE 0) + 1
    BY ONLY <1>0, AddToBag
  <2>2. audit_log' = added
    BY <1>2
  <2> HIDE DEF added
  <2>3. QED  BY ONLY <2>1, <2>2
<1>11. ASSUME NEW row \in DOMAIN audit_log'
       PROVE  audit_log'[row] = Cardinality(Behind(row))'
  <2>1. CASE row = new /\ new \in DOMAIN audit_log
    BY <1>8, <1>10, <2>1 DEF LogInv
  <2>2. CASE row = new /\ new \notin DOMAIN audit_log
    BY <1>8, <1>9, <1>10, <2>2
  <2>3. CASE row # new
    BY <1>7, <1>10, <2>3 DEF LogInv
  <2>4. QED  BY <2>1, <2>2, <2>3
<1>12. QED  BY <1>1, <1>5, <1>10, <1>11 DEF LogInv

\* The exactness of the log is inductive.
LEMMA LogStep == LogInv /\ [Next]_vars => LogInv'
<1> SUFFICES ASSUME LogInv, [Next]_vars PROVE LogInv'
  OBVIOUS
<1>1. ASSUME NEW r \in Requests, Step(r)
      PROVE  LogInv'
  BY <1>1, QuietLog, AuditLogs
<1>2. CASE UNCHANGED vars
  <2>1. StoreInv'
    BY <1>2, StoreStep DEF LogInv
  <2>2. QED  BY <1>2, <2>1 DEF vars, LogInv, Behind, Served, RowOf
<1>3. QED  BY <1>1, <1>2 DEF Next, Finished

(***************************************************************************)
(* The audit log is exact at every instant, for any finite set of          *)
(* requests: one row for each value handed out and each change confirmed,  *)
(* and no row without such a request, although a statement and its row are *)
(* written under different holds of the mutex.                             *)
(***************************************************************************)
THEOREM LogStaysExact == Spec => []AuditIsExact
<1>1. LogInv => AuditIsExact
  <2> SUFFICES ASSUME LogInv PROVE AuditIsExact
    OBVIOUS
  <2>1. ASSUME NEW r \in Served
        PROVE  req[r].op = "values" \/ Occupied(found[r]) # {}
    BY DEF LogInv, StoreInv, Stages, Stage, Served
  <2>2. QED  BY <2>1 DEF LogInv, AuditIsExact, BagToSet, Behind
<1>2. QED  BY LogInit, LogStep, <1>1, PTL DEF Spec

-----------------------------------------------------------------------------
(* The abstract map.                                                       *)

\* A step changes the abstract state of its own request only.
OthersSame(r) ==
  \A q \in Requests : q # r =>
    /\ PhaseOf(q)' = PhaseOf(q)
    /\ OpOf(q)' = OpOf(q)
    /\ OutcomeOf(q)' = OutcomeOf(q)

\* Nothing of another request's abstract state changes.
LEMMA OthersKeepTheirPart ==
  ASSUME StoreInv, NEW r \in Requests, Step(r)
  PROVE  OthersSame(r)
BY StepIsLocal DEF StoreInv, Local, OthersSame, PhaseOf, OpOf, OutcomeOf

\* The steps of the map, by what they do to their own request.
LEMMA MapCall ==
  ASSUME NEW r \in Requests, OthersSame(r), NEW call \in Calls,
         PhaseOf(r) = "idle", PhaseOf(r)' = "called", OpOf(r)' = OperationOf(call),
         OutcomeOf(r)' = OutcomeOf(r),
         Plaintext(secrets)' = Plaintext(secrets)
  PROVE  Map!Next
<1>1. Map!Call(r)
  BY DEF Map!Call, OthersSame
<1>2. QED  BY <1>1 DEF Map!Next

\* An answer after the act.
LEMMA MapAnswer ==
  ASSUME NEW r \in Requests, OthersSame(r),
         PhaseOf(r) = "acted", PhaseOf(r)' = "answered",
         OpOf(r)' = OpOf(r), OutcomeOf(r)' = OutcomeOf(r),
         Plaintext(secrets)' = Plaintext(secrets)
  PROVE  Map!Next
<1>1. Map!Answer(r)
  BY DEF Map!Answer, OthersSame
<1>2. QED  BY <1>1 DEF Map!Next

\* A failure before the act or after it.
LEMMA MapFail ==
  ASSUME NEW r \in Requests, OthersSame(r),
         PhaseOf(r) \in {"called", "acted"}, PhaseOf(r)' = "failed",
         OpOf(r)' = OpOf(r), OutcomeOf(r)' = OutcomeOf(r),
         Plaintext(secrets)' = Plaintext(secrets)
  PROVE  Map!Next
<1>1. Map!Fail(r)
  BY DEF Map!Fail, OthersSame
<1>2. QED  BY <1>1 DEF Map!Next

\* A read of one path that is answered unseen.
LEMMA MapMisread ==
  ASSUME NEW r \in Requests, OthersSame(r), SqlFaults,
         PhaseOf(r) = "called", PhaseOf(r)' = "answered",
         OpOf(r).kind = "read", NEW path \in Paths, OpOf(r).paths = {path},
         OpOf(r)' = OpOf(r), OutcomeOf(r)' = OutcomeOf(r),
         Plaintext(secrets)' = Plaintext(secrets)
  PROVE  Map!Next
<1>1. Map!Misread(r)
  BY DEF Map!Misread, OthersSame
<1>2. QED  BY <1>1 DEF Map!Next

\* A step the map does not see.
LEMMA MapStutter ==
  ASSUME NEW r \in Requests, OthersSame(r), PhaseOf(r)' = PhaseOf(r),
         OpOf(r)' = OpOf(r), OutcomeOf(r)' = OutcomeOf(r),
         Plaintext(secrets)' = Plaintext(secrets)
  PROVE  UNCHANGED Map!map
BY DEF Map!map, OthersSame

\* The act, with or without its answer.
LEMMA MapServe ==
  ASSUME NEW r \in Requests, OthersSame(r), Map!Act(r),
         PhaseOf(r) = "called", PhaseOf(r)' \in {"acted", "answered", "failed"},
         OpOf(r)' = OpOf(r)
  PROVE  Map!Next
<1>1. Map!Serve(r)
  BY DEF Map!Serve, OthersSame
<1>2. QED  BY <1>1 DEF Map!Next

\* The act of a read.
LEMMA ActRead ==
  ASSUME NEW r \in Requests, OthersSame(r), NEW paths,
         OpOf(r) = [kind |-> "read", paths |-> paths],
         OutcomeOf(r)' = Map!On(Plaintext(secrets), paths),
         Plaintext(secrets)' = Plaintext(secrets)
  PROVE  Map!Act(r)
<1>1. [q \in Requests |-> OutcomeOf(q)]'
      = [[q \in Requests |-> OutcomeOf(q)] EXCEPT ![r] = Map!On(Plaintext(secrets), paths)]
  BY DEF OthersSame
<1>2. /\ [q \in Requests |-> OpOf(q)][r].kind = "read"
      /\ [q \in Requests |-> OpOf(q)][r].paths = paths
  OBVIOUS
<1>3. QED  BY ONLY <1>1, <1>2, Plaintext(secrets)' = Plaintext(secrets) DEF Map!Act

\* A write.
LEMMA ActWrite ==
  ASSUME NEW r \in Requests, OthersSame(r), NEW path, NEW entry,
         OpOf(r) = [kind |-> "write", path |-> path, entry |-> entry],
         Plaintext(secrets)' = [Plaintext(secrets) EXCEPT ![path] = entry],
         OutcomeOf(r)' = Map!On(Plaintext(secrets)', {path})
  PROVE  Map!Act(r)
<1>1. [q \in Requests |-> OutcomeOf(q)]'
      = [[q \in Requests |-> OutcomeOf(q)] EXCEPT ![r] = Map!On(Plaintext(secrets)', {path})]
  BY DEF OthersSame
<1>2. /\ [q \in Requests |-> OpOf(q)][r].kind = "write"
      /\ [q \in Requests |-> OpOf(q)][r].path = path
      /\ [q \in Requests |-> OpOf(q)][r].entry = entry
  OBVIOUS
<1>3. QED  BY ONLY <1>1, <1>2, Plaintext(secrets)' = [Plaintext(secrets) EXCEPT ![path] = entry] DEF Map!Act

\* A removal.
LEMMA ActRemove ==
  ASSUME NEW r \in Requests, OthersSame(r), NEW path,
         OpOf(r) = [kind |-> "remove", path |-> path],
         Plaintext(secrets)' = [Plaintext(secrets) EXCEPT ![path] = NULL],
         OutcomeOf(r)' = Map!On(Plaintext(secrets), {path})
  PROVE  Map!Act(r)
<1>1. [q \in Requests |-> OutcomeOf(q)]'
      = [[q \in Requests |-> OutcomeOf(q)] EXCEPT ![r] = Map!On(Plaintext(secrets), {path})]
  BY DEF OthersSame
<1>2. /\ [q \in Requests |-> OpOf(q)][r].kind = "remove"
      /\ [q \in Requests |-> OpOf(q)][r].path = path
  OBVIOUS
<1>3. QED  BY ONLY <1>1, <1>2, Plaintext(secrets)' = [Plaintext(secrets) EXCEPT ![path] = NULL] DEF Map!Act

\* The rows a statement returns are the map's entries at the same paths.
LEMMA RowsAtAreEntries ==
  ASSUME NEW paths
  PROVE  Plaintext(RowsAt(paths)) = Map!On(Plaintext(secrets), paths)
BY DEF Plaintext, RowsAt, EntryOf, Map!On

\* A listing that filters reads the documented scope, the other one what its
\* SELECT returns; a get reads its path.
LEMMA ReadOperation ==
  ASSUME NEW call \in Calls
  PROVE  /\ call.op = "get" => OperationOf(call) = [kind |-> "read", paths |-> {call.path}]
         /\ call.op \in {"list", "values"} =>
              OperationOf(call) = [kind |-> "read", paths |-> ListedPaths(call)]
<1>1. {path \in Paths : InList(path, ScopeOf(call))}
      = {path \in Paths : path \in Documented(Asked(call))}
  <2>1. \A path \in Paths :
          InList(path, ScopeOf(call)) <=> path \in Documented(ScopeOf(call))
    BY CallParts, FilteredListsAsDocumented, StoreConstantsOK
  <2>2. Documented(ScopeOf(call)) = Documented(Asked(call))
    <3>1. call.env # NULL => ScopeOf(call).merge = Asked(call).merge
      BY CallParts, StoreConstantsOK DEF Call, ScopeOf, Asked
    <3>2. QED  BY <3>1 DEF Documented, ScopeOf, Asked
  <2>3. QED  BY <2>1, <2>2
<1>2. QED  BY <1>1 DEF OperationOf, ListedPaths

\* Where a request stands in the map, from where it stands in the handler.
LEMMA PhaseFromStage ==
  ASSUME StoreInv, NEW r \in Requests
  PROVE  /\ pc[r] = "idle" <=> PhaseOf(r) = "idle"
         /\ pc[r] \in Ops \union {"auth"} => PhaseOf(r) = "called"
         /\ pc[r] = "audit" => PhaseOf(r) = "acted"
         /\ req[r] \in Calls => OpOf(r) = OperationOf(req[r])
         /\ pc[r] # "idle" => req[r] \in Calls
<1>1. pc[r] # "idle" => req[r] \in Calls
  BY DEF StoreInv, Stages, Stage
<1>2. QED  BY <1>1, CallParts DEF PhaseOf, OpOf, Ops

\* A step that leaves the table and what its request found as they are.
LEMMA PlainSame ==
  ASSUME NEW r \in Requests, secrets' = secrets, found' = found
  PROVE  OutcomeOf(r)' = OutcomeOf(r) /\ Plaintext(secrets)' = Plaintext(secrets)
BY DEF OutcomeOf

\* A request keeps its operation.
LEMMA RequestSame ==
  ASSUME NEW r \in Requests, req' = req
  PROVE  OpOf(r)' = OpOf(r)
BY DEF OpOf

\* Initial tables map to initial maps.
LEMMA MapInit == Init => Map!Init
<1> SUFFICES ASSUME Init PROVE Map!Init
  OBVIOUS
<1>1. Plaintext(secrets) \in {Plaintext(t) : t \in InitStores}
  BY DEF Init
<1>2. ASSUME NEW r \in Requests
      PROVE  PhaseOf(r) = "idle" /\ OpOf(r) = NULL /\ OutcomeOf(r) = Map!Nothing
  BY DEF Init, PhaseOf, OpOf, OutcomeOf, Plaintext, Empty, EntryOf, Map!Nothing
<1>3. QED  BY <1>1, <1>2 DEF Map!Init

\* A request that is refused, fails or is dropped is not answered.
LEMMA EndsFailed ==
  ASSUME StoreInv, NEW r \in Requests, Step(r), pc[r] # "idle",
         UNCHANGED <<secrets, req, found>>,
         \/ pc'[r] = "gone"
         \/ pc'[r] = "done" /\ reply'[r] \notin {200, 404}
  PROVE  Map!Next
<1>1. OthersSame(r)
  BY OthersKeepTheirPart
<1>2. pc[r] \in Ops \union {"auth", "audit"}
  BY DEF Step, Receive, Authenticate, PutSecret, GetSecret, DeleteSecret, ListSecrets,
         ListValues, Audit, StatementFails, Abandon, InFlight, StoreInv, TypeOK, Ops
<1>3. PhaseOf(r) \in {"called", "acted"}
  BY <1>2, PhaseFromStage DEF Ops
<1>4. PhaseOf(r)' = "failed"
  <2>1. pc'[r] = "gone" => reply'[r] \notin {200, 404}
    BY StageStep, StoreConstantsOK DEF Stages, Stage
  <2>2. QED  BY <2>1 DEF PhaseOf, Ops
<1>5. QED  BY <1>1, <1>3, <1>4, PlainSame, RequestSame, MapFail

\* A statement that read the rows at some paths.
LEMMA ServesRead ==
  ASSUME StoreInv, NEW r \in Requests, Step(r), NEW paths,
         pc[r] \in {"get", "list", "values"},
         OperationOf(req[r]) = [kind |-> "read", paths |-> paths],
         UNCHANGED <<secrets, req>>, found'[r] = RowsAt(paths),
         pc'[r] \in {"audit", "done"}
  PROVE  Map!Next
<1>1. OthersSame(r)
  BY OthersKeepTheirPart
<1>2. PhaseOf(r) = "called" /\ OpOf(r) = [kind |-> "read", paths |-> paths]
  BY PhaseFromStage DEF Ops
<1>3. PhaseOf(r)' \in {"acted", "answered", "failed"}
  BY DEF PhaseOf, Ops
<1>4. OutcomeOf(r)' = Map!On(Plaintext(secrets), paths)
  <2>1. RowsAt(paths) # NULL
    BY RowsAtIsTable, TablesAreRows DEF StoreInv
  <2>2. QED  BY <2>1, RowsAtAreEntries DEF OutcomeOf
<1>5. Plaintext(secrets)' = Plaintext(secrets)
  OBVIOUS
<1>6. Map!Act(r)
  BY <1>1, <1>2, <1>4, <1>5, ActRead
<1>7. QED  BY <1>1, <1>2, <1>3, <1>6, RequestSame, MapServe

\* The SELECT of a get fails: "not found", whatever the map holds.
LEMMA GetMisreads ==
  ASSUME StoreInv, NEW r \in Requests, StatementFails(r), pc[r] = "get",
         pc'[r] = "done", reply'[r] = 404, UNCHANGED <<secrets, req, found>>
  PROVE  Map!Next
<1>1. OthersSame(r)
  BY OthersKeepTheirPart DEF Step
<1>2. /\ req[r] \in Calls /\ req[r].op = "get" /\ req[r].path \in Paths
      /\ PhaseOf(r) = "called" /\ OpOf(r) = OperationOf(req[r])
  BY PhaseFromStage, CallParts DEF StoreInv, Stages, Stage, Ops
<1>3. OpOf(r).kind = "read" /\ OpOf(r).paths = {req[r].path}
  BY <1>2, ReadOperation
<1>4. PhaseOf(r)' = "answered"
  BY DEF PhaseOf, Ops
<1>5. OpOf(r)' = OpOf(r) /\ OutcomeOf(r)' = OutcomeOf(r) /\ Plaintext(secrets)' = Plaintext(secrets)
  BY PlainSame, RequestSame
<1>6. QED  BY <1>1, <1>2, <1>3, <1>4, <1>5, MapMisread DEF StatementFails

\* create_or_update writes the map at one instant.
LEMMA PutServes ==
  ASSUME StoreInv, NEW r \in Requests, PutSecret(r)
  PROVE  Map!Next
<1> DEFINE call == req[r]
           entry == [type |-> TypeOf(call), value |-> call.value]
<1>1. Step(r) /\ OthersSame(r)
  BY OthersKeepTheirPart DEF Step
<1>2. /\ call \in Calls /\ call.op = "put" /\ call.path \in Paths
      /\ TypeOf(call) \in Type /\ call.value \in Values
  BY CallParts DEF StoreInv, Stages, Stage, PutSecret, Ops
<1>3. PutRow(call) \in Row /\ PutRow(call) # NULL /\ EntryOf(PutRow(call)) = entry
  BY <1>2, PutRowIsRow DEF EntryOf
<1>4. /\ secrets' = [secrets EXCEPT ![call.path] = PutRow(call)]
      /\ found'[r] = [Empty EXCEPT ![call.path] = PutRow(call)]
      /\ req' = req /\ pc'[r] = "audit"
  BY DEF PutSecret, PutRow, Find, Goto, StoreInv, TypeOK
<1>5. PhaseOf(r) = "called" /\ PhaseOf(r)' = "acted"
      /\ OpOf(r) = [kind |-> "write", path |-> call.path, entry |-> entry]
  BY <1>2, <1>4, PhaseFromStage DEF PutSecret, PhaseOf, Ops, OperationOf
<1>6. Plaintext(secrets)' = [Plaintext(secrets) EXCEPT ![call.path] = entry]
  BY <1>2, <1>3, <1>4 DEF Plaintext, StoreInv, TypeOK
<1>7. OutcomeOf(r)' = Map!On(Plaintext(secrets)', {call.path})
  <2>1. found'[r] # NULL
    BY <1>2, <1>3, <1>4, EmptyIsTable, TablesAreRows DEF Table
  <2>2. OutcomeOf(r)' = Plaintext(found'[r])
    BY <2>1 DEF OutcomeOf
  <2>3. Plaintext(found'[r]) = [Map!Nothing EXCEPT ![call.path] = entry]
    BY <1>2, <1>3, <1>4 DEF Plaintext, Empty, EntryOf, Map!Nothing
  <2>4. Map!On(Plaintext(secrets)', {call.path}) = [Map!Nothing EXCEPT ![call.path] = entry]
    BY <1>2, <1>6 DEF Map!On, Map!Nothing, Plaintext
  <2>5. QED  BY <2>2, <2>3, <2>4
<1> HIDE DEF call, entry
<1>8. Map!Act(r)
  BY <1>1, <1>5, <1>6, <1>7, ActWrite
<1>9. QED  BY <1>1, <1>4, <1>5, <1>8, RequestSame, MapServe

\* delete removes from the map at one instant, found or not.
LEMMA DeleteServes ==
  ASSUME StoreInv, NEW r \in Requests, DeleteSecret(r)
  PROVE  Map!Next
<1> DEFINE path == req[r].path
<1>1. Step(r) /\ OthersSame(r)
  BY OthersKeepTheirPart DEF Step
<1>2. req[r] \in Calls /\ req[r].op = "delete" /\ path \in Paths
  BY CallParts DEF StoreInv, Stages, Stage, DeleteSecret, Ops
<1>3. /\ secrets' = [secrets EXCEPT ![path] = NULL]
      /\ found'[r] = RowsAt({path}) /\ found'[r] # NULL
      /\ req' = req /\ pc'[r] \in {"audit", "done"}
  BY RowsAtIsTable, TablesAreRows DEF DeleteSecret, Find, Goto, Answer, StoreInv, TypeOK
<1>4. PhaseOf(r) = "called" /\ PhaseOf(r)' \in {"acted", "answered", "failed"}
      /\ OpOf(r) = [kind |-> "remove", path |-> path]
  BY <1>2, <1>3, PhaseFromStage DEF DeleteSecret, PhaseOf, Ops, OperationOf
<1>5. Plaintext(secrets)' = [Plaintext(secrets) EXCEPT ![path] = NULL]
  BY <1>2, <1>3 DEF Plaintext, EntryOf, StoreInv, TypeOK
<1>6. OutcomeOf(r)' = Map!On(Plaintext(secrets), {path})
  BY <1>3, RowsAtAreEntries DEF OutcomeOf
<1> HIDE DEF path
<1>7. Map!Act(r)
  BY <1>1, <1>4, <1>5, <1>6, ActRemove
<1>8. QED  BY <1>1, <1>3, <1>4, <1>7, RequestSame, MapServe

\* Every step of a request is a step of the map, or none.
LEMMA MapStep ==
  ASSUME StoreInv, NEW r \in Requests, Step(r)
  PROVE  [Map!Next]_(Map!map)
<1> USE DEF Goto, Answer, Find
<1>0. /\ OthersSame(r) /\ Stage(pc[r], req[r], caller[r], found[r], reply[r])
      /\ DOMAIN pc = Requests /\ DOMAIN req = Requests
      /\ DOMAIN found = Requests /\ DOMAIN reply = Requests
      /\ 200 \in Statuses /\ 404 \in Statuses
  BY OthersKeepTheirPart DEF StoreInv, Stages, TypeOK, Statuses
<1>1. CASE Receive(r)
  <2>1. PICK call \in Calls : req' = [req EXCEPT ![r] = call]
    BY <1>1 DEF Receive
  <2>2. PhaseOf(r) = "idle" /\ PhaseOf(r)' = "called" /\ OpOf(r)' = OperationOf(call)
    BY <1>0, <1>1, <2>1, CallParts DEF Receive, PhaseOf, OpOf, Ops
  <2>3. secrets' = secrets /\ found' = found
    BY <1>1 DEF Receive
  <2>4. QED  BY <1>0, <2>2, <2>3, PlainSame, MapCall
<1>2. CASE Authenticate(r)
  <2>1. /\ pc[r] = "auth" /\ req[r].op \in Ops
        /\ UNCHANGED <<secrets, req, found>>
    BY <1>0, <1>2, CallParts DEF Authenticate, Stage
  <2>2. CASE pc'[r] = "done" /\ reply'[r] \in {400, 401, 403}
    BY <2>1, <2>2, EndsFailed
  <2>3. CASE pc'[r] = req[r].op
    <3>1. PhaseOf(r) = "called" /\ PhaseOf(r)' = "called"
      BY <2>1, <2>3 DEF PhaseOf, Ops
    <3>2. QED  BY <1>0, <2>1, <3>1, PlainSame, RequestSame, MapStutter
  <2>4. \A call, p : Admission(call, p) \in {200, 400, 403}
    BY DEF Admission
  <2>5. QED  BY <1>0, <1>2, <2>2, <2>3, <2>4 DEF Authenticate
<1>3. CASE PutSecret(r)
  BY <1>3, PutServes
<1>4. CASE GetSecret(r)
  <2> PICK paths : paths = {req[r].path}
    OBVIOUS
  <2>1. req[r] \in Calls /\ req[r].op = "get"
    BY <1>0, <1>4 DEF GetSecret, Stage, Ops
  <2>2. /\ pc[r] = "get" /\ UNCHANGED <<secrets, req>>
        /\ found'[r] = RowsAt(paths) /\ pc'[r] \in {"audit", "done"}
    BY <1>0, <1>4 DEF GetSecret
  <2>3. OperationOf(req[r]) = [kind |-> "read", paths |-> paths]
    BY <2>1, ReadOperation
  <2>4. QED  BY <2>2, <2>3, ServesRead
<1>5. CASE DeleteSecret(r)
  BY <1>5, DeleteServes
<1>6. CASE ListSecrets(r)
  <2>1. req[r] \in Calls /\ req[r].op = "list"
    BY <1>0, <1>6 DEF ListSecrets, Stage, Ops
  <2>2. /\ pc[r] = "list" /\ UNCHANGED <<secrets, req>>
        /\ found'[r] = RowsAt(ListedPaths(req[r])) /\ pc'[r] = "done"
    BY <1>0, <1>6 DEF ListSecrets
  <2>3. QED  BY <2>1, <2>2, ReadOperation, ServesRead
<1>7. CASE ListValues(r)
  <2>1. req[r] \in Calls /\ req[r].op = "values"
    BY <1>0, <1>7 DEF ListValues, Stage, Ops
  <2>2. /\ pc[r] = "values" /\ UNCHANGED <<secrets, req>>
        /\ found'[r] = RowsAt(ListedPaths(req[r])) /\ pc'[r] \in {"audit", "done"}
    BY <1>0, <1>7 DEF ListValues
  <2>3. QED  BY <2>1, <2>2, ReadOperation, ServesRead
<1>8. CASE Audit(r)
  <2>1. /\ pc[r] = "audit" /\ found[r] # NULL /\ pc'[r] = "done" /\ reply'[r] = 200
        /\ UNCHANGED <<secrets, req, found>>
    BY <1>0, <1>8 DEF Audit, Stage
  <2>2. PhaseOf(r) = "acted" /\ PhaseOf(r)' = "answered"
    BY <2>1 DEF PhaseOf, Ops
  <2>3. QED  BY <1>0, <2>1, <2>2, PlainSame, RequestSame, MapAnswer
<1>9. CASE StatementFails(r)
  <2>1. /\ pc'[r] = "done" /\ pc[r] # "idle" /\ UNCHANGED <<secrets, req, found>>
        /\ reply'[r] = IF pc[r] = "auth" THEN 401 ELSE IF pc[r] = "get" THEN 404 ELSE 500
    BY <1>0, <1>9 DEF StatementFails, InFlight
  <2>2. CASE pc[r] = "get"
    BY <1>9, <2>1, <2>2, GetMisreads
  <2>3. CASE pc[r] # "get"
    BY <2>1, <2>3, EndsFailed
  <2>4. QED  BY <2>2, <2>3
<1>10. CASE Abandon(r)
  <2>1. pc'[r] = "gone" /\ pc[r] # "idle" /\ UNCHANGED <<secrets, req, found>>
    BY <1>0, <1>10 DEF Abandon, InFlight
  <2>2. QED  BY <2>1, EndsFailed
<1>11. QED  BY <1>1, <1>2, <1>3, <1>4, <1>5, <1>6, <1>7, <1>8, <1>9, <1>10 DEF Step

(***************************************************************************)
(* The store of create_or_update, get, delete and the listings, with its   *)
(* encryption, audit rows, failing statements and dropped requests, is a   *)
(* linearizable map: every request takes effect at one instant between its *)
(* arrival and its answer, or fails, and each answer and each listing is   *)
(* what the map held at that instant, but for the 404 of a failed SELECT.  *)
(***************************************************************************)
THEOREM StoreIsAMap == Spec => StoreImplementsMap
<1>1. StoreInv /\ [Next]_vars => [Map!Next]_(Map!map)
  <2> SUFFICES ASSUME StoreInv, [Next]_vars PROVE [Map!Next]_(Map!map)
    OBVIOUS
  <2>1. ASSUME NEW r \in Requests, Step(r)
        PROVE  [Map!Next]_(Map!map)
    BY <2>1, MapStep
  <2>2. CASE UNCHANGED vars
    <3>1. \A r \in Requests :
            PhaseOf(r)' = PhaseOf(r) /\ OpOf(r)' = OpOf(r) /\ OutcomeOf(r)' = OutcomeOf(r)
      BY <2>2 DEF vars, PhaseOf, OpOf, OutcomeOf
    <3>2. Plaintext(secrets)' = Plaintext(secrets)
      BY <2>2 DEF vars
    <3>3. QED  BY <3>1, <3>2 DEF Map!map
  <2>3. QED  BY <2>1, <2>2 DEF Next, Finished
<1>2. QED  BY StoreInvariant, MapInit, <1>1, PTL DEF Spec, StoreImplementsMap, Map!Spec

-----------------------------------------------------------------------------
(* What Boot takes the requests to do to the table while a server listens. *)

\* Boot where it serves with this key. Only its steps while serving and what it
\* says of the table are used, which depend on none of the other values.
Life == INSTANCE Boot WITH
  Phrases <- {}, Salts <- {}, NewSalt <- NULL, InitDatabases <- {}, MaxCrashes <- 0,
  schema <- 0, meta <- NULL, enrolled <- TRUE, phrase <- NULL,
  key <- MasterKey, todo <- Empty, pc <- "serving", printed <- TRUE, crashes <- 0

\* A put seals as Boot says.
LEMMA PutIsBound ==
  ASSUME NEW call
  PROVE  PutRow(call) = Life!Bound(MasterKey, call.path, TypeOf(call), call.value)
BY DEF PutRow, Seal, Life!Bound

(***************************************************************************)
(* Whatever requests overlap, each step of theirs leaves the table alone   *)
(* or is one of the two steps that Boot has while the server listens; and  *)
(* the table is always one that Boot says is served. So Boot may stand for *)
(* the requests with two actions, and the table a start leaves behind is   *)
(* one that SecretStore may find.                                          *)
(***************************************************************************)
THEOREM ServesAsBootSays ==
  Spec => []Life!ServedRowsOpen /\ [][Life!Serving]_secrets
<1>1. StoreInv => Life!ServedRowsOpen
  BY DEF StoreInv, RowsOpen, Opens, Life!ServedRowsOpen, Life!Opens, Life!Aad
<1>2. StoreInv /\ [Next]_vars => [Life!Serving]_secrets
  <2> SUFFICES ASSUME StoreInv, [Next]_vars, secrets' # secrets
               PROVE  Life!Serving
    OBVIOUS
  <2>1. PICK r \in Requests : PutSecret(r) \/ DeleteSecret(r)
    BY DEF Next, Step, Finished, Receive, Authenticate, GetSecret, ListSecrets,
           ListValues, Audit, StatementFails, Abandon, vars
  <2>2. Stage(pc[r], req[r], caller[r], found[r], reply[r])
    BY DEF StoreInv, Stages
  <2>3. CASE PutSecret(r)
    <3>1. /\ pc[r] = "put"
          /\ secrets' = [secrets EXCEPT ![req[r].path] = PutRow(req[r])]
      BY <2>3 DEF PutSecret, PutRow
    <3>2. /\ req[r] \in Calls /\ req[r].op = "put"
          /\ TypeOf(req[r]) \in Type /\ req[r].value \in Values
      BY <2>2, <3>1 DEF Stage, Ops
    <3>3. req[r].path \in Paths
      BY <3>2, CallParts
    <3>4. Life!PutSecret(req[r].path, TypeOf(req[r]), req[r].value)
      BY <3>1, PutIsBound DEF Life!PutSecret, Life!memory
    <3> QED BY <3>2, <3>3, <3>4 DEF Life!Serving, Life!Type, Type
  <2>4. CASE DeleteSecret(r)
    <3>1. /\ pc[r] = "delete"
          /\ secrets' = [secrets EXCEPT ![req[r].path] = NULL]
      BY <2>4 DEF DeleteSecret
    <3>2. req[r] \in Calls /\ req[r].op = "delete"
      BY <2>2, <3>1 DEF Stage, Ops
    <3>3. req[r].path \in Paths
      BY <3>2, CallParts
    <3>4. Life!DeleteSecret(req[r].path)
      BY <3>1 DEF Life!DeleteSecret, Life!memory
    <3> QED BY <3>3, <3>4 DEF Life!Serving
  <2> QED BY <2>1, <2>3, <2>4
<1> QED BY <1>1, <1>2, StoreInvariant, PTL DEF Spec

-----------------------------------------------------------------------------
(* What listings show.                                                     *)

\* The paths a listing may show, by LIKE and by the filter.
MayShow(call, path) ==
  /\ Lower[path[1]] = Lower[call.ws] /\ Lower[path[2]] = Lower[call.proj]
  /\ call.op = "values" \/ call.env # NULL => path[1] = call.ws /\ path[2] = call.proj

\* What a listing has found it may show.
ListInv ==
  \A r \in Requests : found[r] # NULL /\ req[r].op \in {"list", "values"} =>
    \A path \in Occupied(found[r]) : MayShow(req[r], path)

\* SELECT and filter keep to it.
LEMMA ListedMayShow ==
  ASSUME NEW call \in Calls, call.op \in {"list", "values"},
         NEW path \in ListedPaths(call)
  PROVE  MayShow(call, path)
<1>1. /\ path \in Paths /\ path \in Path
      /\ ScopeOf(call).ws = call.ws /\ ScopeOf(call).proj = call.proj
      /\ ScopeOf(call).env = call.env /\ ScopeOf(call) \in Scope
  BY CallParts, StoreConstantsOK DEF ListedPaths, ScopeOf
<1>2. CASE call.op = "list" /\ call.env = NULL
  <2>1. Like(path, <<call.ws, call.proj>>)
    BY <1>1, <1>2 DEF ListedPaths, InProjectList
  <2>2. \A i \in 1..2 : Lower[path[i]] = Lower[<<call.ws, call.proj>>[i]]
    BY <2>1 DEF Like
  <2>3. Lower[path[1]] = Lower[call.ws] /\ Lower[path[2]] = Lower[call.proj]
    BY <2>2
  <2> QED BY <1>2, <2>3 DEF MayShow
<1>3. CASE ~(call.op = "list" /\ call.env = NULL)
  <2>1. PathInScope(path, ScopeOf(call))
    BY <1>3 DEF ListedPaths, InList
  <2> QED BY <1>1, <2>1 DEF PathInScope, MayShow
<1> QED BY <1>2, <1>3

\* A step gives its request nothing that it may not show.
LEMMA OwnListing ==
  ASSUME StoreInv, ListInv, NEW r \in Requests, Step(r),
         found'[r] # NULL, req'[r].op \in {"list", "values"},
         NEW path \in Occupied(found'[r])
  PROVE  MayShow(req'[r], path)
<1> USE DEF Find
<1>0. /\ Stage(pc[r], req[r], caller[r], found[r], reply[r])
      /\ DOMAIN found = Requests /\ DOMAIN req = Requests
  BY DEF StoreInv, Stages, TypeOK
<1>1. CASE Receive(r)
  BY <1>0, <1>1 DEF Receive, Stage
<1>2. CASE Authenticate(r) \/ Audit(r) \/ StatementFails(r) \/ Abandon(r)
  <2>1. UNCHANGED <<req, found>>
    BY <1>2 DEF Authenticate, Audit, StatementFails, Abandon
  <2> QED BY <2>1 DEF ListInv
<1>3. CASE PutSecret(r) \/ GetSecret(r) \/ DeleteSecret(r)
  <2>1. pc[r] \in {"put", "get", "delete"} /\ req' = req
    BY <1>3 DEF PutSecret, GetSecret, DeleteSecret
  <2> QED BY <1>0, <2>1 DEF Stage, Ops
<1>4. CASE ListSecrets(r) \/ ListValues(r)
  <2>1. /\ pc[r] \in {"list", "values"} /\ req' = req
        /\ found'[r] = RowsAt(ListedPaths(req[r]))
    BY <1>0, <1>4 DEF ListSecrets, ListValues
  <2>2. req[r] \in Calls /\ req[r].op \in {"list", "values"}
    BY <1>0, <2>1 DEF Stage, Ops
  <2>3. path \in ListedPaths(req[r])
    BY <2>1 DEF Occupied, RowsAt
  <2> QED BY <2>1, <2>2, <2>3, ListedMayShow
<1> QED BY <1>1, <1>2, <1>3, <1>4 DEF Step

\* With the stages, it is inductive.
LEMMA ListStep == StoreInv /\ ListInv /\ [Next]_vars => ListInv'
<1> SUFFICES ASSUME StoreInv, ListInv, [Next]_vars PROVE ListInv'
  OBVIOUS
<1>1. ASSUME NEW r \in Requests, Step(r)
      PROVE  ListInv'
  <2>1. \A q \in Requests : q # r => req'[q] = req[q] /\ found'[q] = found[q]
    BY <1>1, StepIsLocal DEF StoreInv, Local
  <2> QED BY <1>1, <2>1, OwnListing DEF ListInv, Occupied, MayShow
<1>2. CASE UNCHANGED vars
  BY <1>2 DEF vars, ListInv, Occupied, MayShow
<1> QED BY <1>1, <1>2 DEF Next, Finished

LEMMA ListInvariant == Spec => []ListInv
<1>1. Init => ListInv
  BY DEF Init, ListInv
<1> QED BY <1>1, ListStep, StoreInvariant, PTL DEF Spec

(***************************************************************************)
(* Every listing keeps to its project up to the case of the letters, and   *)
(* to the letter if it is filtered, for any case folding at all.           *)
(***************************************************************************)
THEOREM ListingsKeepToTheLetters == Spec => []ListingsKeepUpToCase
<1>1. ListInv /\ StoreInv => ListingsKeepUpToCase
  <2> SUFFICES ASSUME ListInv, StoreInv, NEW r \in Requests, NEW path \in Listing(r)
               PROVE  MayShow(req[r], path)
    BY DEF ListingsKeepUpToCase, MayShow
  <2>1. /\ reply[r] = 200 /\ req[r].op \in {"list", "values"}
        /\ path \in Occupied(found[r])
    BY DEF Listing
  <2>2. found[r] # NULL
    BY <2>1 DEF StoreInv, Stages, Stage
  <2> QED BY <2>1, <2>2 DEF ListInv
<1> QED BY <1>1, ListInvariant, StoreInvariant, PTL

\* No two segments in use differ in case only.
OneCase == \A s, t \in Segments : Lower[s] = Lower[t] => s = t

(***************************************************************************)
(* Case is all that can take a listing out of its project: where no two    *)
(* names differ in case only, the documented statement holds, however many *)
(* writes and listings overlap.                                            *)
(***************************************************************************)
THEOREM ListingsKeepWithOneCase == OneCase => (Spec => []ListingsKeepToTheirProject)
<1> SUFFICES ASSUME OneCase PROVE Spec => []ListingsKeepToTheirProject
  OBVIOUS
<1>1. StoreInv /\ ListingsKeepUpToCase => ListingsKeepToTheirProject
  <2> SUFFICES ASSUME StoreInv, ListingsKeepUpToCase, NEW r \in Requests, NEW path \in Listing(r)
               PROVE  path[1] = req[r].ws /\ path[2] = req[r].proj
    BY DEF ListingsKeepToTheirProject
  <2>1. Lower[path[1]] = Lower[req[r].ws] /\ Lower[path[2]] = Lower[req[r].proj]
    BY DEF ListingsKeepUpToCase
  <2>2. reply[r] = 200 /\ path \in Paths
    BY DEF Listing, Occupied
  <2>3. path[1] \in Segments /\ path[2] \in Segments
    BY <2>2, StoreConstantsOK DEF Path
  <2>4. req[r] \in Calls
    BY <2>2, StoreConstantsOK DEF StoreInv, Stages, Stage
  <2>5. req[r].ws \in Segments /\ req[r].proj \in Segments
    BY <2>4, CallParts DEF Call
  <2> QED BY <2>1, <2>3, <2>5 DEF OneCase
<1> QED BY <1>1, ListingsKeepToTheLetters, StoreInvariant, PTL
=============================================================================
