-------------------------- MODULE PrincipalsTypes ---------------------------
(***************************************************************************)
(* Principals is type correct, for any number of requests, any calls, any  *)
(* table found at start and any clock; and what each write does to the     *)
(* table, row by row. PrincipalsProofs builds on both.                     *)
(***************************************************************************)
EXTENDS Principals, SequenceTheorems, TLAPS

-----------------------------------------------------------------------------
(* The inductive invariant.                                                *)

UpsertStages == {"upsert_find", "count_admins", "check_rename", "update", "create"}

\* What has been established about request r by the time it awaits pc[r].
StageOK(r) ==
  /\ pc[r] \in Stages => req[r] \in Request
  /\ pc[r] \in Stages \union {"idle"} => reply[r] = NULL
  /\ pc[r] \in {"idle", "auth"} => caller[r] = NULL
  /\ pc[r] = "idle" => ~spent[r]
  /\ pc[r] \in Stages \ {"auth"} => caller[r] \in Principal
  /\ pc[r] \in UpsertStages => req[r].call.op = "upsert" /\ req[r].call.name # NULL
  /\ pc[r] \in {"rotate_find", "rotate"} => req[r].call.op = "rotate"
  /\ pc[r] \in {"revoke", "audit"} => req[r].call.op = "revoke"
  /\ pc[r] \in {"count_admins", "check_rename", "update", "rotate"} =>
       current[r] \in Principal /\ current[r].id \in DOMAIN principals
  /\ pc[r] = "audit" =>
       /\ req[r].call.id \in DOMAIN principals
       /\ principals[req[r].call.id].revoked

StagesOK == \A r \in Requests : StageOK(r)

TypeInv == TypeOK /\ StagesOK

-----------------------------------------------------------------------------
(* What a write does to the table.                                         *)

\* An UPDATE of one row keeps the table's shape and every other row.
LEMMA RowWritten ==
  ASSUME NEW table \in Seq(Row), NEW i \in DOMAIN table, NEW row \in Row,
         NEW written, written = [table EXCEPT ![i] = row]
  PROVE  /\ written \in Seq(Row)
         /\ DOMAIN written = DOMAIN table
         /\ Len(written) = Len(table)
         /\ written[i] = row
         /\ \A j \in DOMAIN table : j # i => written[j] = table[j]
  BY ExceptSeq, LenProperties

\* An INSERT appends a row and keeps the others.
LEMMA RowAppended ==
  ASSUME NEW table \in Seq(Row), NEW row \in Row
  PROVE  LET longer == Append(table, row)
         IN  /\ longer \in Seq(Row)
             /\ Len(longer) = Len(table) + 1
             /\ DOMAIN longer = DOMAIN table \union {Len(table) + 1}
             /\ Len(table) + 1 \notin DOMAIN table
             /\ longer[Len(table) + 1] = row
             /\ \A j \in DOMAIN table : longer[j] = table[j]
  BY AppendProperties, LenProperties

\* A row of the table is a Row, and its Principal a Principal.
LEMMA RowTyped ==
  ASSUME principals \in Seq(Row), NEW i \in DOMAIN principals
  PROVE  /\ i \in Nat
         /\ principals[i] \in Row
         /\ PrincipalOf(i) \in Principal
         /\ PrincipalOf(i).id = i
<1>1. i \in 1..Len(principals) /\ Len(principals) \in Nat
  BY LenProperties
<1>2. principals[i] \in Row
  BY <1>1, ElementOfSeq
<1> QED
  BY <1>1, <1>2 DEF PrincipalOf, Principal, Row

-----------------------------------------------------------------------------
(* Type correctness, one lemma per action.                                 *)

\* The initial states have the types and stages claimed.
LEMMA TypeInit == Init => TypeInv
BY ConstantsOK, InitTablesOK
   DEF Init, TypeInv, TypeOK, StagesOK, StageOK, Stages, AdminStages, KeepExpiry,
       Expiry, UpsertStages

\* One lemma per action: arrival keeps types and stages.
LEMMA TypeReceive ==
  ASSUME TypeInv, NEW r \in Requests, Receive(r)
  PROVE  TypeInv'
<1>1. PICK key \in 0..lastKey, call \in Calls :
        req' = [req EXCEPT ![r] = [key |-> key, at |-> now, call |-> call]]
  BY DEF Receive
<1>2. req'[r] \in Request
  BY <1>1, ConstantsOK DEF TypeInv, TypeOK, Request
<1>3. TypeOK'
  BY <1>1, <1>2 DEF Receive, Goto, TypeInv, TypeOK, Database, Snapshots, Stages
<1>4. StagesOK'
  BY <1>1, <1>2 DEF Receive, Goto, TypeInv, TypeOK, Database, Snapshots, Stages,
     AdminStages, UpsertStages, StagesOK, StageOK
<1> QED BY <1>3, <1>4 DEF TypeInv

\* Authentication and admission.
LEMMA TypeAuthenticate ==
  ASSUME TypeInv, NEW r \in Requests, Authenticate(r)
  PROVE  TypeInv'
<1> DEFINE call == req[r].call
<1>1. CASE Answer(r, 401) /\ UNCHANGED caller
  BY <1>1 DEF Authenticate, Answer, TypeInv, TypeOK, Database, Stages,
     AdminStages, UpsertStages, StagesOK, StageOK
<1>2. ASSUME NEW i \in DOMAIN principals,
             caller' = [caller EXCEPT ![r] = PrincipalOf(i)],
             NEW status \in {200, 400, 403}, Answer(r, status)
      PROVE  TypeInv'
  BY <1>2, RowTyped DEF Authenticate, Answer, TypeInv, TypeOK, Database, Stages,
     AdminStages, UpsertStages, StagesOK, StageOK
<1>3. ASSUME NEW i \in DOMAIN principals,
             caller' = [caller EXCEPT ![r] = PrincipalOf(i)],
             Admission(call, PrincipalOf(i)) = 200, call.op # "me",
             Goto(r, FirstStage(call.op))
      PROVE  TypeInv'
  <2>1. req[r] \in Request /\ call \in Call
    BY DEF Authenticate, TypeInv, StagesOK, StageOK, Stages, Request
  <2>2. /\ call.op = "rotate" => FirstStage(call.op) = "rotate_find"
        /\ call.op = "revoke" => FirstStage(call.op) = "revoke"
        /\ call.op = "upsert" => FirstStage(call.op) = "upsert_find"
        /\ call.op = "upsert" => call.name # NULL
        /\ call.op \in {"rotate", "revoke", "upsert"}
    BY <1>3, <2>1 DEF FirstStage, Call, Ops, Admission, BadBody
  <2> QED
    BY <1>3, <2>1, <2>2, RowTyped DEF Authenticate, Goto, TypeInv, TypeOK, Database,
       Stages, AdminStages, UpsertStages, StagesOK, StageOK
<1>4. \A p : Admission(call, p) \in {200, 400, 403}
  BY DEF Admission
<1> QED BY <1>1, <1>2, <1>3, <1>4 DEF Authenticate

\* The upsert handler's synchronous stretch before the UPDATE.
LEMMA TypeEnterUpdate ==
  ASSUME TypeInv, NEW r \in Requests, pc[r] \in UpsertStages,
         NEW p \in Principal, EnterUpdate(r, p),
         UNCHANGED <<now, Database, req, caller, minted, spent>>,
         current' = [current EXCEPT ![r] = p], p.id \in DOMAIN principals
  PROVE  TypeInv'
<1> DEFINE call == req[r].call
<1> DEFINE expires == IF call.clear_ttl THEN [set |-> TRUE, at |-> NULL]
                      ELSE IF call.ttl # NULL THEN [set |-> TRUE, at |-> now + call.ttl]
                      ELSE KeepExpiry
<1>1. call \in Call
  BY DEF TypeInv, StagesOK, StageOK, Stages, AdminStages, UpsertStages, Request
<1>2. expires \in Expiry
  BY <1>1 DEF Call, Expiry, KeepExpiry, TypeInv, TypeOK
<1>3. CASE Answer(r, 400) /\ UNCHANGED newExpires
  BY <1>3 DEF Answer, TypeInv, TypeOK, Database, Stages,
     AdminStages, UpsertStages, StagesOK, StageOK
<1>4. CASE Answer(r, 200) /\ newExpires' = [newExpires EXCEPT ![r] = expires]
  <2> HIDE DEF expires
  <2> QED
    BY <1>4, <1>2 DEF Answer, TypeInv, TypeOK, Database, Stages,
       AdminStages, UpsertStages, StagesOK, StageOK
<1>5. CASE Goto(r, "update") /\ newExpires' = [newExpires EXCEPT ![r] = expires]
  <2> HIDE DEF expires
  <2> QED
    BY <1>5, <1>2 DEF Goto, TypeInv, TypeOK, Database, Stages,
       AdminStages, UpsertStages, StagesOK, StageOK
<1> QED BY <1>3, <1>4, <1>5 DEF EnterUpdate

\* The way from the lookup into the rename check or the update.
LEMMA TypeEnterRename ==
  ASSUME TypeInv, NEW r \in Requests, pc[r] \in UpsertStages,
         NEW p \in Principal, EnterRename(r, p),
         UNCHANGED <<now, Database, req, caller, minted, spent>>,
         current' = [current EXCEPT ![r] = p], p.id \in DOMAIN principals
  PROVE  TypeInv'
<1>1. CASE Goto(r, "check_rename") /\ UNCHANGED newExpires
  BY <1>1 DEF Goto, TypeInv, TypeOK, Database, Stages,
     AdminStages, UpsertStages, StagesOK, StageOK
<1>2. CASE EnterUpdate(r, p)
  BY <1>2, TypeEnterUpdate
<1> QED BY <1>1, <1>2 DEF EnterRename

\* The lookup of an upsert.
LEMMA TypeFindForUpsert ==
  ASSUME TypeInv, NEW r \in Requests, FindForUpsert(r)
  PROVE  TypeInv'
<1>1. CASE UNCHANGED <<current, newExpires>> /\ Answer(r, 404)
  BY <1>1 DEF FindForUpsert, Answer, TypeInv, TypeOK, Database, Stages,
     AdminStages, UpsertStages, StagesOK, StageOK
<1>2. CASE UNCHANGED <<current, newExpires>> /\ Goto(r, "create")
  BY <1>2 DEF FindForUpsert, Goto, TypeInv, TypeOK, Database, Stages,
     AdminStages, UpsertStages, StagesOK, StageOK
<1>3. ASSUME NEW i \in DOMAIN principals,
             current' = [current EXCEPT ![r] = PrincipalOf(i)]
      PROVE  /\ PrincipalOf(i) \in Principal
             /\ PrincipalOf(i).id \in DOMAIN principals
  BY RowTyped DEF TypeInv, TypeOK
<1>4. ASSUME NEW i \in DOMAIN principals,
             current' = [current EXCEPT ![r] = PrincipalOf(i)],
             Goto(r, "count_admins"), UNCHANGED newExpires
      PROVE  TypeInv'
  <2>1. /\ pc[r] = "upsert_find"
        /\ UNCHANGED <<now, Database, req, caller, minted, spent>>
    BY DEF FindForUpsert
  <2>2. PICK p \in Principal : /\ p.id \in DOMAIN principals
                               /\ current' = [current EXCEPT ![r] = p]
    BY <1>3, <1>4
  <2>3. TypeOK'
    BY <1>4, <2>1, <2>2 DEF Goto, TypeInv, TypeOK, Database, Stages, AdminStages
  <2>4. StagesOK'
    BY <1>4, <2>1, <2>2 DEF Goto, TypeInv, TypeOK, Database, Stages,
       AdminStages, UpsertStages, StagesOK, StageOK
  <2> QED BY <2>3, <2>4 DEF TypeInv
<1>5. ASSUME NEW i \in DOMAIN principals,
             current' = [current EXCEPT ![r] = PrincipalOf(i)],
             EnterRename(r, PrincipalOf(i))
      PROVE  TypeInv'
  BY <1>3, <1>5, TypeEnterRename DEF FindForUpsert, UpsertStages
<1> QED BY <1>1, <1>2, <1>4, <1>5 DEF FindForUpsert, FindActive

\* A request past its lookup, whatever it does next, keeps what it found.
LEMMA CurrentKept ==
  ASSUME TypeInv, NEW r \in Requests,
         pc[r] \in {"count_admins", "check_rename", "update", "rotate"},
         UNCHANGED current
  PROVE  /\ current' = [current EXCEPT ![r] = current[r]]
         /\ current[r] \in Principal
         /\ current[r].id \in DOMAIN principals
BY DEF TypeInv, TypeOK, StagesOK, StageOK

\* The count of the other admins.
LEMMA TypeCountAdmins ==
  ASSUME TypeInv, NEW r \in Requests, CountAdmins(r)
  PROVE  TypeInv'
<1>1. CASE Answer(r, 403) /\ UNCHANGED newExpires
  BY <1>1 DEF CountAdmins, Answer, TypeInv, TypeOK, Database, Stages,
     AdminStages, UpsertStages, StagesOK, StageOK
<1>2. CASE EnterRename(r, current[r])
  BY <1>2, CurrentKept, TypeEnterRename DEF CountAdmins, UpsertStages
<1> QED BY <1>1, <1>2 DEF CountAdmins

\* The check of the new name.
LEMMA TypeCheckRename ==
  ASSUME TypeInv, NEW r \in Requests, CheckRename(r)
  PROVE  TypeInv'
<1>1. CASE Answer(r, 400) /\ UNCHANGED newExpires
  BY <1>1 DEF CheckRename, Answer, TypeInv, TypeOK, Database, Stages,
     AdminStages, UpsertStages, StagesOK, StageOK
<1>2. CASE EnterUpdate(r, current[r])
  BY <1>2, CurrentKept, TypeEnterUpdate DEF CheckRename, UpsertStages
<1> QED BY <1>1, <1>2 DEF CheckRename

\* A write keeps what every request has found and every audit entry says, if
\* it keeps the rows' number and never clears revoked.
TableKept ==
  /\ principals' \in Seq(Row)
  /\ DOMAIN principals \subseteq DOMAIN principals'
  /\ \A i \in DOMAIN principals : principals[i].revoked => principals'[i].revoked

\* An updated row is a row.
LEMMA UpdatedTyped ==
  ASSUME TypeInv, NEW r \in Requests, pc[r] = "update", NEW row \in Row
  PROVE  /\ Updated(r, row) \in Row
         /\ Updated(r, row).key_hash = row.key_hash
         /\ Updated(r, row).revoked = row.revoked
         /\ Updated(r, row).name = IF req[r].call.rename = NULL THEN row.name
                                   ELSE req[r].call.rename
<1>1. /\ req[r] \in Request /\ current[r] \in Principal
      /\ newExpires[r] \in Expiry
  BY DEF TypeInv, TypeOK, StagesOK, StageOK, Stages, AdminStages
<1>2. /\ req[r].call.rename \in Names \union {NULL}
      /\ TargetRole(r, current[r]) \in Role
      /\ newExpires[r].at \in Nat \union {NULL}
  BY <1>1 DEF Request, Call, Principal, TargetRole, Expiry
<1> QED
  BY <1>2 DEF Updated, Row

\* What UpdatePrincipal's UPDATE does, when the index does not refuse it.
LEMMA UpdateWrites ==
  ASSUME TypeInv, NEW r \in Requests, pc[r] = "update",
         principals' = [principals EXCEPT ![current[r].id] = Updated(r, @)]
  PROVE  /\ TableKept
         /\ DOMAIN principals' = DOMAIN principals
         /\ Len(principals') = Len(principals)
         /\ current[r].id \in DOMAIN principals
         /\ \A j \in DOMAIN principals :
              principals'[j] = IF j = current[r].id THEN Updated(r, principals[j])
                               ELSE principals[j]
<1>1. PICK i \in DOMAIN principals : i = current[r].id
  BY DEF TypeInv, StagesOK, StageOK
<1>2. principals \in Seq(Row) /\ principals[i] \in Row
  BY RowTyped DEF TypeInv, TypeOK
<1>3. PICK row \in Row : row = Updated(r, principals[i])
  BY <1>2, UpdatedTyped
<1>4. row.revoked = principals[i].revoked
  BY <1>2, <1>3, UpdatedTyped
<1>5. principals' = [principals EXCEPT ![i] = row]
  BY <1>1, <1>3
<1>6. /\ principals' \in Seq(Row) /\ DOMAIN principals' = DOMAIN principals
      /\ Len(principals') = Len(principals)
      /\ principals'[i] = row
      /\ \A j \in DOMAIN principals : j # i => principals'[j] = principals[j]
  BY ONLY <1>2, <1>5, RowWritten, i \in DOMAIN principals, row \in Row
<1>7. TableKept
  BY <1>4, <1>6 DEF TableKept
<1> QED
  BY <1>1, <1>3, <1>6, <1>7

\* The expiry of a new principal is a time, or none.
LEMMA ExpiryOfNewTyped ==
  ASSUME TypeInv, NEW r \in Requests, pc[r] = "create"
  PROVE  ExpiryOfNew(req[r].call.ttl) \in Nat \union {NULL}
<1>1. req[r].call.ttl \in Nat \union {NULL} /\ now \in Nat
  BY DEF TypeInv, TypeOK, StagesOK, StageOK, Stages, AdminStages, Request, Call
<1> QED BY <1>1 DEF ExpiryOfNew

\* A created row is a row.
LEMMA NewRowTyped ==
  ASSUME TypeInv, NEW r \in Requests, pc[r] = "create"
  PROVE  [name |-> req[r].call.name, key_hash |-> HashKey(lastKey + 1),
          role |-> IF req[r].call.role = NULL THEN "reader" ELSE req[r].call.role,
          revoked |-> FALSE, expires_at |-> ExpiryOfNew(req[r].call.ttl)] \in Row
<1>1. /\ req[r] \in Request /\ req[r].call.name # NULL
      /\ lastKey \in Nat /\ now \in Nat
  BY DEF TypeInv, TypeOK, StagesOK, StageOK, Stages, AdminStages, UpsertStages
<1>2. /\ req[r].call.name \in Names
      /\ req[r].call.role \in Role \union {NULL}
      /\ req[r].call.ttl \in Nat \union {NULL}
  BY <1>1 DEF Request, Call
<1> QED
  BY <1>1, <1>2 DEF Row, HashKey, ExpiryOfNew, Role

\* What a creation writes to the table.
LEMMA CreateWrites ==
  ASSUME TypeInv, NEW r \in Requests, CreatePrincipal(r), lastKey' # lastKey
  PROVE  /\ TableKept
         /\ Len(principals') = Len(principals) + 1
         /\ DOMAIN principals' = DOMAIN principals \union {Len(principals) + 1}
         /\ Len(principals) + 1 \notin DOMAIN principals
         /\ principals'[Len(principals) + 1].key_hash = HashKey(lastKey + 1)
         /\ principals'[Len(principals) + 1].name = req[r].call.name
         /\ ~principals'[Len(principals) + 1].revoked
         /\ FindActive(req[r].call.name) = {}
         /\ \A j \in DOMAIN principals : principals'[j] = principals[j]
         /\ AnswerWithKey(r, Len(principals) + 1, ExpiryOfNew(req[r].call.ttl))
<1> DEFINE row == [name |-> req[r].call.name, key_hash |-> HashKey(lastKey + 1),
          role |-> IF req[r].call.role = NULL THEN "reader" ELSE req[r].call.role,
          revoked |-> FALSE, expires_at |-> ExpiryOfNew(req[r].call.ttl)]
<1>1. pc[r] = "create" /\ principals' = Append(principals, row)
      /\ FindActive(req[r].call.name) = {}
      /\ AnswerWithKey(r, Len(principals) + 1, ExpiryOfNew(req[r].call.ttl))
  BY DEF CreatePrincipal
<1>2. row \in Row /\ principals \in Seq(Row)
  BY <1>1, NewRowTyped DEF TypeInv, TypeOK
<1>3. /\ row.key_hash = HashKey(lastKey + 1) /\ row.name = req[r].call.name
      /\ row.revoked = FALSE
  OBVIOUS
<1> HIDE DEF row
<1>4. /\ principals' \in Seq(Row) /\ Len(principals') = Len(principals) + 1
      /\ DOMAIN principals' = DOMAIN principals \union {Len(principals) + 1}
      /\ Len(principals) + 1 \notin DOMAIN principals
      /\ principals'[Len(principals) + 1] = row
      /\ \A j \in DOMAIN principals : principals'[j] = principals[j]
  BY <1>1, <1>2, RowAppended
<1> QED BY <1>1, <1>3, <1>4 DEF TableKept

\* What a rotation writes to the table.
LEMMA RotateWrites ==
  ASSUME TypeInv, NEW r \in Requests, RotateKey(r), ~principals[current[r].id].revoked
  PROVE  /\ TableKept
         /\ DOMAIN principals' = DOMAIN principals
         /\ Len(principals') = Len(principals)
         /\ current[r].id \in DOMAIN principals
         /\ \A j \in DOMAIN principals :
              IF j = current[r].id
              THEN /\ principals'[j].key_hash = HashKey(lastKey + 1)
                   /\ principals'[j].name = principals[j].name
                   /\ principals'[j].revoked = principals[j].revoked
              ELSE principals'[j] = principals[j]
         /\ AnswerWithKey(r, current[r].id, current[r].expires_at)
<1>1. PICK i \in DOMAIN principals : i = current[r].id
  BY DEF RotateKey, TypeInv, StagesOK, StageOK
<1>2. principals \in Seq(Row) /\ principals[i] \in Row /\ lastKey \in Nat
  BY RowTyped DEF TypeInv, TypeOK
<1> DEFINE hash == HashKey(lastKey + 1)
<1>3. PICK row \in Row : row = [principals[i] EXCEPT !.key_hash = HashKey(lastKey + 1)]
  <2>1. hash \in {KeyPepper} \X Nat
    BY <1>2 DEF HashKey
  <2> HIDE DEF hash
  <2>2. [principals[i] EXCEPT !.key_hash = hash] \in Row
    BY <1>2, <2>1 DEF Row
  <2> QED BY <2>2 DEF hash
<1>4. /\ row.key_hash = HashKey(lastKey + 1)
      /\ row.name = principals[i].name /\ row.revoked = principals[i].revoked
  BY <1>2, <1>3 DEF Row
<1>5. /\ principals' = [principals EXCEPT ![i] = row]
      /\ AnswerWithKey(r, current[r].id, current[r].expires_at)
  BY <1>1, <1>3 DEF RotateKey
<1>6. /\ principals' \in Seq(Row) /\ DOMAIN principals' = DOMAIN principals
      /\ Len(principals') = Len(principals)
      /\ principals'[i] = row
      /\ \A j \in DOMAIN principals : j # i => principals'[j] = principals[j]
  BY ONLY <1>2, <1>5, RowWritten, i \in DOMAIN principals, row \in Row
<1>7. TableKept
  BY <1>4, <1>6 DEF TableKept
<1> QED
  BY <1>1, <1>4, <1>5, <1>6, <1>7

\* What a revocation writes to the table.
LEMMA RevokeWrites ==
  ASSUME TypeInv, NEW r \in Requests, RevokeKey(r), pc'[r] = "audit"
  PROVE  /\ TableKept
         /\ DOMAIN principals' = DOMAIN principals
         /\ Len(principals') = Len(principals)
         /\ req[r].call.id \in DOMAIN principals
         /\ ~principals[req[r].call.id].revoked
         /\ ActiveAdminsExcluding(req[r].call.id) # {}
         /\ \A j \in DOMAIN principals :
              IF j = req[r].call.id
              THEN /\ principals'[j].key_hash = principals[j].key_hash
                   /\ principals'[j].name = principals[j].name
                   /\ principals'[j].revoked
              ELSE principals'[j] = principals[j]
<1> DEFINE found == {i \in DOMAIN principals : i = req[r].call.id /\ ~principals[i].revoked}
<1>1. /\ found # {} /\ ActiveAdminsExcluding(req[r].call.id) # {}
      /\ principals' = [principals EXCEPT ![req[r].call.id].revoked = TRUE]
  BY DEF RevokeKey, Answer, TypeInv, TypeOK
<1>2. PICK i \in DOMAIN principals : i = req[r].call.id /\ ~principals[i].revoked
  BY <1>1
<1>3. principals \in Seq(Row) /\ principals[i] \in Row
  BY RowTyped DEF TypeInv, TypeOK
<1>4. PICK row \in Row : row = [principals[i] EXCEPT !.revoked = TRUE]
  BY <1>3 DEF Row
<1>5. /\ row.key_hash = principals[i].key_hash
      /\ row.name = principals[i].name /\ row.revoked
  BY <1>3, <1>4 DEF Row
<1>6. principals' = [principals EXCEPT ![i] = row]
  BY <1>1, <1>2, <1>4
<1>7. /\ principals' \in Seq(Row) /\ DOMAIN principals' = DOMAIN principals
      /\ Len(principals') = Len(principals)
      /\ principals'[i] = row
      /\ \A j \in DOMAIN principals : j # i => principals'[j] = principals[j]
  BY ONLY <1>3, <1>6, RowWritten, i \in DOMAIN principals, row \in Row
<1>8. TableKept
  BY <1>5, <1>7 DEF TableKept
<1> QED
  BY <1>1, <1>2, <1>5, <1>7, <1>8

\* A step that keeps the table's rows keeps the stage of a request it leaves alone.
LEMMA OthersKept ==
  ASSUME StagesOK, TableKept, NEW s \in Requests,
         pc'[s] = pc[s], req'[s] = req[s], caller'[s] = caller[s],
         current'[s] = current[s], reply'[s] = reply[s], spent'[s] = spent[s]
  PROVE  StageOK(s)'
BY DEF StagesOK, StageOK, TableKept

\* A write by r that answers r keeps the typing of all requests.
LEMMA TypeWriteAnswered ==
  ASSUME TypeInv, NEW r \in Requests, pc[r] \in Stages, TableKept,
         NEW status \in {200, 403, 404, 500}, Answer(r, status),
         UNCHANGED <<now, audit_log, req, caller, current, newExpires, spent>>,
         lastKey' \in Nat, minted' \in [Requests -> CreatedKey \union {NULL}]
  PROVE  TypeInv'
<1>1. TypeOK'
  <2>1. /\ pc' \in [Requests -> Stages \union {"idle", "done", "gone"}]
        /\ reply' \in [Requests -> {200, 400, 401, 403, 404, 500, NULL}]
    BY DEF Answer, TypeInv, TypeOK
  <2> QED BY <2>1 DEF TypeInv, TypeOK, TableKept
<1>2. ASSUME NEW s \in Requests, s # r PROVE StageOK(s)'
  BY <1>2, OthersKept DEF Answer, TypeInv, TypeOK
<1>3. StageOK(r)'
  BY DEF Answer, TypeInv, TypeOK, StageOK, Stages, AdminStages, UpsertStages
<1> QED BY <1>1, <1>2, <1>3 DEF TypeInv, StagesOK

\* The UPDATE of an upsert.
LEMMA TypeUpdatePrincipal ==
  ASSUME TypeInv, NEW r \in Requests, UpdatePrincipal(r)
  PROVE  TypeInv'
<1>1. /\ pc[r] = "update" /\ "update" \in Stages
      /\ UNCHANGED <<now, lastKey, audit_log, req, Snapshots, minted, spent>>
  BY DEF UpdatePrincipal, Stages, AdminStages
<1>2. CASE Answer(r, 500) /\ UNCHANGED principals
  <2>1. TableKept
    BY <1>2 DEF TableKept, TypeInv, TypeOK
  <2> QED BY <1>1, <1>2, <2>1, TypeWriteAnswered DEF Snapshots, TypeInv, TypeOK
<1>3. CASE /\ principals' = [principals EXCEPT ![current[r].id] = Updated(r, @)]
           /\ Answer(r, 200)
  <2>1. TableKept
    BY <1>1, <1>3, UpdateWrites
  <2> QED BY <1>1, <1>3, <2>1, TypeWriteAnswered DEF Snapshots, TypeInv, TypeOK
<1> QED BY <1>2, <1>3 DEF UpdatePrincipal

\* The answer that carries a key.
LEMMA MintedTyped ==
  ASSUME TypeInv, NEW r \in Requests, NEW i \in Nat,
         NEW expires \in Nat \union {NULL}, AnswerWithKey(r, i, expires)
  PROVE  /\ Answer(r, 200) /\ lastKey' \in Nat
         /\ minted' \in [Requests -> CreatedKey \union {NULL}]
BY DEF AnswerWithKey, TypeInv, TypeOK, CreatedKey

\* The INSERT of an upsert.
LEMMA TypeCreatePrincipal ==
  ASSUME TypeInv, NEW r \in Requests, CreatePrincipal(r)
  PROVE  TypeInv'
<1>1. /\ pc[r] = "create" /\ "create" \in Stages
      /\ UNCHANGED <<now, audit_log, req, Snapshots, spent>>
  BY DEF CreatePrincipal, Stages, AdminStages
<1>2. CASE Answer(r, 500) /\ UNCHANGED <<principals, lastKey, minted>>
  <2>1. TableKept
    BY <1>2 DEF TableKept, TypeInv, TypeOK
  <2> QED BY <1>1, <1>2, <2>1, TypeWriteAnswered DEF Snapshots, TypeInv, TypeOK
<1>3. CASE lastKey' # lastKey
  <2>1. TableKept /\ AnswerWithKey(r, Len(principals) + 1, ExpiryOfNew(req[r].call.ttl))
    BY <1>3, CreateWrites
  <2>2. Len(principals) + 1 \in Nat
    BY LenProperties DEF TypeInv, TypeOK
  <2>3. ExpiryOfNew(req[r].call.ttl) \in Nat \union {NULL}
    BY <1>1, ExpiryOfNewTyped
  <2> QED BY <1>1, <2>1, <2>2, <2>3, MintedTyped, TypeWriteAnswered DEF Snapshots
<1>4. AnswerWithKey(r, Len(principals) + 1, ExpiryOfNew(req[r].call.ttl)) => lastKey' # lastKey
  BY DEF AnswerWithKey, TypeInv, TypeOK
<1> QED BY <1>2, <1>3, <1>4 DEF CreatePrincipal

\* The UPDATE of a rotation.
LEMMA TypeRotateKey ==
  ASSUME TypeInv, NEW r \in Requests, RotateKey(r)
  PROVE  TypeInv'
<1>1. /\ pc[r] = "rotate" /\ "rotate" \in Stages
      /\ UNCHANGED <<now, audit_log, req, Snapshots, spent>>
  BY DEF RotateKey, Stages, AdminStages
<1>2. CASE Answer(r, 404) /\ UNCHANGED <<principals, lastKey, minted>>
  <2>1. TableKept
    BY <1>2 DEF TableKept, TypeInv, TypeOK
  <2> QED BY <1>1, <1>2, <2>1, TypeWriteAnswered DEF Snapshots, TypeInv, TypeOK
<1>3. CASE ~principals[current[r].id].revoked
  <2>1. /\ TableKept /\ AnswerWithKey(r, current[r].id, current[r].expires_at)
        /\ current[r].id \in DOMAIN principals
    BY <1>3, RotateWrites
  <2>2. current[r].id \in Nat /\ current[r].expires_at \in Nat \union {NULL}
    BY <1>1 DEF TypeInv, StagesOK, StageOK, Principal
  <2> QED BY <1>1, <2>1, <2>2, MintedTyped, TypeWriteAnswered DEF Snapshots
<1> QED BY <1>2, <1>3 DEF RotateKey

\* The UPDATE of a revocation.
LEMMA TypeRevokeKey ==
  ASSUME TypeInv, NEW r \in Requests, RevokeKey(r)
  PROVE  TypeInv'
<1>1. /\ pc[r] = "revoke" /\ "revoke" \in Stages
      /\ UNCHANGED <<now, lastKey, audit_log, req, Snapshots, minted, spent>>
  BY DEF RevokeKey, Stages, AdminStages
<1>2. CASE UNCHANGED principals /\ (Answer(r, 403) \/ Answer(r, 404))
  <2>1. TableKept
    BY <1>2 DEF TableKept, TypeInv, TypeOK
  <2> QED BY <1>1, <1>2, <2>1, TypeWriteAnswered DEF Snapshots, TypeInv, TypeOK
<1>3. CASE Goto(r, "audit")
  <2>1. /\ TableKept /\ DOMAIN principals' = DOMAIN principals
        /\ req[r].call.id \in DOMAIN principals'
        /\ principals'[req[r].call.id].revoked
    BY <1>3, RevokeWrites DEF Goto, TypeInv, TypeOK
  <2>2. TypeOK'
    BY <1>1, <1>3, <2>1 DEF Goto, Snapshots, TypeInv, TypeOK, TableKept, Stages, AdminStages
  <2>3. ASSUME NEW s \in Requests, s # r PROVE StageOK(s)'
    BY <1>1, <1>3, <2>1, <2>3, OthersKept DEF Goto, Snapshots, TypeInv, TypeOK
  <2>4. StageOK(r)'
    BY <1>1, <1>3, <2>1 DEF Goto, Snapshots, TypeInv, TypeOK, StagesOK, StageOK,
       Stages, AdminStages, UpsertStages
  <2> QED BY <2>2, <2>3, <2>4 DEF TypeInv, StagesOK
<1> QED BY <1>2, <1>3 DEF RevokeKey

\* The lookup of a rotation.
LEMMA TypeFindForRotate ==
  ASSUME TypeInv, NEW r \in Requests, FindForRotate(r)
  PROVE  TypeInv'
<1>1. /\ pc[r] = "rotate_find"
      /\ UNCHANGED <<now, Database, req, caller, newExpires, minted, spent>>
  BY DEF FindForRotate
<1>2. CASE Answer(r, 404) /\ UNCHANGED current
  BY <1>1, <1>2 DEF Answer, TypeInv, TypeOK, Database, Stages,
     AdminStages, UpsertStages, StagesOK, StageOK
<1>3. ASSUME NEW i \in DOMAIN principals,
             current' = [current EXCEPT ![r] = PrincipalOf(i)],
             Goto(r, "rotate")
      PROVE  TypeInv'
  <2>0. PrincipalOf(i) \in Principal /\ PrincipalOf(i).id \in DOMAIN principals
    BY RowTyped DEF TypeInv, TypeOK
  <2>1. PICK p \in Principal : /\ p.id \in DOMAIN principals
                               /\ current' = [current EXCEPT ![r] = p]
    BY <1>3, <2>0
  <2>2. TypeOK'
    BY <1>1, <1>3, <2>1 DEF Goto, TypeInv, TypeOK, Database, Stages
  <2>3. StagesOK'
    BY <1>1, <1>3, <2>1 DEF Goto, TypeInv, TypeOK, Database, Stages,
       AdminStages, UpsertStages, StagesOK, StageOK
  <2> QED BY <2>2, <2>3 DEF TypeInv
<1> QED BY <1>2, <1>3 DEF FindForRotate, FindActive

\* The audit row of a revocation.
LEMMA TypeAuditRevoke ==
  ASSUME TypeInv, NEW r \in Requests, AuditRevoke(r)
  PROVE  TypeInv'
<1>1. <<caller[r].id, req[r].call.id>> \in Nat \X Nat
  BY DEF AuditRevoke, TypeInv, StagesOK, StageOK, Stages, AdminStages,
     Principal, Request, Call
<1>2. TypeOK'
  BY <1>1 DEF AuditRevoke, Answer, Snapshots, TypeInv, TypeOK
<1>3. StagesOK'
  BY DEF AuditRevoke, Answer, Snapshots, TypeInv, TypeOK, Stages,
     AdminStages, UpsertStages, StagesOK, StageOK
<1> QED BY <1>2, <1>3 DEF TypeInv

\* The step leaves everything but pc[r] and reply[r] alone and ends request r.
LEMMA TypeEnded ==
  ASSUME TypeInv, NEW r \in Requests,
         UNCHANGED <<now, Database, req, Snapshots, minted, spent>>,
         \/ Goto(r, "gone")
         \/ Answer(r, 401)
         \/ Answer(r, 500)
  PROVE  TypeInv'
<1>1. TypeOK'
  <2>1. /\ pc' \in [Requests -> Stages \union {"idle", "done", "gone"}]
        /\ reply' \in [Requests -> {200, 400, 401, 403, 404, 500, NULL}]
    BY DEF Goto, Answer, TypeInv, TypeOK
  <2> QED BY <2>1 DEF Database, Snapshots, TypeInv, TypeOK
<1>2. StagesOK'
  BY DEF Goto, Answer, Database, Snapshots, TypeInv, TypeOK, Stages,
     AdminStages, UpsertStages, StagesOK, StageOK
<1> QED BY <1>1, <1>2 DEF TypeInv

\* Types and stages are inductive.
LEMMA TypeStep ==
  ASSUME TypeInv, [Next]_vars
  PROVE  TypeInv'
<1>1. ASSUME NEW r \in Requests, StatementFails(r) \/ Abandon(r) PROVE TypeInv'
  BY <1>1, TypeEnded DEF StatementFails, Abandon
<1>2. CASE Tick
  BY <1>2 DEF Tick, Database, Snapshots, TypeInv, TypeOK, StagesOK, StageOK
<1>3. CASE UNCHANGED vars
  BY <1>3 DEF vars, TypeInv, TypeOK, StagesOK, StageOK
<1>4. ASSUME NEW r \in Requests, Step(r) PROVE TypeInv'
  BY <1>1, <1>4, TypeReceive, TypeAuthenticate, TypeFindForUpsert, TypeCountAdmins,
     TypeCheckRename, TypeUpdatePrincipal, TypeCreatePrincipal, TypeFindForRotate,
     TypeRotateKey, TypeRevokeKey, TypeAuditRevoke DEF Step
<1> QED BY <1>2, <1>3, <1>4 DEF Next, Finished

(***************************************************************************)
(* Every state of every behaviour is well typed, and a request that awaits *)
(* a section carries what that section reads: its arguments, the caller,   *)
(* and a principal whose row exists.                                       *)
(***************************************************************************)
THEOREM TypeCorrect == Spec => []TypeOK
<1>1. TypeInv /\ [Next]_vars => TypeInv'
  BY TypeStep
<1>2. TypeInv => TypeOK
  BY DEF TypeInv
<1> QED BY TypeInit, <1>1, <1>2, PTL DEF Spec
=============================================================================
