---------------------------- MODULE SerialProofs ----------------------------
(***************************************************************************)
(* What clients that wait for their answers can rely on: the last active   *)
(* admin stays, a caller that is no admin rotates its own key only, and    *)
(* all calls do what PrincipalApi says. A handler's statements are as      *)
(* separate as ever, and the clock runs on between them; alone, a request  *)
(* finds at its last one what it found at the ones before, but later, and  *)
(* that is the invariant all three proofs use.                             *)
(***************************************************************************)
EXTENDS PrincipalsSerial, PrincipalsProofs

-----------------------------------------------------------------------------
(* The invariant.                                                          *)

\* The call demotes principal p, or gives it another name.
Demoting(call, p) == p.role = "admin" /\ call.role \notin {NULL, "admin"}
Renaming(call, p) == call.rename \notin {NULL, p.name}

\* The expiry that an upsert plans at time t, and whether it can.
Planned(call, t) ==
  IF call.clear_ttl THEN [set |-> TRUE, at |-> NULL]
  ELSE IF call.ttl # NULL THEN [set |-> TRUE, at |-> t + call.ttl]
  ELSE KeepExpiry

Plannable(ttl, t) == ttl = NULL \/ t + ttl <= U64Max

\* c is the principal whose key request q carries, which had not expired when
\* q arrived, and may make the call.
Authorised(q, c) ==
  /\ c.id \in DOMAIN principals /\ c = PrincipalOf(c.id)
  /\ ~principals[c.id].revoked
  /\ principals[c.id].key_hash = HashKey(q.key)
  /\ Unexpired(principals[c.id], q.at)
  /\ Admission(q.call, c) = 200 /\ q.call.op # "me"

FoundByName(call, p) == p.id \in FindActive(call.name) /\ p = PrincipalOf(p.id)

\* Whoever the count saw was active when q arrived, too (and may have expired
\* since).
Counted(q, p) == Demoting(q.call, p) => AdminsAt(q.at) \ {p.id} # {}

\* The expiry was planned while q was under way.
PlannedSince(q, expires) ==
  \E t \in q.at..now : Plannable(q.call.ttl, t) /\ expires = Planned(q.call, t)

NewNameFree(call, p) == Renaming(call, p) => FindActive(call.rename) = {}

\* What is true of the table when request q of caller c awaits a section,
\* having found p by name and planned an expiry.
Knows(stage, q, c, p, expires) ==
  /\ q.at \in Nat /\ q.at <= now /\ q.call \in Calls
  /\ stage \in Stages \ {"auth", "audit"} => Authorised(q, c)
  /\ stage \in {"count_admins", "check_rename", "update", "rotate"} => FoundByName(q.call, p)
  /\ stage = "create" => FindActive(q.call.name) = {} /\ q.call.rename = NULL
  /\ stage = "count_admins" => Demoting(q.call, p)
  /\ stage = "check_rename" => Renaming(q.call, p)
  /\ stage \in {"check_rename", "update"} => Counted(q, p)
  /\ stage = "update" => NewNameFree(q.call, p) /\ PlannedSince(q, expires)

Known(r) ==
  /\ pc[r] = "idle" => req[r] = NULL
  /\ pc[r] \in Stages \union {"idle"} => minted[r] = NULL
  /\ pc[r] \in Stages => Knows(pc[r], req[r], caller[r], current[r], newExpires[r])

SerialInv == TableInv /\ now <= MaxTime /\ \A r \in Requests : Known(r)

\* What the handler computes from req[r] is what the call asks for.
LEMMA AsksFor ==
  ASSUME TypeInv, NEW r \in Requests, NEW p
  PROVE  /\ DemotesAdmin(r, p) <=> Demoting(req[r].call, p)
         /\ Renames(r, p) <=> Renaming(req[r].call, p)
BY ConstantsOK DEF DemotesAdmin, TargetRole, Demoting, Renames, Renaming

\* A ttl that fits is one that does not overflow.
LEMMA FitsNow ==
  ASSUME TypeInv, NEW ttl \in Nat \union {NULL}
  PROVE  Plannable(ttl, now) <=> ~TtlOverflows(ttl)
BY ConstantsOK DEF Plannable, TtlOverflows, TypeInv, TypeOK

\* What a request knows stays true while nothing is written, as time goes by.
LEMMA KnownStays ==
  ASSUME TypeInv, now' \in Nat, now <= now', UNCHANGED principals, NEW r \in Requests,
         NEW stage \in Stages, NEW q, NEW c, NEW p, NEW expires,
         Knows(stage, q, c, p, expires), pc'[r] = stage, req'[r] = q, caller'[r] = c,
         current'[r] = p, newExpires'[r] = expires, minted'[r] = NULL
  PROVE  Known(r)'
<1>1. /\ \A i : PrincipalOf(i)' = PrincipalOf(i)
      /\ \A n : FindActive(n)' = FindActive(n)
      /\ \A t : AdminsAt(t)' = AdminsAt(t)
  BY DEF PrincipalOf, FindActive, AdminsAt
<1>2. /\ Authorised(q, c)' <=> Authorised(q, c)
      /\ FoundByName(q.call, p)' <=> FoundByName(q.call, p)
      /\ Counted(q, p)' <=> Counted(q, p)
      /\ NewNameFree(q.call, p)' <=> NewNameFree(q.call, p)
  BY <1>1 DEF Authorised, FoundByName, Counted, NewNameFree
<1>3. now \in Nat /\ q.at \in Nat /\ q.at <= now /\ q.at <= now'
  BY DEF Knows, TypeInv, TypeOK
<1>4. PlannedSince(q, expires) => PlannedSince(q, expires)'
  <2>1. q.at..now \subseteq q.at..now'
    BY <1>3
  <2> QED BY <2>1 DEF PlannedSince
<1>5. Knows(stage, q, c, p, expires)'
  BY <1>1, <1>2, <1>3, <1>4 DEF Knows
<1> QED BY <1>5, Zenon DEF Known, Stages, AdminStages

\* A request that has ended needs nothing of the table.
LEMMA KnownEnded ==
  ASSUME TypeInv, NEW r \in Requests,
         (\E status : Answer(r, status)) \/ Goto(r, "gone")
  PROVE  Known(r)'
<1>1. pc'[r] \in {"done", "gone"}
  BY DEF Answer, Goto, TypeInv, TypeOK
<1> QED BY <1>1 DEF Known, Stages, AdminStages

\* From the last check to the UPDATE.
LEMMA KnownEnterUpdate ==
  ASSUME SerialInv, NEW r \in Requests, pc[r] \in UpsertStages \ {"create"},
         NEW p, EnterUpdate(r, p), current' = [current EXCEPT ![r] = p],
         UNCHANGED <<now, principals, req, caller, minted>>,
         FoundByName(req[r].call, p), Counted(req[r], p), NewNameFree(req[r].call, p)
  PROVE  Known(r)'
<1>1. TypeInv /\ Known(r) /\ pc[r] \in Stages \ {"auth", "audit"}
  BY DEF SerialInv, TableInv, UpsertStages, Stages, AdminStages
<1>2. CASE \E status : Answer(r, status)
  BY <1>1, <1>2, KnownEnded
<1>3. CASE /\ ~TtlOverflows(req[r].call.ttl) /\ Goto(r, "update")
           /\ newExpires' = [newExpires EXCEPT ![r] = Planned(req[r].call, now)]
  <2>1. /\ pc'[r] = "update" /\ current'[r] = p
        /\ newExpires'[r] = Planned(req[r].call, now) /\ minted'[r] = NULL
    BY <1>1, <1>3 DEF Goto, Known, TypeInv, TypeOK
  <2>2. PICK expires : expires = Planned(req[r].call, now)
    OBVIOUS
  <2>3. now \in req[r].at..now /\ req[r].call.ttl \in Nat \union {NULL}
    BY <1>1 DEF Known, Knows, TypeInv, TypeOK, StagesOK, StageOK, Request, Call
  <2>4. PlannedSince(req[r], expires)
    BY <1>1, <1>3, <2>2, <2>3, FitsNow DEF PlannedSince
  <2>5. Knows("update", req[r], caller[r], p, expires)
    BY <1>1, <1>3, <2>4 DEF Known, Knows
  <2> QED BY <1>1, <2>1, <2>2, <2>5, KnownStays DEF Stages, AdminStages, TypeInv, TypeOK
<1> QED BY <1>2, <1>3 DEF EnterUpdate, Planned

\* From the lookup or the count to the lookup of a new name or the UPDATE.
LEMMA KnownEnterRename ==
  ASSUME SerialInv, NEW r \in Requests, pc[r] \in UpsertStages \ {"create"},
         NEW p, EnterRename(r, p), current' = [current EXCEPT ![r] = p],
         UNCHANGED <<now, principals, req, caller, minted>>,
         FoundByName(req[r].call, p), Counted(req[r], p)
  PROVE  Known(r)'
<1>1. TypeInv /\ Known(r) /\ pc[r] \in Stages \ {"auth", "audit"}
  BY DEF SerialInv, TableInv, UpsertStages, Stages, AdminStages
<1>2. CASE Renaming(req[r].call, p) /\ Goto(r, "check_rename")
  <2>1. pc'[r] = "check_rename" /\ current'[r] = p /\ minted'[r] = NULL
    BY <1>1, <1>2 DEF Goto, Known, TypeInv, TypeOK
  <2>2. PICK expires : expires = newExpires'[r]
    OBVIOUS
  <2>3. Knows("check_rename", req[r], caller[r], p, expires)
    BY <1>1, <1>2 DEF Known, Knows
  <2> QED BY <1>1, <2>1, <2>2, <2>3, KnownStays DEF Stages, AdminStages, TypeInv, TypeOK
<1>3. CASE ~Renaming(req[r].call, p) /\ EnterUpdate(r, p)
  BY <1>3, KnownEnterUpdate DEF NewNameFree
<1> QED BY <1>1, <1>2, <1>3, AsksFor DEF EnterRename

\* The lookup of an upsert: what is found is the row itself.
LEMMA KnownFind ==
  ASSUME SerialInv, NEW r \in Requests, FindForUpsert(r)
  PROVE  Known(r)'
<1>1. /\ TypeInv /\ Known(r) /\ pc[r] = "upsert_find"
      /\ pc[r] \in Stages \ {"auth", "audit"} /\ pc[r] \in UpsertStages \ {"create"}
      /\ UNCHANGED <<now, principals, req, caller, minted>>
  BY DEF FindForUpsert, Database, SerialInv, TableInv, UpsertStages, Stages, AdminStages
<1>2. CASE \E status : Answer(r, status)
  BY <1>1, <1>2, KnownEnded
<1>3. CASE /\ FindActive(req[r].call.name) = {} /\ req[r].call.rename = NULL
           /\ Goto(r, "create") /\ UNCHANGED <<current, newExpires>>
  <2>1. pc'[r] = "create" /\ minted'[r] = NULL
    BY <1>1, <1>3 DEF Goto, Known, TypeInv, TypeOK
  <2>2. Knows("create", req[r], caller[r], current[r], newExpires[r])
    BY <1>1, <1>3 DEF Known, Knows
  <2> QED BY <1>1, <1>3, <2>1, <2>2, KnownStays DEF Stages, AdminStages, TypeInv, TypeOK
<1>4. ASSUME NEW i \in FindActive(req[r].call.name),
             current' = [current EXCEPT ![r] = PrincipalOf(i)],
             \/ DemotesAdmin(r, PrincipalOf(i)) /\ Goto(r, "count_admins") /\ UNCHANGED newExpires
             \/ ~DemotesAdmin(r, PrincipalOf(i)) /\ EnterRename(r, PrincipalOf(i))
      PROVE  Known(r)'
  <2>1. PICK p : p = PrincipalOf(i)
    OBVIOUS
  <2>2. i \in DOMAIN principals /\ p.id = i /\ FoundByName(req[r].call, p)
    BY <1>1, <2>1, RowTyped DEF FindActive, FoundByName, TypeInv, TypeOK
  <2>3. CASE Demoting(req[r].call, p) /\ Goto(r, "count_admins") /\ UNCHANGED newExpires
    <3>1. pc'[r] = "count_admins" /\ current'[r] = p /\ minted'[r] = NULL
      BY <1>1, <1>4, <2>1, <2>3 DEF Goto, Known, TypeInv, TypeOK
    <3>2. Knows("count_admins", req[r], caller[r], p, newExpires[r])
      BY <1>1, <2>2, <2>3 DEF Known, Knows
    <3> QED BY <1>1, <2>3, <3>1, <3>2, KnownStays DEF Stages, AdminStages, TypeInv, TypeOK
  <2>4. CASE ~Demoting(req[r].call, p) /\ EnterRename(r, p)
    BY <1>1, <1>4, <2>1, <2>2, <2>4, KnownEnterRename DEF Counted
  <2> QED BY <1>1, <1>4, <2>1, <2>3, <2>4, AsksFor
<1> QED BY <1>2, <1>3, <1>4 DEF FindForUpsert

\* The count shows that a demotion would not have taken the last admin when it
\* was asked for.
LEMMA CountedSince ==
  ASSUME SerialInv, NEW q, NEW p, q.at \in Nat, q.at <= now, ActiveAdminsExcluding(p.id) # {}
  PROVE  Counted(q, p)
<1>1. PICK t \in Nat : t = q.at /\ t <= now
  OBVIOUS
<1>2. PICK id : id = p.id
  OBVIOUS
<1>3. PICK j \in ActiveAdminsExcluding(id) : TRUE
  BY <1>2
<1>4. j \in AdminsAt(t) /\ j # id
  BY <1>1, <1>3, CountSees DEF SerialInv, TableInv
<1> QED BY <1>1, <1>2, <1>4 DEF Counted

\* The count, and the lookup of the new name.
LEMMA KnownCheck ==
  ASSUME SerialInv, NEW r \in Requests, CountAdmins(r) \/ CheckRename(r)
  PROVE  Known(r)'
<1>1. /\ TypeInv /\ Known(r) /\ pc[r] \in {"count_admins", "check_rename"}
      /\ pc[r] \in Stages /\ pc[r] \in UpsertStages \ {"create"}
      /\ UNCHANGED <<now, principals, req, caller, minted, current>>
  BY DEF CountAdmins, CheckRename, Database, SerialInv, TableInv, UpsertStages, Stages, AdminStages
<1>2. PICK p : p = current[r]
  OBVIOUS
<1>3. /\ current' = [current EXCEPT ![r] = p] /\ FoundByName(req[r].call, p)
      /\ pc[r] = "check_rename" => Counted(req[r], p)
  BY <1>1, <1>2, CurrentKept DEF Known, Knows
<1>4. CASE \E status : Answer(r, status)
  BY <1>1, <1>4, KnownEnded
<1>5. CASE ActiveAdminsExcluding(p.id) # {} /\ EnterRename(r, p)
  BY <1>1, <1>3, <1>5, CountedSince, KnownEnterRename DEF Known, Knows
<1>6. CASE /\ pc[r] = "check_rename"
           /\ FindActive(req[r].call.rename) = {} /\ EnterUpdate(r, p)
  BY <1>1, <1>3, <1>6, KnownEnterUpdate DEF NewNameFree
<1> QED BY <1>2, <1>4, <1>5, <1>6 DEF CountAdmins, CheckRename

\* Authentication, admission, and the lookup of a rotation.
LEMMA KnownAdmitted ==
  ASSUME SerialInv, NEW r \in Requests, Authenticate(r) \/ FindForRotate(r)
  PROVE  Known(r)'
<1>1. /\ TypeInv /\ Known(r) /\ pc[r] \in {"auth", "rotate_find"} /\ pc[r] \in Stages
      /\ UNCHANGED <<now, principals, req, minted, newExpires>>
      /\ minted'[r] = NULL
  BY DEF Authenticate, FindForRotate, Database, SerialInv, TableInv, Stages, Known
<1>2. CASE \E status : Answer(r, status)
  BY <1>1, <1>2, KnownEnded
<1>3. ASSUME pc[r] = "auth", NEW i \in DOMAIN principals,
             ~principals[i].revoked, principals[i].key_hash = HashKey(req[r].key),
             Unexpired(principals[i], req[r].at),
             caller' = [caller EXCEPT ![r] = PrincipalOf(i)], UNCHANGED current,
             Admission(req[r].call, PrincipalOf(i)) = 200, req[r].call.op # "me",
             Goto(r, FirstStage(req[r].call.op))
      PROVE  Known(r)'
  <2>1. PICK c : c = PrincipalOf(i)
    OBVIOUS
  <2>2. c.id = i /\ caller'[r] = c
    BY <1>1, <1>3, <2>1, RowTyped DEF TypeInv, TypeOK
  <2>3. req[r].at \in Nat /\ req[r].at <= now /\ req[r].call \in Calls
    BY <1>1 DEF Known, Knows
  <2>4. Authorised(req[r], c)
    BY <1>3, <2>1, <2>2, <2>3 DEF Authorised
  <2>5. PICK stage : stage = FirstStage(req[r].call.op)
    OBVIOUS
  <2>6. req[r].call.op \in Ops
    BY <2>3, ConstantsOK DEF Call
  <2>7. stage \in {"rotate_find", "revoke", "upsert_find"}
    BY <1>3, <2>5, <2>6 DEF Ops, FirstStage
  <2>8. pc'[r] = stage
    BY <1>1, <1>3, <2>5 DEF Goto, TypeInv, TypeOK
  <2>9. Knows(stage, req[r], c, current[r], newExpires[r])
    BY <2>3, <2>4, <2>7 DEF Knows
  <2> QED BY <1>1, <1>3, <2>2, <2>7, <2>8, <2>9, KnownStays DEF Stages, AdminStages, TypeInv, TypeOK
<1>4. ASSUME pc[r] = "rotate_find", NEW i \in FindActive(req[r].call.name),
             current' = [current EXCEPT ![r] = PrincipalOf(i)], Goto(r, "rotate"),
             UNCHANGED caller
      PROVE  Known(r)'
  <2>1. PICK p : p = PrincipalOf(i)
    OBVIOUS
  <2>2. i \in DOMAIN principals /\ p.id = i /\ FoundByName(req[r].call, p)
    BY <1>1, <2>1, RowTyped, <1>4 DEF FindActive, FoundByName, TypeInv, TypeOK
  <2>3. pc'[r] = "rotate" /\ current'[r] = p
    BY <1>1, <1>4, <2>1 DEF Goto, TypeInv, TypeOK
  <2>4. Knows("rotate", req[r], caller[r], p, newExpires[r])
    BY <1>1, <1>4, <2>2 DEF Known, Knows
  <2> QED BY <1>1, <1>4, <2>3, <2>4, KnownStays DEF Stages, TypeInv, TypeOK
<1>5. CASE Authenticate(r)
  BY <1>2, <1>3, <1>5 DEF Authenticate
<1>6. CASE FindForRotate(r)
  BY <1>2, <1>4, <1>6 DEF FindForRotate
<1> QED BY <1>5, <1>6

\* A request that arrives knows when it did; one that has revoked has only its
\* audit row to write; the others end.
LEMMA KnownOther ==
  ASSUME SerialInv, NEW r \in Requests,
         \/ Receive(r) \/ UpdatePrincipal(r) \/ CreatePrincipal(r) \/ RotateKey(r)
         \/ RevokeKey(r) \/ AuditRevoke(r) \/ StatementFails(r) \/ Abandon(r)
  PROVE  Known(r)'
<1>1. TypeInv /\ Known(r)
  BY DEF SerialInv, TableInv
<1>2. CASE (\E status : Answer(r, status)) \/ Goto(r, "gone")
  BY <1>1, <1>2, KnownEnded
<1>3. CASE Receive(r)
  <2>1. PICK key \in 0..lastKey, call \in Calls :
          req' = [req EXCEPT ![r] = [key |-> key, at |-> now, call |-> call]]
    BY <1>3 DEF Receive
  <2>2. /\ pc'[r] = "auth" /\ minted'[r] = NULL /\ UNCHANGED <<now, principals>>
    BY <1>1, <1>3 DEF Receive, Goto, Database, Known, TypeInv, TypeOK
  <2>3. PICK q : q = [key |-> key, at |-> now, call |-> call]
    OBVIOUS
  <2>4. req'[r] = q
    BY <1>1, <2>1, <2>3 DEF TypeInv, TypeOK
  <2>5. Knows("auth", q, caller[r], current[r], newExpires[r])
    BY <1>1, <2>3 DEF Knows, TypeInv, TypeOK
  <2>6. /\ caller'[r] = caller[r] /\ current'[r] = current[r]
        /\ newExpires'[r] = newExpires[r] /\ pc'[r] \in Stages \ {"audit"}
    BY <1>3, <2>2 DEF Receive, Snapshots, Stages
  <2>7. now \in Nat /\ now' = now
    BY <1>1, <2>2 DEF TypeInv, TypeOK
  <2>8. "auth" \in Stages
    BY DEF Stages
  <2> QED BY <1>1, <2>2, <2>4, <2>5, <2>6, <2>7, <2>8, KnownStays
<1>4. CASE RevokeKey(r) /\ Goto(r, "audit")
  <2>1. /\ pc'[r] = "audit" /\ minted'[r] = NULL /\ now' = now /\ req' = req
        /\ req[r].at \in Nat /\ req[r].at <= now /\ req[r].call \in Calls
    BY <1>1, <1>4 DEF RevokeKey, Goto, Known, Knows, Stages, AdminStages, TypeInv, TypeOK
  <2>2. Knows("audit", req[r], caller[r], current[r], newExpires[r])'
    BY <2>1 DEF Knows
  <2> QED BY <2>1, <2>2 DEF Known
<1> QED BY <1>2, <1>3, <1>4 DEF UpdatePrincipal, CreatePrincipal, AnswerWithKey, RotateKey,
   RevokeKey, AuditRevoke, StatementFails, Abandon

\* A step of r touches nothing of request s.
LEMMA OthersAlone ==
  ASSUME TypeInv, NEW r \in Requests, Step(r), NEW s \in Requests, s # r
  PROVE  /\ pc'[s] = pc[s] /\ reply'[s] = reply[s] /\ req'[s] = req[s]
         /\ caller'[s] = caller[s] /\ current'[s] = current[s]
         /\ newExpires'[s] = newExpires[s] /\ minted'[s] = minted[s]
<1> USE DEF TypeInv, TypeOK
<1>1. reply'[s] = reply[s] /\ req'[s] = req[s] /\ caller'[s] = caller[s]
  BY OthersUntouched
<1>2. pc'[s] = pc[s]
  <2>1. ASSUME NEW stage, Goto(r, stage) PROVE pc'[s] = pc[s]
    BY <2>1 DEF Goto
  <2>2. ASSUME NEW status, Answer(r, status) PROVE pc'[s] = pc[s]
    BY <2>2 DEF Answer
  <2>3. \A i, expires : AnswerWithKey(r, i, expires) => Answer(r, 200)
    BY DEF AnswerWithKey
  <2>4. \A p : EnterRename(r, p) \/ EnterUpdate(r, p) => pc'[s] = pc[s]
    BY <2>1, <2>2 DEF EnterRename, EnterUpdate
  <2> HIDE DEF TypeInv, TypeOK
  <2> QED
    BY <2>1, <2>2, <2>3, <2>4 DEF Step, Receive, Authenticate, FindForUpsert,
       CountAdmins, CheckRename, UpdatePrincipal, CreatePrincipal, FindForRotate,
       RotateKey, RevokeKey, AuditRevoke, StatementFails, Abandon
<1>3. current'[s] = current[s] /\ minted'[s] = minted[s]
  BY DEF Step, Receive, Authenticate, FindForUpsert, CountAdmins, CheckRename,
     UpdatePrincipal, CreatePrincipal, FindForRotate, RotateKey, RevokeKey,
     AuditRevoke, StatementFails, Abandon, Snapshots, AnswerWithKey
<1>4. newExpires'[s] = newExpires[s]
  <2> HIDE DEF TypeInv
  <2>0. \A x : newExpires' = [newExpires EXCEPT ![r] = x] => newExpires'[s] = newExpires[s]
    OBVIOUS
  <2>1. \A p : EnterRename(r, p) \/ EnterUpdate(r, p) => newExpires'[s] = newExpires[s]
    <3> HIDE DEF TypeOK
    <3> QED BY <2>0 DEF EnterRename, EnterUpdate
  <2>2. CASE FindForUpsert(r) \/ CountAdmins(r) \/ CheckRename(r)
    BY <2>1, <2>2 DEF FindForUpsert, CountAdmins, CheckRename
  <2>3. CASE ~(FindForUpsert(r) \/ CountAdmins(r) \/ CheckRename(r))
    BY <2>3 DEF Step, Receive, Authenticate, UpdatePrincipal, CreatePrincipal,
       FindForRotate, RotateKey, RevokeKey, AuditRevoke, StatementFails, Abandon, Snapshots
  <2> QED BY <2>2, <2>3
<1> QED BY <1>1, <1>2, <1>3, <1>4

\* The invariant holds at the start.
LEMMA SerialInit == Init => SerialInv
BY TableInit, ConstantsOK DEF Init, SerialInv, Known, Stages, AdminStages

\* A serial step is a step, and keeps the invariant.
LEMMA SerialStepKeeps ==
  ASSUME SerialInv, [SerialNext]_vars
  PROVE  SerialInv' /\ [Next]_vars
<1>1. [Next]_vars
  BY DEF SerialNext, Next
<1>2. TableInv'
  BY <1>1, TableInvStep DEF SerialInv
<1>3. now' <= MaxTime
  BY <1>1, ClockBounded DEF SerialInv, TableInv
<1>4. ASSUME NEW s \in Requests, pc[s] \notin Stages, Known(s),
             pc'[s] = pc[s], req'[s] = req[s], minted'[s] = minted[s]
      PROVE  Known(s)'
  BY <1>4 DEF Known
<1>5. \A s \in Requests : ~InFlight(s) => pc[s] \notin Stages
  BY DEF InFlight, Stages, AdminStages
<1>6. ASSUME NEW r \in Requests, Alone(r), Step(r), NEW s \in Requests PROVE Known(s)'
  <2>1. CASE s = r
    BY <1>6, <2>1, KnownFind, KnownCheck, KnownAdmitted, KnownOther DEF Step
  <2>2. CASE s # r
    BY <1>4, <1>5, <1>6, <2>2, OthersAlone DEF Alone, SerialInv, TableInv
  <2> QED BY <2>1, <2>2
<1>7. ASSUME Tick \/ UNCHANGED vars, NEW s \in Requests PROVE Known(s)'
  <2>1. /\ now' \in Nat /\ now <= now'
        /\ UNCHANGED <<principals, pc, req, caller, current, newExpires, minted>>
    BY <1>7 DEF Tick, Database, Snapshots, vars, SerialInv, TableInv, TypeInv, TypeOK
  <2>2. CASE pc[s] \notin Stages
    BY <1>4, <2>1, <2>2 DEF SerialInv
  <2>3. CASE pc[s] \in Stages
    BY <2>1, <2>3, KnownStays DEF SerialInv, TableInv, Known
  <2> QED BY <2>2, <2>3
<1>8. \A s \in Requests : Known(s)'
  BY <1>6, <1>7 DEF SerialNext, Finished
<1> QED BY <1>1, <1>2, <1>3, <1>8 DEF SerialInv

-----------------------------------------------------------------------------
(* The last admin.                                                         *)

\* An active admin whose row keeps role and state, and its time, stays one.
LEMMA AdminStays ==
  ASSUME NEW t \in Nat, NEW i \in AdminsAt(t), i \in DOMAIN principals',
         principals'[i].role = principals[i].role,
         principals'[i].revoked = principals[i].revoked,
         \/ principals'[i].expires_at = principals[i].expires_at
         \/ principals'[i].expires_at = NULL
         \/ principals'[i].expires_at > t
  PROVE  AdminsAt(t)' # {}
BY DEF AdminsAt

\* An expiry that was planned since q arrived lies ahead of that moment.
LEMMA PlannedAhead ==
  ASSUME TypeInv, NEW q \in Request, q.call.ttl # 0, NEW expires, PlannedSince(q, expires),
         expires.set, expires.at # NULL
  PROVE  expires.at > q.at
<1>1. PICK t \in q.at..now : expires = Planned(q.call, t)
  BY DEF PlannedSince
<1>2. expires.at = t + q.call.ttl /\ q.call.ttl \in Nat
  BY <1>1 DEF Planned, KeepExpiry, Request, Call
<1>3. q.at \in Nat /\ now \in Nat
  BY DEF Request, TypeInv, TypeOK
<1> QED BY <1>1, <1>2, <1>3

\* An UPDATE demotes only where the count saw another admin.
LEMMA UpdateLeavesAdmin ==
  ASSUME SerialInv, NEW r \in Requests, UpdatePrincipal(r),
         NEW t \in Nat, t = req[r].at, AdminsAt(t) # {}
  PROVE  AdminsAt(t)' # {}
<1>1. /\ pc[r] = "update" /\ TypeInv
      /\ Knows("update", req[r], caller[r], current[r], newExpires[r])
  BY DEF UpdatePrincipal, SerialInv, TableInv, Known, Stages, AdminStages
<1>2. CASE UNCHANGED principals
  BY <1>2 DEF AdminsAt
<1>3. CASE principals' = [principals EXCEPT ![current[r].id] = Updated(r, @)]
  <2>1. PICK i \in DOMAIN principals : i = current[r].id
    BY <1>1 DEF TypeInv, StagesOK, StageOK
  <2>2. /\ DOMAIN principals' = DOMAIN principals
        /\ \A j \in DOMAIN principals :
             principals'[j] = IF j = i THEN Updated(r, principals[j]) ELSE principals[j]
    BY <1>1, <1>3, <2>1, UpdateWrites
  <2>3. principals[i].role = current[r].role
    BY <1>1, <2>1 DEF Knows, FoundByName, PrincipalOf
  <2>4. CASE \E j \in AdminsAt(t) : j # i
    <3>1. PICK j \in AdminsAt(t) : j # i
      BY <2>4
    <3>2. j \in DOMAIN principals
      BY <3>1 DEF AdminsAt
    <3> QED BY <2>2, <3>1, <3>2, AdminStays
  <2>5. CASE AdminsAt(t) = {i}
    <3>1. /\ principals[i] \in Row /\ principals[i].role = "admin"
      BY <1>1, <2>5, RowTyped DEF AdminsAt, TypeInv, TypeOK
    <3>2. PICK q \in Request : q = req[r] /\ q.at = t
      BY <1>1 DEF TypeInv, StagesOK, StageOK, Stages, AdminStages
    <3>3. AdminsAt(q.at) \ {current[r].id} = {}
      BY <2>1, <2>5, <3>2
    <3>4. TargetRole(r, current[r]) = "admin"
      BY <1>1, <2>3, <3>1, <3>2, <3>3 DEF Knows, Counted, Demoting, TargetRole
    <3>5. /\ principals'[i].role = "admin"
          /\ principals'[i].revoked = principals[i].revoked
          /\ principals'[i].expires_at = IF newExpires[r].set THEN newExpires[r].at
                                         ELSE principals[i].expires_at
      BY <2>2, <2>3, <3>1, <3>4 DEF Updated, Row
    <3>6. /\ q.call.ttl # 0 /\ PlannedSince(q, newExpires[r])
      <4>1. Admission(q.call, caller[r]) = 200 /\ q.call.op = "upsert"
        BY <1>1, <3>2 DEF Knows, Authorised, Stages, AdminStages, TypeInv, StagesOK, StageOK, UpsertStages
      <4>2. ~BadBody(q.call)
        BY <4>1 DEF Admission
      <4> QED BY <1>1, <3>2, <4>2 DEF Knows, BadBody
    <3>7. newExpires[r].set /\ newExpires[r].at # NULL => newExpires[r].at > t
      BY <1>1, <3>2, <3>6, PlannedAhead
    <3> QED BY <2>2, <2>5, <3>1, <3>5, <3>7, AdminStays
  <2> QED BY <2>4, <2>5
<1> QED BY <1>2, <1>3 DEF UpdatePrincipal

\* A rotation touches a key only.
LEMMA RotateLeavesAdmin ==
  ASSUME TypeInv, NEW r \in Requests, RotateKey(r), NEW t \in Nat, AdminsAt(t) # {}
  PROVE  AdminsAt(t)' # {}
<1>1. CASE UNCHANGED principals
  BY <1>1 DEF AdminsAt
<1>2. CASE principals' = [principals EXCEPT ![current[r].id].key_hash = HashKey(lastKey + 1)]
  <2>1. PICK i \in AdminsAt(t) : TRUE
    OBVIOUS
  <2>2. i \in DOMAIN principals /\ principals[i] \in Row
    BY RowTyped DEF AdminsAt, TypeInv, TypeOK
  <2>3. i \in DOMAIN principals'
    BY <1>2, <2>2
  <2>4. /\ principals'[i].role = principals[i].role
        /\ principals'[i].revoked = principals[i].revoked
        /\ principals'[i].expires_at = principals[i].expires_at
    BY <1>2, <2>2 DEF Row
  <2> QED BY <2>1, <2>3, <2>4, AdminStays
<1> QED BY <1>1, <1>2 DEF RotateKey

\* A creation touches no row.
LEMMA CreateLeavesAdmin ==
  ASSUME TypeInv, NEW r \in Requests, CreatePrincipal(r), NEW t \in Nat, AdminsAt(t) # {}
  PROVE  AdminsAt(t)' # {}
<1>1. CASE UNCHANGED principals
  BY <1>1 DEF AdminsAt
<1>2. CASE lastKey' # lastKey
  <2>1. PICK i \in AdminsAt(t) : TRUE
    OBVIOUS
  <2>2. i \in DOMAIN principals /\ i \in DOMAIN principals' /\ principals'[i] = principals[i]
    BY <1>2, CreateWrites DEF AdminsAt
  <2> QED BY <2>1, <2>2, AdminStays
<1>3. UNCHANGED principals \/ lastKey' # lastKey
  BY DEF CreatePrincipal, AnswerWithKey, TypeInv, TypeOK
<1> QED BY <1>1, <1>2, <1>3

\* A revocation leaves the admin it counted.
LEMMA RevocationLeavesAdmin ==
  ASSUME SerialInv, NEW r \in Requests, RevokeKey(r),
         NEW t \in Nat, t <= now, AdminsAt(t) # {}
  PROVE  AdminsAt(t)' # {}
<1>1. TypeInv /\ now <= MaxTime
  BY DEF SerialInv, TableInv
<1>2. CASE UNCHANGED principals
  BY <1>2 DEF AdminsAt
<1>3. CASE Goto(r, "audit")
  <2>1. pc'[r] = "audit"
    BY <1>1, <1>3 DEF Goto, TypeInv, TypeOK
  <2>2. PICK i \in DOMAIN principals : i = req[r].call.id
    BY <1>1, <2>1, RevokeWrites
  <2>3. PICK j \in ActiveAdminsExcluding(i) : TRUE
    BY <1>1, <2>1, <2>2, RevokeWrites
  <2>4. j \in AdminsAt(t) /\ j \in DOMAIN principals /\ j # i
    BY <1>1, <2>3, CountSees
  <2>5. principals'[j] = principals[j] /\ j \in DOMAIN principals'
    BY <1>1, <2>1, <2>2, <2>4, RevokeWrites
  <2> QED BY <2>4, <2>5, AdminStays
<1> QED BY <1>2, <1>3 DEF RevokeKey

(***************************************************************************)
(* Whatever calls are made one after the other, and however the clock runs *)
(* on meanwhile: if anybody was an active admin when a demotion,           *)
(* revocation or other request arrived, its statements leave somebody who  *)
(* is one by that reading of the clock. The count may be of an admin who   *)
(* expires before the UPDATE; it is never of one who had expired.          *)
(***************************************************************************)
THEOREM SerialRequestsLeaveAnAdmin == SerialSpec => OnlyTimeTakesAdmins
<1>1. Init => SerialInv
  BY SerialInit
<1>2. SerialInv /\ [SerialNext]_vars => SerialInv'
  BY SerialStepKeeps
<1>3. SerialInv /\ [SerialNext]_vars =>
        \A r \in Requests :
          InFlight(r) /\ AdminsAt(req[r].at) # {} => AdminsAt(req[r].at)' # {}
  <2> SUFFICES ASSUME SerialInv, [SerialNext]_vars, NEW r \in Requests, InFlight(r),
                      AdminsAt(req[r].at) # {}
               PROVE  AdminsAt(req[r].at)' # {}
    OBVIOUS
  <2>1. TypeInv /\ pc[r] \in Stages
    BY DEF SerialInv, TableInv, TypeInv, TypeOK, InFlight
  <2>2. Known(r)
    BY DEF SerialInv
  <2>3. PICK t \in Nat : t = req[r].at /\ t <= now
    BY <2>1, <2>2 DEF Known, Knows
  <2>4. AdminsAt(t) # {}
    BY <2>3
  <2>5. Step(r) \/ UNCHANGED <<principals, req>>
    BY DEF SerialNext, Alone, Tick, Finished, vars, Database
  <2>6. req' = req
    <3>1. ~Receive(r)
      BY DEF Receive, InFlight
    <3> QED BY <2>5, <3>1 DEF Step, Authenticate, FindForUpsert, CountAdmins, CheckRename,
          UpdatePrincipal, CreatePrincipal, FindForRotate, RotateKey, RevokeKey,
          AuditRevoke, StatementFails, Abandon
  <2>7. AdminsAt(t)' # {}
    <3>1. CASE UNCHANGED principals
      BY <2>4, <3>1 DEF AdminsAt
    <3>2. CASE RevokeKey(r) \/ UpdatePrincipal(r) \/ RotateKey(r) \/ CreatePrincipal(r)
      BY <2>1, <2>3, <2>4, <3>2, RevocationLeavesAdmin, UpdateLeavesAdmin, RotateLeavesAdmin,
         CreateLeavesAdmin
    <3>3. \/ UNCHANGED principals
          \/ RevokeKey(r) \/ UpdatePrincipal(r) \/ RotateKey(r) \/ CreatePrincipal(r)
      BY <2>5 DEF Step, Receive, Authenticate, FindForUpsert, CountAdmins, CheckRename,
         FindForRotate, AuditRevoke, StatementFails, Abandon, Database
    <3> QED BY <3>1, <3>2, <3>3
  <2> QED BY <2>3, <2>6, <2>7
<1> QED BY <1>1, <1>2, <1>3, PTL DEF SerialSpec, OnlyTimeTakesAdmins

-----------------------------------------------------------------------------
(* Whose key a rotation replaces.                                          *)

\* One active principal has a name.
LEMMA OneByName ==
  ASSUME TableInv, NEW name, NEW i \in FindActive(name), NEW j \in FindActive(name)
  PROVE  i = j
BY DEF TableInv, LookupsUnambiguous, FindActive

\* A caller that named itself found itself.
LEMMA RotatesItself ==
  ASSUME SerialInv, NEW r \in Requests, RotateKey(r), minted'[r] # minted[r],
         caller[r].role # "admin"
  PROVE  minted'[r].id = caller[r].id
<1>1. /\ TypeInv /\ TableInv /\ pc[r] = "rotate"
      /\ Knows("rotate", req[r], caller[r], current[r], newExpires[r])
  BY DEF RotateKey, SerialInv, TableInv, Known, Stages
<1>2. Authorised(req[r], caller[r]) /\ FoundByName(req[r].call, current[r])
  BY <1>1 DEF Knows, Stages, AdminStages
<1>3. caller[r].name = req[r].call.name
  BY <1>1, <1>2 DEF Authorised, Admission, Forbidden, TypeInv, StagesOK, StageOK
<1>4. caller[r].id \in FindActive(req[r].call.name)
  BY <1>2, <1>3 DEF Authorised, FindActive, PrincipalOf
<1>5. caller[r].id = current[r].id
  BY <1>1, <1>2, <1>4, OneByName DEF FoundByName
<1>6. minted'[r].id = current[r].id
  BY <1>1 DEF RotateKey, AnswerWithKey, TypeInv, TypeOK
<1> QED BY <1>5, <1>6

(***************************************************************************)
(* Clients that wait for their answers get what docs/API.md promises of    *)
(* rotations: the key that a caller without the admin role gets back is    *)
(* its own principal's. The name that rotate_principal compared is still   *)
(* that principal's when rotate_principal_key looks it up; overlapping     *)
(* renames are what breaks it.                                             *)
(***************************************************************************)
THEOREM SerialRotationsKeepToThemselves == SerialSpec => []NonAdminsRotateThemselves
<1>1. Init => SerialInv /\ NonAdminsRotateThemselves
  BY SerialInit DEF Init, NonAdminsRotateThemselves
<1>2. SerialInv /\ [SerialNext]_vars => SerialInv'
  BY SerialStepKeeps
<1>3. SerialInv /\ NonAdminsRotateThemselves /\ [SerialNext]_vars => NonAdminsRotateThemselves'
  <2> SUFFICES ASSUME SerialInv, NonAdminsRotateThemselves, [SerialNext]_vars,
                      NEW s \in Requests, minted'[s] # NULL, caller'[s].role # "admin"
               PROVE  minted'[s].id = caller'[s].id
    BY DEF NonAdminsRotateThemselves
  <2>1. CASE caller'[s] = caller[s] /\ minted'[s] = minted[s]
    BY <2>1 DEF NonAdminsRotateThemselves
  <2>2. TypeInv /\ Known(s)
    BY DEF SerialInv, TableInv
  <2>3. ASSUME Step(s) PROVE minted'[s].id = caller'[s].id
    <3>1. CASE RotateKey(s)
      <4>1. caller'[s] = caller[s]
        BY <3>1 DEF RotateKey, Snapshots
      <4> QED BY <2>1, <3>1, <4>1, RotatesItself
    <3>2. CASE CreatePrincipal(s)
      <4>1. /\ caller'[s] = caller[s] /\ pc[s] = "create" /\ req[s].call.op = "upsert"
            /\ Knows("create", req[s], caller[s], current[s], newExpires[s])
        BY <2>2, <3>2 DEF CreatePrincipal, Snapshots, Known, Stages, AdminStages,
           TypeInv, StagesOK, StageOK, UpsertStages
      <4>2. Authorised(req[s], caller[s])
        BY <4>1 DEF Knows, Stages, AdminStages
      <4>3. caller[s].role = "admin"
        BY <4>1, <4>2 DEF Authorised, Admission, Forbidden
      <4> QED BY <4>1, <4>3
    <3>3. CASE Authenticate(s)
      <4>1. minted'[s] = NULL
        BY <2>2, <3>3 DEF Authenticate, Known, Stages
      <4> QED BY <4>1
    <3>4. CASE ~RotateKey(s) /\ ~CreatePrincipal(s) /\ ~Authenticate(s)
      <4>1. caller'[s] = caller[s] /\ minted'[s] = minted[s]
        BY <2>3, <3>4 DEF Step, Receive, FindForUpsert, CountAdmins, CheckRename,
           UpdatePrincipal, FindForRotate, RevokeKey, AuditRevoke, StatementFails,
           Abandon, Snapshots
      <4> QED BY <2>1, <4>1
    <3> QED BY <3>1, <3>2, <3>3, <3>4
  <2>4. ASSUME NEW r \in Requests, Step(r), r # s PROVE minted'[s].id = caller'[s].id
    BY <2>1, <2>2, <2>4, OthersAlone
  <2>5. ASSUME Tick \/ UNCHANGED vars PROVE minted'[s].id = caller'[s].id
    BY <2>1, <2>5 DEF Tick, Snapshots, vars
  <2> QED BY <2>3, <2>4, <2>5 DEF SerialNext, Finished
<1> QED BY <1>1, <1>2, <1>3, PTL DEF SerialSpec

-----------------------------------------------------------------------------
(* The table as a client sees it.                                          *)

\* The names, admins and key holders of the documentation are those that the
\* queries find.
LEMMA ApiViews ==
  ASSUME SerialInv
  PROVE  /\ DOMAIN Entries(principals) = DOMAIN principals
         /\ \A i \in DOMAIN principals : Entries(principals)[i] = EntryOf(principals[i])
         /\ \A name : Api!Named(name) = FindActive(name)
         /\ \A t : Api!Admins(t) = AdminsAt(t)
         /\ \A key \in Nat, t \in 0..MaxTime : Api!Holders(key, t) =
              {i \in DOMAIN principals : /\ ~principals[i].revoked
                                         /\ principals[i].key_hash = HashKey(key)
                                         /\ Unexpired(principals[i], t)}
<1>1. /\ DOMAIN Entries(principals) = DOMAIN principals
      /\ \A i \in DOMAIN principals : Entries(principals)[i] = EntryOf(principals[i])
  BY DEF Entries
<1>2. \A i \in DOMAIN principals : \A t :
        Api!Active(i, t) <=> /\ ~principals[i].revoked
                             /\ principals[i].expires_at = NULL \/ principals[i].expires_at > t
  BY <1>1 DEF Api!Active, EntryOf
<1>3. \A name : Api!Named(name) = FindActive(name)
  BY <1>1 DEF Api!Named, FindActive, EntryOf
<1>4. \A t : Api!Admins(t) = AdminsAt(t)
  BY <1>1, <1>2 DEF Api!Admins, AdminsAt, EntryOf
<1>5. ASSUME NEW i \in DOMAIN principals, NEW key \in Nat
      PROVE  EntryOf(principals[i]).key = key <=> principals[i].key_hash = HashKey(key)
  <2>1. principals[i].key_hash \in {KeyPepper} \X Nat
    BY RowTyped DEF Row, SerialInv, TableInv, TypeInv, TypeOK
  <2> QED BY <2>1 DEF EntryOf, HashKey
<1>6. ASSUME NEW i \in DOMAIN principals, NEW t \in 0..MaxTime
      PROVE  Unexpired(principals[i], t) <=>
               principals[i].expires_at = NULL \/ principals[i].expires_at > t
  <2>1. principals[i] \in Row /\ t \in Nat /\ t < I64Max
    BY RowTyped, ConstantsOK DEF SerialInv, TableInv, TypeInv, TypeOK
  <2> QED BY <2>1, CastCompares
<1>7. ASSUME NEW key \in Nat, NEW t \in 0..MaxTime
      PROVE  Api!Holders(key, t) =
               {i \in DOMAIN principals : /\ ~principals[i].revoked
                                          /\ principals[i].key_hash = HashKey(key)
                                          /\ Unexpired(principals[i], t)}
  BY <1>1, <1>2, <1>5, <1>6 DEF Api!Holders
<1> QED BY <1>1, <1>3, <1>4, <1>7

\* The caller that authenticate returned is the one holder of the key, as of
\* the clock it read.
LEMMA OneHolder ==
  ASSUME SerialInv, NEW q \in Request, q.at <= now, NEW i \in DOMAIN principals,
         ~principals[i].revoked, principals[i].key_hash = HashKey(q.key),
         Unexpired(principals[i], q.at)
  PROVE  /\ Api!Holders(q.key, q.at) = {i}
         /\ Api!IsAdmin(q.key, q.at) <=> principals[i].role = "admin"
         /\ \A name : Api!NamesItself(q.key, name, q.at) <=> principals[i].name = name
<1>1. q.key \in Nat /\ q.at \in 0..MaxTime
  BY ConstantsOK DEF Request, SerialInv, TableInv, TypeInv, TypeOK
<1>2. \A j \in DOMAIN principals : principals[j].key_hash = HashKey(q.key) => j = i
  BY DEF SerialInv, TableInv, LookupsUnambiguous
<1>3. Api!Holders(q.key, q.at) = {i}
  BY <1>1, <1>2, ApiViews
<1>4. i \in Api!Admins(q.at) <=> principals[i].role = "admin"
  <2>1. principals[i] \in Row /\ q.at \in Nat /\ q.at < I64Max
    BY <1>1, RowTyped, ConstantsOK DEF SerialInv, TableInv, TypeInv, TypeOK
  <2>2. principals[i].expires_at = NULL \/ principals[i].expires_at > q.at
    BY <2>1, CastCompares
  <2> QED BY <2>2, ApiViews DEF AdminsAt
<1> QED BY <1>3, <1>4, ApiViews DEF Api!IsAdmin, Api!NamesItself, EntryOf

\* A row that is written is written in the client's view; the others stay.
LEMMA EntryWritten ==
  ASSUME NEW i \in DOMAIN principals, DOMAIN principals' = DOMAIN principals,
         \A j \in DOMAIN principals : j # i => principals'[j] = principals[j]
  PROVE  Entries(principals)' = [Entries(principals) EXCEPT ![i] = EntryOf(principals'[i])]
BY DEF Entries

\* The view of a sequence of rows is a sequence of entries.
LEMMA EntriesTyped ==
  ASSUME NEW t \in Seq(Row)
  PROVE  /\ Entries(t) \in Seq({EntryOf(row) : row \in Row})
         /\ Len(Entries(t)) = Len(t)
<1> DEFINE S == {EntryOf(row) : row \in Row}
<1>1. Len(t) \in Nat /\ DOMAIN t = 1..Len(t) /\ \A i \in 1..Len(t) : t[i] \in Row
  BY LenProperties, ElementOfSeq
<1>2. \A i \in 1..Len(t) : EntryOf(t[i]) \in S
  BY <1>1
<1>3. Entries(t) \in [1..Len(t) -> S]
  BY <1>1, <1>2 DEF Entries
<1> HIDE DEF S
<1>4. Entries(t) \in Seq(S)
  BY <1>1, <1>3, SeqDef
<1>5. Len(Entries(t)) \in Nat /\ DOMAIN Entries(t) = 1..Len(Entries(t))
  BY <1>4, LenProperties
<1>6. Len(Entries(t)) = Len(t)
  BY <1>1, <1>5 DEF Entries
<1> QED BY <1>4, <1>6 DEF S

\* A row that is added is added to the client's view.
LEMMA EntryAdded ==
  ASSUME NEW t \in Seq(Row), NEW row \in Row
  PROVE  Entries(Append(t, row)) = Append(Entries(t), EntryOf(row))
<1> DEFINE S == {EntryOf(x) : x \in Row}
<1>0. PICK longer : longer = Append(t, row)
  OBVIOUS
<1>1. /\ longer \in Seq(Row) /\ Len(longer) = Len(t) + 1
      /\ longer[Len(t) + 1] = row /\ \A j \in DOMAIN t : longer[j] = t[j]
  BY <1>0, RowAppended
<1>2. /\ Len(t) \in Nat /\ DOMAIN t = 1..Len(t) /\ DOMAIN longer = 1..(Len(t) + 1)
  BY <1>1, LenProperties
<1>3. /\ Entries(t) \in Seq(S) /\ Entries(longer) \in Seq(S) /\ EntryOf(row) \in S
      /\ Len(Entries(t)) = Len(t) /\ Len(Entries(longer)) = Len(t) + 1
  BY <1>1, EntriesTyped
<1> HIDE DEF S
<1>4. PICK view \in Seq(S), entry \in S : view = Entries(t) /\ entry = EntryOf(row)
  BY <1>3
<1>5. PICK appended : appended = Append(view, entry)
  OBVIOUS
<1>6. /\ appended \in Seq(S) /\ Len(appended) = Len(t) + 1
      /\ appended[Len(t) + 1] = entry
      /\ \A j \in 1..Len(t) : appended[j] = view[j]
  BY <1>2, <1>3, <1>4, <1>5, AppendProperties
<1>7. \A j \in 1..(Len(t) + 1) : Entries(longer)[j] = appended[j]
  <2> SUFFICES ASSUME NEW j \in 1..(Len(t) + 1) PROVE Entries(longer)[j] = appended[j]
    OBVIOUS
  <2>1. Entries(longer)[j] = EntryOf(longer[j])
    BY <1>2 DEF Entries
  <2>2. CASE j = Len(t) + 1
    BY <1>1, <1>4, <1>6, <2>1, <2>2
  <2>3. CASE j \in 1..Len(t)
    <3>1. longer[j] = t[j] /\ Entries(t)[j] = EntryOf(t[j])
      BY <1>1, <1>2, <2>3 DEF Entries
    <3> QED BY <1>4, <1>6, <2>1, <2>3, <3>1
  <2> QED BY <1>2, <2>2, <2>3
<1>8. Entries(longer) = appended
  BY <1>3, <1>6, <1>7, SeqEqual
<1> QED BY <1>0, <1>4, <1>5, <1>8

-----------------------------------------------------------------------------
(* Refusals: those the documentation allows.                               *)

\* Whoever is admitted has a key that authenticated when the request arrived,
\* and the privilege.
LEMMA Privileged ==
  ASSUME SerialInv, NEW q \in Request, q.at <= now, NEW c, Authorised(q, c)
  PROVE  /\ Api!Holders(q.key, q.at) = {c.id}
         /\ ~Api!Unprivileged(q.key, q.call, q.at)
         /\ q.call.op # "rotate" => c.role = "admin" /\ AdminsAt(q.at) # {}
<1>1. /\ c.id \in DOMAIN principals
      /\ c.role = principals[c.id].role /\ c.name = principals[c.id].name
  BY DEF Authorised, PrincipalOf
<1>2. /\ Api!Holders(q.key, q.at) = {c.id}
      /\ Api!IsAdmin(q.key, q.at) <=> principals[c.id].role = "admin"
      /\ \A name : Api!NamesItself(q.key, name, q.at) <=> principals[c.id].name = name
  <2>1. PICK i \in DOMAIN principals : i = c.id
    BY <1>1
  <2>2. /\ ~principals[i].revoked /\ principals[i].key_hash = HashKey(q.key)
        /\ Unexpired(principals[i], q.at)
    BY <2>1 DEF Authorised
  <2>3. /\ Api!Holders(q.key, q.at) = {i}
        /\ Api!IsAdmin(q.key, q.at) <=> principals[i].role = "admin"
        /\ \A name : Api!NamesItself(q.key, name, q.at) <=> principals[i].name = name
    BY <2>2, OneHolder
  <2> QED BY <2>1, <2>3
<1>3. c.role = "admin" \/ (q.call.op = "rotate" /\ c.name = q.call.name)
  BY DEF Authorised, Admission, Forbidden
<1>4. c.role = "admin" => AdminsAt(q.at) # {}
  <2>1. Api!Admins(q.at) = AdminsAt(q.at)
    BY ApiViews
  <2>2. c.role = "admin" => Api!IsAdmin(q.key, q.at)
    BY <1>1, <1>2
  <2> QED BY <2>1, <2>2 DEF Api!IsAdmin
<1> QED BY <1>1, <1>2, <1>3, <1>4 DEF Api!Unprivileged

\* The count leaves out one admin, and nobody else who is active now.
LEMMA NobodyCounted ==
  ASSUME SerialInv, NEW id, ActiveAdminsExcluding(id) = {}
  PROVE  Api!Admins(now) \subseteq {id}
<1>1. ASSUME NEW i \in AdminsAt(now), i # id PROVE FALSE
  <2>1. i \in DOMAIN principals
    BY <1>1 DEF AdminsAt
  <2>2. principals[i] \in Row /\ now \in Nat /\ now < I64Max
    BY <2>1, RowTyped, ConstantsOK DEF SerialInv, TableInv, TypeInv, TypeOK
  <2>3. PICK t \in Nat : t = now
    BY <2>2
  <2>4. Unexpired(principals[i], t)
    BY <1>1, <2>2, <2>3, CastCompares DEF AdminsAt
  <2> QED BY <1>1, <2>1, <2>3, <2>4 DEF AdminsAt, ActiveAdminsExcluding
<1> QED BY <1>1, ApiViews

\* A body that was accepted, with a ttl that fits at some time since, was well
\* formed when the request arrived.
LEMMA WellFormed ==
  ASSUME SerialInv, NEW q \in Request, NEW c, Authorised(q, c),
         NEW t, t \in q.at..now, q.call.op = "upsert" => Plannable(q.call.ttl, t)
  PROVE  ~Api!Malformed(q.call, q.at)
<1>1. q.call.op = "upsert" => ~BadBody(q.call)
  BY DEF Authorised, Admission
<1>2. q.call.op = "rotate" => q.call.name # NULL
  BY DEF Authorised, Admission
<1>3. q.call.op = "upsert" => Plannable(q.call.ttl, q.at)
  <2>1. q.at \in Nat /\ now \in Nat /\ q.call.ttl \in Nat \union {NULL}
    BY DEF Request, Call, SerialInv, TableInv, TypeInv, TypeOK
  <2> QED BY <2>1, ConstantsOK DEF Plannable
<1>4. q.at \in Nat /\ q.call.ttl \in Nat \union {NULL}
  BY DEF Request, Call
<1> QED BY <1>1, <1>2, <1>3, <1>4, ConstantsOK DEF Api!Malformed, BadBody, Plannable

\* An upsert that passed its checks is one that nothing speaks against.
LEMMA UpsertServed ==
  ASSUME SerialInv, NEW q \in Request, q.at <= now, NEW c, Authorised(q, c),
         q.call.op = "upsert", NEW p, FoundByName(q.call, p), Counted(q, p),
         NewNameFree(q.call, p), NEW t, t \in q.at..now, Plannable(q.call.ttl, t)
  PROVE  Api!Refusals(q.key, q.call, q.at) = {}
<1>1. /\ Api!Holders(q.key, q.at) # {} /\ ~Api!Unprivileged(q.key, q.call, q.at)
      /\ AdminsAt(q.at) # {}
  BY Privileged
<1>2. ~Api!Malformed(q.call, q.at)
  BY WellFormed
<1>3. Api!Named(q.call.name) = {p.id}
  BY ApiViews, OneByName DEF FoundByName, SerialInv
<1>4. p.id \in DOMAIN principals /\ p.name = q.call.name /\ p.role = principals[p.id].role
  BY <1>3 DEF FoundByName, FindActive, PrincipalOf
<1>5. ~Api!NameInUse(q.call)
  BY <1>4, ApiViews DEF Api!NameInUse, NewNameFree, Renaming
<1>6. ~Api!LeavesNoAdmin(q.call, q.at)
  <2> SUFFICES ASSUME q.call.role \notin {"admin", NULL}, AdminsAt(q.at) \subseteq {p.id} PROVE FALSE
    BY <1>3, ApiViews DEF Api!LeavesNoAdmin
  <2>1. p.role = "admin"
    BY <1>1, <1>4 DEF AdminsAt
  <2> QED BY <2>1 DEF Counted, Demoting
<1>7. ~Api!Unknown(q.call)
  BY <1>3 DEF Api!Unknown
<1> QED BY <1>1, <1>2, <1>5, <1>6, <1>7 DEF Api!Refusals

\* So is one that creates.
LEMMA CreationServed ==
  ASSUME SerialInv, NEW q \in Request, q.at <= now, NEW c, Authorised(q, c),
         q.call.op = "upsert", FindActive(q.call.name) = {}, q.call.rename = NULL,
         NEW t, t \in q.at..now, Plannable(q.call.ttl, t)
  PROVE  Api!Refusals(q.key, q.call, q.at) = {}
<1>1. /\ Api!Holders(q.key, q.at) # {} /\ ~Api!Unprivileged(q.key, q.call, q.at)
  BY Privileged
<1>2. ~Api!Malformed(q.call, q.at)
  BY WellFormed
<1>3. Api!Named(q.call.name) = {}
  BY ApiViews
<1>4. ~Api!LeavesNoAdmin(q.call, q.at) /\ ~Api!NameInUse(q.call) /\ ~Api!Unknown(q.call)
  BY <1>3 DEF Api!LeavesNoAdmin, Api!NameInUse, Api!Unknown
<1> QED BY <1>1, <1>2, <1>4 DEF Api!Refusals

\* A rotation that found its principal.
LEMMA RotationServed ==
  ASSUME SerialInv, NEW q \in Request, q.at <= now, NEW c, Authorised(q, c),
         q.call.op = "rotate", FindActive(q.call.name) # {}
  PROVE  Api!Refusals(q.key, q.call, q.at) = {}
<1>1. Api!Holders(q.key, q.at) # {} /\ ~Api!Unprivileged(q.key, q.call, q.at)
  BY Privileged
<1>2. ~Api!Malformed(q.call, q.at)
  BY DEF Api!Malformed, Authorised, Admission
<1>3. ~Api!LeavesNoAdmin(q.call, q.at) /\ ~Api!NameInUse(q.call) /\ ~Api!Unknown(q.call)
  BY ApiViews DEF Api!LeavesNoAdmin, Api!NameInUse, Api!Unknown
<1> QED BY <1>1, <1>2, <1>3 DEF Api!Refusals

\* A revocation that found its principal, and another admin.
LEMMA RevocationServed ==
  ASSUME SerialInv, NEW q \in Request, q.at <= now, NEW c, Authorised(q, c),
         q.call.op = "revoke", ActiveAdminsExcluding(q.call.id) # {},
         q.call.id \in DOMAIN principals, ~principals[q.call.id].revoked
  PROVE  Api!Refusals(q.key, q.call, q.at) = {}
<1>1. Api!Holders(q.key, q.at) # {} /\ ~Api!Unprivileged(q.key, q.call, q.at)
  BY Privileged
<1>2. ~Api!Malformed(q.call, q.at) /\ ~Api!NameInUse(q.call)
  BY DEF Api!Malformed, Api!NameInUse
<1>3. ~Api!LeavesNoAdmin(q.call, q.at)
  <2>1. PICK j \in ActiveAdminsExcluding(q.call.id) : TRUE
    OBVIOUS
  <2>2. j \in AdminsAt(q.at) /\ j # q.call.id
    BY <2>1, CountSees DEF SerialInv, TableInv, Request
  <2> QED BY <2>2, ApiViews DEF Api!LeavesNoAdmin
<1>4. ~Api!Unknown(q.call)
  BY ApiViews DEF Api!Unknown, EntryOf
<1> QED BY <1>1, <1>2, <1>3, <1>4 DEF Api!Refusals

\* A principal that asks for itself.
LEMMA MeServed ==
  ASSUME NEW q, q.call.op = "me", Api!Holders(q.key, q.at) # {}
  PROVE  Api!Refusals(q.key, q.call, q.at) = {}
BY DEF Api!Refusals, Api!Malformed, Api!Unprivileged, Api!LeavesNoAdmin, Api!NameInUse, Api!Unknown

-----------------------------------------------------------------------------
(* Steps of a request as the client sees them.                             *)

\* What a request in flight asks, and that it has heard nothing.
LEMMA InService ==
  ASSUME TypeInv, NEW r \in Requests, pc[r] \in Stages
  PROVE  /\ req[r] \in Request
         /\ Asks[r] # NULL /\ Asks[r].key = req[r].key /\ Asks[r].call = req[r].call
         /\ Asks[r].since = req[r].at
         /\ pc[r] # "audit" => Outcomes[r] = NULL
<1>1. req[r] \in Request /\ req[r] # NULL
  BY NullIsNoRecord DEF TypeInv, StagesOK, StageOK
<1>2. [key |-> req[r].key, call |-> req[r].call, since |-> req[r].at] \in
        [key : Nat, call : Call, since : Nat]
  BY <1>1 DEF Request
<1>3. Asks[r] = [key |-> req[r].key, call |-> req[r].call, since |-> req[r].at]
  BY <1>1 DEF Asks
<1>4. pc[r] # "audit" => Outcomes[r] = NULL
  BY DEF Outcomes, Outcome, Stages, AdminStages
<1> QED BY <1>1, <1>2, <1>3, <1>4, NullIsNoRecord

\* A step of r changes what r has heard, if anything.
LEMMA OneHears ==
  ASSUME TypeInv, NEW r \in Requests, Step(r), NEW o, Outcome(r)' = o
  PROVE  Outcomes' = [Outcomes EXCEPT ![r] = o]
<1>1. ASSUME NEW s \in Requests, s # r PROVE Outcome(s)' = Outcome(s)
  <2>1. /\ pc'[s] = pc[s] /\ reply'[s] = reply[s] /\ req'[s] = req[s]
        /\ caller'[s] = caller[s] /\ current'[s] = current[s]
        /\ newExpires'[s] = newExpires[s] /\ minted'[s] = minted[s]
    BY <1>1, OthersAlone
  <2>2. Told(s)' = Told(s)
    BY <2>1 DEF Told, TargetRole
  <2> QED BY <2>1, <2>2 DEF Outcome
<1> QED BY <1>1 DEF Outcomes

\* What an answer says.
LEMMA AnswerSays ==
  ASSUME TypeInv, NEW r \in Requests, NEW status, Answer(r, status)
  PROVE  /\ pc'[r] = "done" /\ reply'[r] = status
         /\ status \in {400, 401, 403, 404} => Outcome(r)' = Api!Refused(status)
         /\ status = 200 =>
              Outcome(r)' = [status |-> 200, about |-> Told(r)',
                             key |-> IF minted'[r] = NULL THEN NULL ELSE minted'[r].key]
<1>1. pc'[r] = "done" /\ reply'[r] = status
  BY DEF Answer, TypeInv, TypeOK
<1>2. NULL \notin {400, 401, 403, 404}
  BY ConstantsOK
<1> QED BY <1>1, <1>2 DEF Outcome, Api!Refused

\* A step from one section to the next is none to the client.
LEMMA Unheard ==
  ASSUME TypeInv, NEW r \in Requests, Step(r), pc[r] \in Stages \ {"audit"},
         NEW stage \in Stages \ {"audit"}, Goto(r, stage),
         UNCHANGED <<now, principals, lastKey, req>>
  PROVE  UNCHANGED Api!api
<1>1. pc'[r] = stage
  BY DEF Goto, TypeInv, TypeOK
<1>2. Outcome(r)' = NULL
  BY <1>1 DEF Outcome, Stages, AdminStages
<1>3. Outcomes' = [Outcomes EXCEPT ![r] = NULL] /\ Outcomes[r] = NULL
  BY <1>2, OneHears, InService
<1>4. Outcomes' = Outcomes
  BY <1>3 DEF Outcomes
<1> QED BY <1>4 DEF Api!api, Entries, Asks

\* An answer that refuses, for a documented reason.
LEMMA Refuses ==
  ASSUME TypeInv, NEW r \in Requests, Step(r), pc[r] \in Stages \ {"audit"},
         NEW status \in {400, 401, 403, 404}, Answer(r, status),
         NEW t, t \in req[r].at..now, status \in Api!Refusals(req[r].key, req[r].call, t),
         UNCHANGED <<now, principals, lastKey, req>>
  PROVE  Api!Next
<1>1. Outcomes' = [Outcomes EXCEPT ![r] = Api!Refused(status)]
  <2>1. PICK o : o = Api!Refused(status)
    OBVIOUS
  <2>2. Outcome(r)' = o
    BY <2>1, AnswerSays
  <2> QED BY <2>1, <2>2, OneHears
<1>2. /\ Asks[r] # NULL /\ Asks[r].key = req[r].key /\ Asks[r].call = req[r].call
      /\ t \in Api!Meanwhile(r) /\ Outcomes[r] = NULL
  BY InService DEF Api!Meanwhile
<1>3. UNCHANGED <<now, Entries(principals), lastKey, Asks>>
  BY DEF Entries, Asks
<1>4. Api!Refuse(r)
  BY <1>1, <1>2, <1>3 DEF Api!Refuse
<1>5. Api!Handle(r)
  BY <1>2, <1>3, <1>4 DEF Api!Handle
<1> QED BY <1>5 DEF Api!Next

\* An answer that serves: what is left to show is that the call's effect on
\* the table and what is told are those documented.
LEMMA Serves ==
  ASSUME TypeInv, NEW r \in Requests, pc[r] \in Stages \ {"audit"},
         UNCHANGED <<now, req>>, Api!Serve(r)
  PROVE  Api!Next
<1>1. Asks[r] # NULL /\ Outcomes[r] = NULL /\ Asks' = Asks
  BY InService DEF Asks
<1>2. Api!Handle(r)
  BY <1>1 DEF Api!Handle
<1> QED BY <1>2 DEF Api!Next

\* A connection that is given up.
LEMMA AbandonLeaves ==
  ASSUME TypeInv, NEW r \in Requests, Abandon(r)
  PROVE  Api!Next
<1>1. pc[r] \in Stages /\ pc'[r] = "gone"
  BY DEF Abandon, InFlight, Goto, TypeInv, TypeOK
<1>2. Outcome(r)' = Api!Lost
  BY <1>1 DEF Outcome, Api!Lost
<1>3. Outcomes' = [Outcomes EXCEPT ![r] = Api!Lost]
  <2>1. PICK o : o = Api!Lost
    OBVIOUS
  <2> QED BY <1>2, <2>1, OneHears DEF Step
<1>4. Asks[r] # NULL
  BY <1>1, InService
<1>5. Api!Leave(r)
  BY <1>3, <1>4 DEF Api!Leave, Abandon, Database, Entries, Asks
<1> QED BY <1>5 DEF Api!Next

\* A request that arrives.
LEMMA ReceiveAsks ==
  ASSUME SerialInv, NEW r \in Requests, Receive(r)
  PROVE  Api!Next
<1>1. TypeInv /\ Known(r) /\ pc[r] = "idle" /\ pc'[r] = "auth"
  BY DEF Receive, SerialInv, TableInv, Goto, TypeInv, TypeOK
<1>2. Outcome(r)' = NULL /\ Outcome(r) = NULL
  BY <1>1 DEF Outcome
<1>3. Outcomes' = Outcomes
  <2>1. Outcomes' = [Outcomes EXCEPT ![r] = NULL]
    BY <1>1, <1>2, OneHears DEF Step
  <2> QED BY <1>2, <2>1 DEF Outcomes
<1>4. PICK key \in 0..lastKey, call \in Calls :
        req' = [req EXCEPT ![r] = [key |-> key, at |-> now, call |-> call]]
  BY DEF Receive
<1>5. [key |-> key, at |-> now, call |-> call] \in Request
  BY <1>1, <1>4, ConstantsOK DEF TypeInv, TypeOK, Request
<1>6. /\ Asks[r] = NULL
      /\ Asks' = [Asks EXCEPT ![r] = [key |-> key, call |-> call, since |-> now]]
  <2>1. PICK q : q = [key |-> key, at |-> now, call |-> call]
    OBVIOUS
  <2>2. q # NULL /\ q.key = key /\ q.call = call /\ q.at = now
    BY <1>5, <2>1, NullIsNoRecord
  <2>3. req' = [req EXCEPT ![r] = q] /\ req[r] = NULL
    BY <1>1, <1>4, <2>1 DEF Known
  <2>4. req \in [Requests -> Request \union {NULL}]
    BY <1>1 DEF TypeInv, TypeOK
  <2> QED BY <2>2, <2>3, <2>4 DEF Asks
<1>7. UNCHANGED <<now, Entries(principals), lastKey>>
  BY DEF Receive, Database, Entries
<1>8. Api!Ask(r)
  BY <1>3, <1>4, <1>6, <1>7 DEF Api!Ask
<1> QED BY <1>8 DEF Api!Next

\* A revocation's audit row is written after its effect was seen.
LEMMA AuditUnheard ==
  ASSUME TypeInv, NEW r \in Requests, AuditRevoke(r)
  PROVE  UNCHANGED Api!api
<1>1. /\ pc[r] = "audit" /\ reply[r] = NULL /\ req[r].call.op = "revoke"
      /\ UNCHANGED <<now, principals, lastKey, req, minted>> /\ Answer(r, 200)
  BY DEF AuditRevoke, TypeInv, StagesOK, StageOK, Stages, AdminStages
<1>2. Told(r)' = NULL /\ Told(r) = NULL
  BY <1>1 DEF Told
<1>3. Outcome(r)' = Outcome(r)
  BY <1>1, <1>2, AnswerSays DEF Outcome
<1>4. Outcomes' = Outcomes
  <2>1. PICK o : o = Outcome(r)
    OBVIOUS
  <2>2. Outcomes' = [Outcomes EXCEPT ![r] = o]
    BY <1>3, <2>1, OneHears DEF Step
  <2> QED BY <2>1, <2>2 DEF Outcomes
<1> QED BY <1>1, <1>4 DEF Api!api, Entries, Asks

-----------------------------------------------------------------------------
(* Each handler as the client sees it.                                     *)

\* An upsert that has updated its row, or found nothing to update.
LEMMA UpdateServes ==
  ASSUME SerialInv, NEW r \in Requests, Step(r), pc[r] \in UpsertStages \ {"create"},
         Answer(r, 200), NEW p, current'[r] = p, FoundByName(req[r].call, p),
         Counted(req[r], p), NewNameFree(req[r].call, p),
         NEW t, t \in req[r].at..now, Plannable(req[r].call.ttl, t),
         newExpires'[r] = Planned(req[r].call, t),
         UNCHANGED <<now, lastKey, req, minted>>, DOMAIN principals' = DOMAIN principals,
         \A j \in DOMAIN principals : j # p.id => principals'[j] = principals[j],
         EntryOf(principals'[p.id]) =
           [EntryOf(principals[p.id]) EXCEPT !.name = Api!Either(req[r].call.rename, @),
                                             !.role = Api!Either(req[r].call.role, @),
                                             !.expires = Api!Expires(req[r].call, @, t)]
  PROVE  Api!Next
<1>1. /\ TypeInv /\ pc[r] \in Stages \ {"auth", "audit"}
      /\ req[r] \in Request /\ req[r].call.op = "upsert" /\ minted'[r] = NULL
      /\ Authorised(req[r], caller[r]) /\ req[r].at <= now
  BY DEF SerialInv, TableInv, TypeInv, StagesOK, StageOK, UpsertStages, Stages, AdminStages,
     Known, Knows
<1>2. PICK q \in Request : q = req[r]
  BY <1>1
<1>3. Api!Refusals(q.key, q.call, q.at) = {}
  BY <1>1, <1>2, UpsertServed
<1>4. /\ p.id \in DOMAIN principals /\ p.id \in FindActive(q.call.name)
      /\ p.name = principals[p.id].name /\ p.role = principals[p.id].role
      /\ p.expires_at = principals[p.id].expires_at
  BY <1>2 DEF FoundByName, FindActive, PrincipalOf
<1>5. PICK row : row = [EntryOf(principals[p.id]) EXCEPT !.name = Api!Either(q.call.rename, @),
                          !.role = Api!Either(q.call.role, @),
                          !.expires = Api!Expires(q.call, @, t)]
  OBVIOUS
<1>6. /\ row.name = IF q.call.rename = NULL THEN p.name ELSE q.call.rename
      /\ row.role = IF q.call.role = NULL THEN p.role ELSE q.call.role
      /\ row.expires = IF newExpires'[r].set THEN newExpires'[r].at ELSE p.expires_at
  <2>1. /\ row.name = Api!Either(q.call.rename, principals[p.id].name)
        /\ row.role = Api!Either(q.call.role, principals[p.id].role)
        /\ row.expires = Api!Expires(q.call, principals[p.id].expires_at, t)
    BY <1>5 DEF EntryOf
  <2>2. row.expires = IF newExpires'[r].set THEN newExpires'[r].at ELSE p.expires_at
    BY <1>2, <1>4, <2>1 DEF Planned, KeepExpiry, Api!Expires
  <2> QED BY <1>4, <2>1, <2>2 DEF Api!Either
<1>7. Told(r)' = [id |-> p.id, name |-> row.name, role |-> row.role, expires_at |-> row.expires]
  BY <1>1, <1>2, <1>6 DEF Told, TargetRole
<1>8. PICK o : o = Api!Told(row, p.id, NULL)
  OBVIOUS
<1>9. Outcome(r)' = o
  BY <1>1, <1>7, <1>8, AnswerSays DEF Api!Told
<1>10. Outcomes' = [Outcomes EXCEPT ![r] = Api!Told(row, p.id, NULL)]
  BY <1>1, <1>8, <1>9, OneHears
<1>11. Entries(principals)' = [Entries(principals) EXCEPT ![p.id] = row]
  BY <1>2, <1>4, <1>5, EntryWritten
<1>12. Entries(principals)[p.id] = EntryOf(principals[p.id]) /\ p.id \in Api!Named(q.call.name)
  BY <1>4, ApiViews
<1>13. Api!Update(r, p.id, q.call, t)
  BY <1>5, <1>10, <1>11, <1>12 DEF Api!Update
<1>14. /\ Asks[r].key = q.key /\ Asks[r].call = q.call /\ Asks[r].since = q.at
       /\ t \in Api!Meanwhile(r)
  BY <1>1, <1>2, InService DEF Api!Meanwhile
<1>15. Api!Serve(r)
  BY <1>1, <1>2, <1>3, <1>12, <1>13, <1>14 DEF Api!Serve
<1> QED BY <1>1, <1>15, Serves

\* From the last check on: a ttl that overflows is refused, an upsert that
\* changes nothing answered.
LEMMA EnterUpdateMaps ==
  ASSUME SerialInv, NEW r \in Requests, Step(r), pc[r] \in UpsertStages \ {"create"},
         NEW p, EnterUpdate(r, p), current' = [current EXCEPT ![r] = p],
         UNCHANGED <<now, principals, lastKey, req, minted>>,
         FoundByName(req[r].call, p), Counted(req[r], p), NewNameFree(req[r].call, p)
  PROVE  [Api!Next]_(Api!api)
<1>1. /\ TypeInv /\ pc[r] \in Stages \ {"audit"}
      /\ req[r].call.op = "upsert" /\ current'[r] = p
      /\ now \in req[r].at..now /\ req[r].call.ttl \in Nat \union {NULL}
  BY DEF SerialInv, TableInv, TypeInv, TypeOK, StagesOK, StageOK, UpsertStages, Stages, AdminStages,
     Known, Knows, Request, Call
<1>2. CASE TtlOverflows(req[r].call.ttl) /\ Answer(r, 400)
  <2>1. Api!Malformed(req[r].call, now)
    BY <1>1, <1>2 DEF TtlOverflows, Api!Malformed
  <2>2. 400 \in Api!Refusals(req[r].key, req[r].call, now)
    BY <2>1 DEF Api!Refusals
  <2> QED BY <1>1, <1>2, <2>2, Refuses
<1>3. CASE Goto(r, "update")
  BY <1>1, <1>3, Unheard DEF Stages, AdminStages
<1>4. CASE /\ ~TtlOverflows(req[r].call.ttl) /\ Answer(r, 200)
           /\ newExpires' = [newExpires EXCEPT ![r] = Planned(req[r].call, now)]
           /\ ~HasUpdates(r, p, Planned(req[r].call, now))
  <2>1. PICK call, t : call = req[r].call /\ t = now
    OBVIOUS
  <2>2. /\ call.rename = NULL /\ ~Planned(call, now).set
        /\ call.role = NULL \/ call.role = p.role
    BY <1>4, <2>1 DEF HasUpdates, TargetRole
  <2>3. ~call.clear_ttl /\ call.ttl = NULL
    BY <2>2 DEF Planned
  <2>4. PICK entry : entry = EntryOf(principals[p.id])
    OBVIOUS
  <2>5. entry = [entry EXCEPT !.name = Api!Either(call.rename, @),
                              !.role = Api!Either(call.role, @),
                              !.expires = Api!Expires(call, @, t)]
    <3>1. entry.role = p.role
      BY <2>4 DEF FoundByName, PrincipalOf, EntryOf
    <3>2. /\ Api!Either(call.rename, entry.name) = entry.name
          /\ Api!Either(call.role, entry.role) = entry.role
          /\ Api!Expires(call, entry.expires, t) = entry.expires
      BY <2>2, <2>3, <3>1 DEF Api!Either, Api!Expires
    <3> QED BY <2>4, <3>2 DEF EntryOf
  <2>6. EntryOf(principals'[p.id]) = entry
    BY <2>4
  <2>7. Plannable(req[r].call.ttl, t) /\ t \in req[r].at..now
    BY <1>1, <1>4, <2>1, FitsNow
  <2>8. newExpires'[r] = Planned(req[r].call, t)
    BY <1>1, <1>4, <2>1 DEF TypeInv, TypeOK
  <2>9. /\ Answer(r, 200) /\ DOMAIN principals' = DOMAIN principals
        /\ \A j \in DOMAIN principals : j # p.id => principals'[j] = principals[j]
        /\ UNCHANGED <<now, lastKey, req, minted>>
    BY <1>4
  <2>10. EntryOf(principals'[p.id]) =
           [EntryOf(principals[p.id]) EXCEPT !.name = Api!Either(req[r].call.rename, @),
                                             !.role = Api!Either(req[r].call.role, @),
                                             !.expires = Api!Expires(req[r].call, @, t)]
    BY <2>1, <2>4, <2>5, <2>6
  <2>11. Api!Next
    BY <1>1, <2>7, <2>8, <2>9, <2>10, UpdateServes
  <2> QED BY <2>11
<1> QED BY <1>2, <1>3, <1>4 DEF EnterUpdate, Planned

\* From the lookup or the count on.
LEMMA EnterRenameMaps ==
  ASSUME SerialInv, NEW r \in Requests, Step(r), pc[r] \in UpsertStages \ {"create"},
         NEW p, EnterRename(r, p), current' = [current EXCEPT ![r] = p],
         UNCHANGED <<now, principals, lastKey, req, minted>>,
         FoundByName(req[r].call, p), Counted(req[r], p)
  PROVE  [Api!Next]_(Api!api)
<1>1. TypeInv /\ pc[r] \in Stages \ {"audit"}
  BY DEF SerialInv, TableInv, UpsertStages, Stages, AdminStages
<1>2. CASE Goto(r, "check_rename")
  BY <1>1, <1>2, Unheard DEF Stages, AdminStages
<1>3. CASE ~Renaming(req[r].call, p) /\ EnterUpdate(r, p)
  BY <1>3, EnterUpdateMaps DEF NewNameFree
<1> QED BY <1>1, <1>2, <1>3, AsksFor DEF EnterRename

\* The lookup by name.
LEMMA FindMaps ==
  ASSUME SerialInv, NEW r \in Requests, FindForUpsert(r)
  PROVE  [Api!Next]_(Api!api)
<1>1. /\ TypeInv /\ Step(r) /\ pc[r] \in Stages \ {"audit"}
      /\ pc[r] \in UpsertStages \ {"create"} /\ req[r].call.op = "upsert"
      /\ now \in req[r].at..now
      /\ UNCHANGED <<now, principals, lastKey, req, minted>>
  BY DEF FindForUpsert, Step, Database, SerialInv, TableInv, TypeInv, TypeOK, StagesOK, StageOK,
     UpsertStages, Stages, AdminStages, Known, Knows
<1>2. CASE /\ FindActive(req[r].call.name) = {} /\ req[r].call.rename # NULL
           /\ Answer(r, 404)
  <2>1. Api!Unknown(req[r].call)
    BY <1>1, <1>2, ApiViews DEF Api!Unknown
  <2>2. 404 \in Api!Refusals(req[r].key, req[r].call, now)
    BY <2>1 DEF Api!Refusals
  <2> QED BY <1>1, <1>2, <2>2, Refuses
<1>3. CASE Goto(r, "create") \/ Goto(r, "count_admins")
  BY <1>1, <1>3, Unheard DEF Stages, AdminStages
<1>4. ASSUME NEW i \in FindActive(req[r].call.name),
             current' = [current EXCEPT ![r] = PrincipalOf(i)],
             ~DemotesAdmin(r, PrincipalOf(i)), EnterRename(r, PrincipalOf(i))
      PROVE  [Api!Next]_(Api!api)
  <2>1. PICK p : p = PrincipalOf(i)
    OBVIOUS
  <2>2. FoundByName(req[r].call, p)
    BY <1>1, <2>1, RowTyped DEF FindActive, FoundByName, TypeInv, TypeOK
  <2>3. Counted(req[r], p)
    BY <1>1, <1>4, <2>1, AsksFor DEF Counted
  <2> QED BY <1>1, <1>4, <2>1, <2>2, <2>3, EnterRenameMaps
<1> QED BY <1>2, <1>3, <1>4 DEF FindForUpsert

\* The count, and the lookup of the new name.
LEMMA CheckMaps ==
  ASSUME SerialInv, NEW r \in Requests, CountAdmins(r) \/ CheckRename(r)
  PROVE  [Api!Next]_(Api!api)
<1>1. /\ TypeInv /\ Step(r) /\ pc[r] \in {"count_admins", "check_rename"}
      /\ pc[r] \in Stages \ {"audit"}
      /\ pc[r] \in UpsertStages \ {"create"}
      /\ req[r] \in Request /\ req[r].call.op = "upsert"
      /\ UNCHANGED <<now, principals, lastKey, req, minted>>
      /\ Knows(pc[r], req[r], caller[r], current[r], newExpires[r])
      /\ now \in Nat
  BY DEF CountAdmins, CheckRename, Step, Database, SerialInv, TableInv, TypeInv, TypeOK, StagesOK,
     StageOK, UpsertStages, Stages, AdminStages, Known
<1>2. PICK p : p = current[r]
  OBVIOUS
<1>3. /\ current' = [current EXCEPT ![r] = p] /\ FoundByName(req[r].call, p)
      /\ pc[r] = "check_rename" => Counted(req[r], p) /\ Renaming(req[r].call, p)
      /\ pc[r] = "count_admins" => Demoting(req[r].call, p)
      /\ now \in req[r].at..now
  BY <1>1, <1>2, CurrentKept DEF CountAdmins, CheckRename, Knows, Stages, AdminStages
<1>4. CASE CountAdmins(r) /\ ActiveAdminsExcluding(p.id) = {} /\ Answer(r, 403)
  <2>1. Api!Admins(now) \subseteq {p.id}
    BY <1>4, NobodyCounted
  <2>2. p.id \in Api!Named(req[r].call.name) /\ Entries(principals)[p.id].role = p.role
    BY <1>3, ApiViews DEF FoundByName, FindActive, PrincipalOf, EntryOf
  <2>3. Api!LeavesNoAdmin(req[r].call, now)
    BY <1>1, <1>3, <1>4, <2>1, <2>2 DEF Api!LeavesNoAdmin, Demoting, CountAdmins
  <2>4. 403 \in Api!Refusals(req[r].key, req[r].call, now)
    BY <2>3 DEF Api!Refusals
  <2> QED BY <1>1, <1>3, <1>4, <2>4, Refuses
<1>5. CASE ActiveAdminsExcluding(p.id) # {} /\ EnterRename(r, p)
  <2>1. Counted(req[r], p)
    BY <1>1, <1>5, CountedSince DEF Knows
  <2> QED BY <1>1, <1>3, <1>5, <2>1, EnterRenameMaps
<1>6. CASE /\ pc[r] = "check_rename" /\ FindActive(req[r].call.rename) # {}
           /\ Answer(r, 400)
  <2>1. p.name = req[r].call.name
    BY <1>3 DEF FoundByName, FindActive, PrincipalOf
  <2>2. Api!NameInUse(req[r].call)
    BY <1>1, <1>3, <1>6, <2>1, ApiViews DEF Api!NameInUse, Renaming
  <2>3. 400 \in Api!Refusals(req[r].key, req[r].call, now)
    BY <2>2 DEF Api!Refusals
  <2> QED BY <1>1, <1>3, <1>6, <2>3, Refuses
<1>7. CASE /\ pc[r] = "check_rename"
           /\ FindActive(req[r].call.rename) = {} /\ EnterUpdate(r, p)
  BY <1>1, <1>3, <1>7, EnterUpdateMaps DEF NewNameFree
<1>8. CASE CountAdmins(r)
  BY <1>2, <1>4, <1>5, <1>8 DEF CountAdmins
<1>9. CASE CheckRename(r)
  BY <1>2, <1>6, <1>7, <1>9 DEF CheckRename
<1> QED BY <1>8, <1>9

\* The UPDATE: alone, it is never refused, and writes what was asked for.
LEMMA UpdateMaps ==
  ASSUME SerialInv, NEW r \in Requests, UpdatePrincipal(r)
  PROVE  Api!Next
<1>1. /\ TypeInv /\ TableInv /\ Step(r) /\ pc[r] = "update" /\ pc[r] \in UpsertStages \ {"create"}
      /\ req[r] \in Request /\ current' = current /\ newExpires' = newExpires
      /\ UNCHANGED <<now, lastKey, req, minted>>
      /\ Knows("update", req[r], caller[r], current[r], newExpires[r])
  BY DEF UpdatePrincipal, Step, Snapshots, SerialInv, TableInv, TypeInv, StagesOK,
     StageOK, UpsertStages, Stages, AdminStages, Known
<1>2. PICK p : p = current[r]
  OBVIOUS
<1>3. PICK call \in Call : call = req[r].call
  BY <1>1 DEF Request
<1>4. /\ FoundByName(call, p) /\ Counted(req[r], p) /\ NewNameFree(call, p)
      /\ p.id \in DOMAIN principals /\ p.name = principals[p.id].name
      /\ p.role = principals[p.id].role /\ ~principals[p.id].revoked
  BY <1>1, <1>2, <1>3 DEF Knows, FoundByName, FindActive, PrincipalOf
<1>. PICK t \in req[r].at..now : Plannable(call.ttl, t) /\ newExpires[r] = Planned(call, t)
  BY <1>1, <1>3 DEF Knows, PlannedSince
<1>5. ~(call.rename # NULL /\ NameTaken(p.id, call.rename))
  <2> SUFFICES ASSUME call.rename # NULL, NEW j \in FindActive(call.rename), j # p.id PROVE FALSE
    BY DEF NameTaken
  <2>1. ~Renaming(call, p)
    BY <1>4 DEF NewNameFree
  <2>2. p.id \in FindActive(call.rename)
    BY <1>4, <2>1 DEF Renaming, FindActive
  <2> QED BY <1>1, <2>2, OneByName
<1>6. /\ principals' = [principals EXCEPT ![current[r].id] = Updated(r, @)]
      /\ Answer(r, 200)
  BY <1>2, <1>3, <1>5 DEF UpdatePrincipal
<1>7. /\ DOMAIN principals' = DOMAIN principals
      /\ \A j \in DOMAIN principals : j # p.id => principals'[j] = principals[j]
      /\ principals'[p.id] = Updated(r, principals[p.id])
  BY <1>1, <1>2, <1>4, <1>6, UpdateWrites
<1>8. PICK row \in Row : row = principals[p.id]
  BY <1>1, <1>4, RowTyped DEF TypeInv, TypeOK
<1>9. PICK new : new = Updated(r, row)
  OBVIOUS
<1>10. /\ new.key_hash = row.key_hash /\ new.revoked = row.revoked
       /\ new.name = Api!Either(call.rename, row.name)
  BY <1>1, <1>3, <1>8, <1>9, UpdatedTyped DEF Api!Either
<1>11. new.role = Api!Either(call.role, row.role)
  BY <1>2, <1>3, <1>4, <1>8, <1>9 DEF Updated, TargetRole, Api!Either, Row
<1>12. new.expires_at = Api!Expires(call, row.expires_at, t)
  BY <1>4, <1>8, <1>9 DEF Updated, Planned, KeepExpiry, Api!Expires, Row
<1>13. EntryOf(new) = [EntryOf(row) EXCEPT !.name = Api!Either(call.rename, @),
                                           !.role = Api!Either(call.role, @),
                                           !.expires = Api!Expires(call, @, t)]
  <2>1. PICK name, role, expires : /\ name = Api!Either(call.rename, row.name)
                                   /\ role = Api!Either(call.role, row.role)
                                   /\ expires = Api!Expires(call, row.expires_at, t)
    OBVIOUS
  <2>2. EntryOf(new) = [EntryOf(row) EXCEPT !.name = name, !.role = role, !.expires = expires]
    <3> DEFINE Entry(n, o, e) == [name |-> n, role |-> o, key |-> row.key_hash[2],
                                  revoked |-> row.revoked, expires |-> e]
    <3>1. PICK a : a = [EntryOf(row) EXCEPT !.name = name]
      OBVIOUS
    <3>2. a = Entry(name, row.role, row.expires_at)
      BY <3>1 DEF EntryOf
    <3>3. PICK b : b = [a EXCEPT !.role = role]
      OBVIOUS
    <3>4. b = Entry(name, role, row.expires_at)
      BY <3>2, <3>3
    <3>5. [b EXCEPT !.expires = expires] = Entry(name, role, expires)
      BY <3>4
    <3>6. [EntryOf(row) EXCEPT !.name = name, !.role = role, !.expires = expires] =
            [b EXCEPT !.expires = expires]
      BY <3>1, <3>3
    <3>7. EntryOf(new) = Entry(name, role, expires)
      BY <1>10, <1>11, <1>12, <2>1 DEF EntryOf
    <3> QED BY <3>5, <3>6, <3>7
  <2>3. /\ EntryOf(row).name = row.name /\ EntryOf(row).role = row.role
        /\ EntryOf(row).expires = row.expires_at
    BY DEF EntryOf
  <2> QED BY <2>1, <2>2, <2>3
<1> QED BY <1>1, <1>2, <1>3, <1>4, <1>6, <1>7, <1>8, <1>9, <1>13, UpdateServes

\* The INSERT.
LEMMA CreateMaps ==
  ASSUME SerialInv, TtlsFit, NEW r \in Requests, CreatePrincipal(r)
  PROVE  Api!Next
<1>1. /\ TypeInv /\ Step(r) /\ pc[r] = "create" /\ pc[r] \in Stages \ {"audit"}
      /\ req[r] \in Request /\ req[r].call.op = "upsert"
      /\ UNCHANGED <<now, req>>
      /\ Knows("create", req[r], caller[r], current[r], newExpires[r])
  BY DEF CreatePrincipal, Step, SerialInv, TableInv, TypeInv, StagesOK,
     StageOK, UpsertStages, Stages, AdminStages, Known
<1>2. PICK q \in Request : q = req[r]
  BY <1>1
<1>3. /\ Authorised(q, caller[r]) /\ FindActive(q.call.name) = {}
      /\ q.call.rename = NULL /\ q.call \in Calls /\ q.call \in Call
  BY <1>1, <1>2, ConstantsOK DEF Knows, Stages, AdminStages
<1>4. now \in Nat /\ now <= MaxTime /\ lastKey \in Nat /\ q.at <= now /\ now \in q.at..now
  BY <1>1, <1>2 DEF SerialInv, TypeInv, TypeOK, Knows, Request
<1>5. ~TtlOverflows(q.call.ttl) /\ Plannable(q.call.ttl, now)
  BY <1>1, <1>2, <1>3, <1>4, ConstantsOK DEF TtlsFit, TtlOverflows, Plannable, Call
<1>6. Api!Refusals(q.key, q.call, q.at) = {}
  BY <1>1, <1>2, <1>3, <1>4, <1>5, CreationServed
<1>7. PICK row \in Row :
        row = [name |-> q.call.name, key_hash |-> HashKey(lastKey + 1),
               role |-> IF q.call.role = NULL THEN "reader" ELSE q.call.role,
               revoked |-> FALSE, expires_at |-> ExpiryOfNew(q.call.ttl)]
  BY <1>1, <1>2, NewRowTyped
<1>8. /\ principals' = Append(principals, row)
      /\ AnswerWithKey(r, Len(principals) + 1, ExpiryOfNew(q.call.ttl))
  BY <1>2, <1>3, <1>7 DEF CreatePrincipal
<1>9. principals \in Seq(Row) /\ Len(principals) \in Nat
  BY <1>1, LenProperties DEF TypeInv, TypeOK
<1>10. PICK n : n = Len(principals) + 1
  OBVIOUS
<1>11. /\ Answer(r, 200) /\ lastKey' = lastKey + 1
       /\ minted'[r] = [id |-> n, key |-> lastKey + 1, expires_at |-> row.expires_at]
       /\ minted'[r] # NULL
  <2>1. PICK expires \in Nat \union {NULL} : expires = ExpiryOfNew(q.call.ttl)
    BY <1>1, <1>2, ExpiryOfNewTyped
  <2>2. [id |-> n, key |-> lastKey + 1, expires_at |-> expires] \in CreatedKey
    BY <1>4, <1>9, <1>10 DEF CreatedKey
  <2>3. row.expires_at = expires
    BY <1>7, <2>1
  <2> QED BY <1>1, <1>8, <1>10, <2>1, <2>2, <2>3, NullIsNoRecord DEF AnswerWithKey, TypeInv, TypeOK
<1>12. ~(q.call.clear_ttl /\ q.call.ttl # NULL)
  BY <1>1, <1>2, <1>3 DEF Authorised, Admission, BadBody
<1>13. EntryOf(row) = [name |-> q.call.name, role |-> Api!Either(q.call.role, "reader"),
                       key |-> lastKey + 1, revoked |-> FALSE,
                       expires |-> Api!Expires(q.call, NULL, now)]
  BY <1>5, <1>7, <1>12 DEF EntryOf, HashKey, ExpiryOfNew, Api!Either, Api!Expires
<1>14. PICK entry : entry = EntryOf(row)
  OBVIOUS
<1>15. Entries(principals)' = Append(Entries(principals), entry)
  BY <1>8, <1>9, <1>14, EntryAdded
<1>16. Len(Entries(principals)) + 1 = n
  BY <1>9, <1>10, EntriesTyped
<1>17. Told(r)' = [id |-> n, name |-> entry.name, role |-> entry.role,
                   expires_at |-> entry.expires]
  <2>1. entry.expires = row.expires_at
    BY <1>14 DEF EntryOf
  <2> QED BY <1>1, <1>2, <1>11, <1>13, <1>14, <2>1 DEF Told, Api!Either
<1>18. PICK o : o = Api!Told(entry, n, lastKey + 1)
  OBVIOUS
<1>19. Outcome(r)' = o
  BY <1>1, <1>11, <1>17, <1>18, AnswerSays DEF Api!Told
<1>20. Outcomes' = [Outcomes EXCEPT ![r] = Api!Told(entry, n, lastKey + 1)]
  BY <1>1, <1>18, <1>19, OneHears
<1>21. Api!Create(r, q.call, now)
  BY <1>11, <1>13, <1>14, <1>15, <1>16, <1>20 DEF Api!Create
<1>22. /\ Asks[r].key = q.key /\ Asks[r].call = q.call /\ Asks[r].since = q.at
       /\ now \in Api!Meanwhile(r)
  BY <1>1, <1>2, <1>4, InService DEF Api!Meanwhile
<1>23. Api!Serve(r)
  BY <1>1, <1>2, <1>3, <1>6, <1>21, <1>22, ApiViews DEF Api!Serve
<1> QED BY <1>1, <1>23, Serves

\* A rotation's lookup.
LEMMA FindForRotateMaps ==
  ASSUME SerialInv, NEW r \in Requests, FindForRotate(r)
  PROVE  [Api!Next]_(Api!api)
<1>1. /\ TypeInv /\ Step(r) /\ pc[r] \in Stages \ {"audit"} /\ req[r].call.op = "rotate"
      /\ now \in req[r].at..now
      /\ UNCHANGED <<now, principals, lastKey, req>>
  BY DEF FindForRotate, Step, Database, SerialInv, TableInv, TypeInv, TypeOK, StagesOK, StageOK,
     Stages, Known, Knows
<1>2. CASE FindActive(req[r].call.name) = {} /\ Answer(r, 404)
  <2>1. Api!Unknown(req[r].call)
    BY <1>1, <1>2, ApiViews DEF Api!Unknown
  <2>2. 404 \in Api!Refusals(req[r].key, req[r].call, now)
    BY <2>1 DEF Api!Refusals
  <2> QED BY <1>1, <1>2, <2>2, Refuses
<1>3. CASE Goto(r, "rotate")
  BY <1>1, <1>3, Unheard DEF Stages
<1> QED BY <1>2, <1>3 DEF FindForRotate

\* The UPDATE of a rotation: alone, it finds the row as it was.
LEMMA RotateMaps ==
  ASSUME SerialInv, NEW r \in Requests, RotateKey(r)
  PROVE  Api!Next
<1>1. /\ TypeInv /\ Step(r) /\ pc[r] = "rotate" /\ pc[r] \in Stages \ {"audit"}
      /\ req[r] \in Request /\ req[r].call.op = "rotate" /\ lastKey \in Nat
      /\ UNCHANGED <<now, req, current>>
      /\ Knows("rotate", req[r], caller[r], current[r], newExpires[r])
  BY DEF RotateKey, Step, Snapshots, SerialInv, TableInv, TypeInv, TypeOK, StagesOK, StageOK,
     Stages, Known
<1>2. PICK q \in Request : q = req[r]
  BY <1>1
<1>3. PICK p : p = current[r]
  OBVIOUS
<1>4. /\ Authorised(q, caller[r]) /\ FoundByName(q.call, p)
      /\ p.id \in DOMAIN principals /\ p.id \in FindActive(q.call.name)
      /\ p = PrincipalOf(p.id) /\ ~principals[p.id].revoked /\ q.at <= now
  BY <1>1, <1>2, <1>3 DEF Knows, Stages, AdminStages, FoundByName, FindActive
<1>5. Api!Refusals(q.key, q.call, q.at) = {}
  BY <1>1, <1>2, <1>4, RotationServed
<1>6. PICK row \in Row : row = principals[p.id]
  BY <1>1, <1>4, RowTyped DEF TypeInv, TypeOK
<1>7. /\ principals' = [principals EXCEPT ![p.id].key_hash = HashKey(lastKey + 1)]
      /\ AnswerWithKey(r, p.id, p.expires_at)
  BY <1>3, <1>4 DEF RotateKey
<1>8. PICK new : new = [row EXCEPT !.key_hash = HashKey(lastKey + 1)]
  OBVIOUS
<1>9. /\ DOMAIN principals' = DOMAIN principals /\ principals'[p.id] = new
      /\ \A j \in DOMAIN principals : j # p.id => principals'[j] = principals[j]
  BY <1>4, <1>6, <1>7, <1>8
<1>10. EntryOf(new) = [EntryOf(row) EXCEPT !.key = lastKey + 1]
  BY <1>8 DEF EntryOf, HashKey, Row
<1>11. Entries(principals)[p.id] = EntryOf(row)
  BY <1>4, <1>6, ApiViews
<1>12. Entries(principals)' = [Entries(principals) EXCEPT ![p.id].key = lastKey + 1]
  BY <1>4, <1>9, <1>10, <1>11, EntryWritten
<1>13. p.id \in Nat
  BY <1>1, <1>4, RowTyped DEF TypeInv, TypeOK
<1>14. /\ Answer(r, 200) /\ lastKey' = lastKey + 1
       /\ minted'[r] = [id |-> p.id, key |-> lastKey + 1, expires_at |-> p.expires_at]
       /\ minted'[r] # NULL
  <2>1. p.expires_at \in Nat \union {NULL}
    BY <1>4, <1>6 DEF PrincipalOf, Row
  <2>2. [id |-> p.id, key |-> lastKey + 1, expires_at |-> p.expires_at] \in CreatedKey
    BY <1>1, <1>13, <2>1 DEF CreatedKey
  <2> QED BY <1>1, <1>7, <2>2, NullIsNoRecord DEF AnswerWithKey, TypeInv, TypeOK
<1>15. PICK o : o = Api!Told(EntryOf(row), p.id, lastKey + 1)
  OBVIOUS
<1>16. Told(r)' = [id |-> p.id, name |-> row.name, role |-> row.role,
                   expires_at |-> row.expires_at]
  BY <1>1, <1>3, <1>4, <1>6 DEF Told, PrincipalOf
<1>17. Outcome(r)' = o
  BY <1>1, <1>14, <1>15, <1>16, AnswerSays DEF Api!Told, EntryOf
<1>18. Outcomes' = [Outcomes EXCEPT ![r] = Api!Told(EntryOf(row), p.id, lastKey + 1)]
  BY <1>1, <1>15, <1>17, OneHears
<1>19. Api!Rotate(r, p.id)
  BY <1>11, <1>12, <1>14, <1>18 DEF Api!Rotate
<1>20. Asks[r].key = q.key /\ Asks[r].call = q.call /\ Asks[r].since = q.at
  BY <1>1, <1>2, InService
<1>21. Api!Serve(r)
  BY <1>1, <1>2, <1>4, <1>5, <1>19, <1>20, ApiViews DEF Api!Serve
<1> QED BY <1>1, <1>21, Serves

\* A revocation: refused, or in effect at once, its audit row still to come.
LEMMA RevokeMaps ==
  ASSUME SerialInv, NEW r \in Requests, RevokeKey(r)
  PROVE  Api!Next
<1>1. /\ TypeInv /\ Step(r) /\ pc[r] = "revoke" /\ pc[r] \in Stages \ {"audit"}
      /\ req[r] \in Request /\ req[r].call.op = "revoke" /\ reply[r] = NULL
      /\ UNCHANGED <<now, req, lastKey, minted>> /\ minted'[r] = NULL
      /\ Knows("revoke", req[r], caller[r], current[r], newExpires[r])
  BY DEF RevokeKey, Step, SerialInv, TableInv, TypeInv, StagesOK, StageOK, Stages, AdminStages, Known
<1>2. PICK q \in Request : q = req[r]
  BY <1>1
<1>3. Authorised(q, caller[r]) /\ q.at <= now /\ now \in q.at..now
  BY <1>1, <1>2 DEF Knows, Stages, AdminStages, TypeInv, TypeOK
<1>4. PICK id : id = q.call.id
  OBVIOUS
<1>5. CASE ActiveAdminsExcluding(id) = {} /\ Answer(r, 403) /\ UNCHANGED principals
  <2>1. Api!Admins(now) \subseteq {id}
    BY <1>5, NobodyCounted
  <2>2. Api!LeavesNoAdmin(q.call, now)
    BY <1>1, <1>2, <1>4, <2>1 DEF Api!LeavesNoAdmin
  <2>3. 403 \in Api!Refusals(q.key, q.call, now)
    BY <2>2 DEF Api!Refusals
  <2> QED BY <1>1, <1>2, <1>3, <1>5, <2>3, Refuses
<1>6. CASE /\ ~\E i \in DOMAIN principals : i = id /\ ~principals[i].revoked
           /\ Answer(r, 404) /\ UNCHANGED principals
  <2>1. Api!Unknown(q.call)
    BY <1>1, <1>2, <1>4, <1>6, ApiViews DEF Api!Unknown, EntryOf
  <2>2. 404 \in Api!Refusals(q.key, q.call, now)
    BY <2>1 DEF Api!Refusals
  <2> QED BY <1>1, <1>2, <1>3, <1>6, <2>2, Refuses
<1>7. CASE /\ ActiveAdminsExcluding(id) # {} /\ id \in DOMAIN principals
           /\ ~principals[id].revoked /\ Goto(r, "audit")
           /\ principals' = [principals EXCEPT ![id].revoked = TRUE]
  <2>1. Api!Refusals(q.key, q.call, q.at) = {}
    BY <1>1, <1>2, <1>3, <1>4, <1>7, RevocationServed
  <2>2. PICK row \in Row : row = principals[id]
    BY <1>1, <1>7, RowTyped DEF TypeInv, TypeOK
  <2>3. PICK new : new = [row EXCEPT !.revoked = TRUE]
    OBVIOUS
  <2>4. /\ DOMAIN principals' = DOMAIN principals /\ principals'[id] = new
        /\ \A j \in DOMAIN principals : j # id => principals'[j] = principals[j]
    BY <1>7, <2>2, <2>3
  <2>5. EntryOf(new) = [EntryOf(row) EXCEPT !.revoked = TRUE]
    <3>1. PICK yes : yes = TRUE
      OBVIOUS
    <3>2. new = [row EXCEPT !.revoked = yes]
      BY <2>3, <3>1, Zenon
    <3>3. /\ new.name = row.name /\ new.role = row.role /\ new.key_hash = row.key_hash
          /\ new.revoked = yes /\ new.expires_at = row.expires_at
      BY <3>2 DEF Row
    <3>4. EntryOf(new) = [EntryOf(row) EXCEPT !.revoked = yes]
      BY <3>3 DEF EntryOf
    <3> QED BY <3>1, <3>4, Zenon
  <2>6. Entries(principals)[id] = EntryOf(row)
    BY <1>7, <2>2, ApiViews
  <2>7. Entries(principals)' = [Entries(principals) EXCEPT ![id].revoked = TRUE]
    BY <1>7, <2>4, <2>5, <2>6, EntryWritten
  <2>8. pc'[r] = "audit" /\ reply'[r] = NULL
    BY <1>1, <1>7 DEF Goto, TypeInv, TypeOK
  <2>9. Told(r)' = NULL
    BY <1>1 DEF Told
  <2>10. PICK o : o = Api!Refused(200)
    OBVIOUS
  <2>11. Outcome(r)' = o
    BY <1>1, <2>8, <2>9, <2>10 DEF Outcome, Api!Refused
  <2>12. Outcomes' = [Outcomes EXCEPT ![r] = Api!Refused(200)]
    BY <1>1, <2>10, <2>11, OneHears
  <2>13. Api!Revoke(r, id)
    BY <1>1, <2>7, <2>12 DEF Api!Revoke
  <2>14. Asks[r].key = q.key /\ Asks[r].call = q.call /\ Asks[r].since = q.at
    BY <1>1, <1>2, InService
  <2>15. Api!Serve(r)
    BY <1>1, <1>2, <1>4, <2>1, <2>13, <2>14 DEF Api!Serve
  <2> QED BY <1>1, <2>15, Serves
<1> DEFINE found == {i \in DOMAIN principals : i = id /\ ~principals[i].revoked}
<1>8. \/ ActiveAdminsExcluding(id) = {} /\ Answer(r, 403) /\ UNCHANGED principals
      \/ found = {} /\ Answer(r, 404) /\ UNCHANGED principals
      \/ /\ ActiveAdminsExcluding(id) # {} /\ found # {} /\ Goto(r, "audit")
         /\ principals' = [principals EXCEPT ![id].revoked = TRUE]
  BY <1>2, <1>4 DEF RevokeKey
<1> QED BY <1>5, <1>6, <1>7, <1>8

\* Authentication, admission, and `me`.
LEMMA AuthenticateMaps ==
  ASSUME SerialInv, NEW r \in Requests, Authenticate(r)
  PROVE  [Api!Next]_(Api!api)
<1>1. /\ TypeInv /\ Step(r) /\ pc[r] = "auth" /\ pc[r] \in Stages \ {"audit"}
      /\ req[r] \in Request /\ req[r].at <= now /\ now <= MaxTime /\ now \in Nat
      /\ UNCHANGED <<now, principals, lastKey, req, minted>> /\ minted'[r] = NULL
  BY DEF Authenticate, Step, Database, SerialInv, TableInv, TypeInv, TypeOK, StagesOK, StageOK,
     Stages, Known, Knows
<1>2. PICK q \in Request : q = req[r]
  BY <1>1
<1>3. /\ q.call \in Call /\ q.key \in Nat /\ q.at \in 0..MaxTime
      /\ q.at <= now /\ q.at \in q.at..now
  BY <1>1, <1>2, ConstantsOK DEF Request
<1>4. CASE /\ \A i \in DOMAIN principals :
                principals[i].key_hash = HashKey(q.key) /\ Unexpired(principals[i], q.at) =>
                  principals[i].revoked
           /\ Answer(r, 401)
  <2>1. Api!Holders(q.key, q.at) = {}
    BY <1>3, <1>4, ApiViews
  <2>2. 401 \in Api!Refusals(q.key, q.call, q.at)
    BY <2>1 DEF Api!Refusals
  <2> QED BY <1>1, <1>2, <1>3, <1>4, <2>2, Refuses
<1>5. ASSUME NEW i \in DOMAIN principals,
             ~principals[i].revoked, principals[i].key_hash = HashKey(q.key),
             Unexpired(principals[i], q.at),
             caller' = [caller EXCEPT ![r] = PrincipalOf(i)],
             IF Admission(q.call, PrincipalOf(i)) = 200 /\ q.call.op # "me"
             THEN Goto(r, FirstStage(q.call.op))
             ELSE Answer(r, Admission(q.call, PrincipalOf(i)))
      PROVE  [Api!Next]_(Api!api)
  <2>1. PICK c : c = PrincipalOf(i)
    OBVIOUS
  <2>2. /\ Api!Holders(q.key, q.at) = {i}
        /\ Api!IsAdmin(q.key, q.at) <=> c.role = "admin"
        /\ \A name : Api!NamesItself(q.key, name, q.at) <=> c.name = name
    BY <1>3, <1>5, <2>1, OneHolder DEF PrincipalOf
  <2>3. CASE Admission(q.call, c) = 400 /\ Answer(r, 400)
    <3>1. Api!Malformed(q.call, q.at)
      BY <2>3 DEF Admission, BadBody, Api!Malformed
    <3>2. 400 \in Api!Refusals(q.key, q.call, q.at)
      BY <3>1 DEF Api!Refusals
    <3> QED BY <1>1, <1>2, <1>3, <2>3, <3>2, Refuses
  <2>4. CASE Admission(q.call, c) = 403 /\ Answer(r, 403)
    <3>1. Api!Unprivileged(q.key, q.call, q.at)
      BY <2>2, <2>4 DEF Admission, Forbidden, Api!Unprivileged
    <3>2. 403 \in Api!Refusals(q.key, q.call, q.at)
      BY <3>1 DEF Api!Refusals
    <3> QED BY <1>1, <1>2, <1>3, <2>4, <3>2, Refuses
  <2>5. CASE Admission(q.call, c) = 200 /\ q.call.op = "me" /\ Answer(r, 200)
    <3>1. Api!Refusals(q.key, q.call, q.at) = {}
      BY <2>2, <2>5, MeServed
    <3>2. Entries(principals)[i] = EntryOf(principals[i])
      BY ApiViews
    <3>3. caller'[r] = c
      BY <1>1, <1>5, <2>1 DEF TypeInv, TypeOK
    <3>4. Told(r)' = [id |-> i, name |-> principals[i].name, role |-> principals[i].role,
                      expires_at |-> principals[i].expires_at]
      BY <1>1, <1>2, <2>1, <2>5, <3>3 DEF Told, PrincipalOf
    <3>5. PICK o : o = Api!Told(EntryOf(principals[i]), i, NULL)
      OBVIOUS
    <3>6. Outcome(r)' = o
      BY <1>1, <2>5, <3>4, <3>5, AnswerSays DEF Api!Told, EntryOf
    <3>7. Outcomes' = [Outcomes EXCEPT ![r] = Api!Told(Entries(principals)[i], i, NULL)]
      BY <1>1, <3>2, <3>5, <3>6, OneHears
    <3>8. Api!Me(r, i)
      BY <1>1, <3>7 DEF Api!Me, Entries
    <3>9. Asks[r].key = q.key /\ Asks[r].call = q.call /\ Asks[r].since = q.at
      BY <1>1, <1>2, InService
    <3>10. Api!Serve(r)
      BY <2>2, <2>5, <3>1, <3>8, <3>9 DEF Api!Serve
    <3> QED BY <1>1, <3>10, Serves
  <2>6. CASE /\ Admission(q.call, c) = 200 /\ q.call.op # "me"
             /\ Goto(r, FirstStage(q.call.op))
    <3>1. PICK stage : stage = FirstStage(q.call.op)
      OBVIOUS
    <3>2. stage \in {"rotate_find", "revoke", "upsert_find"}
      BY <1>3, <2>6, <3>1 DEF Call, Ops, FirstStage
    <3>3. stage \in Stages \ {"audit"}
      BY <3>2 DEF Stages, AdminStages
    <3> QED BY <1>1, <2>6, <3>1, <3>3, Unheard
  <2>7. Admission(q.call, c) \in {200, 400, 403}
    BY DEF Admission
  <2> QED BY <1>5, <2>1, <2>3, <2>4, <2>5, <2>6, <2>7
<1> QED BY <1>1, <1>2, <1>4, <1>5 DEF Authenticate

-----------------------------------------------------------------------------
(* The refinement.                                                         *)

\* The tables a server finds are those the interface starts from.
LEMMA ApiInit == Init => Api!Init
<1> SUFFICES ASSUME Init PROVE Api!Init
  OBVIOUS
<1>1. Entries(principals) \in {Entries(t) : t \in InitTables}
  BY DEF Init
<1>2. Asks = [r \in Requests |-> NULL] /\ Outcomes = [r \in Requests |-> NULL]
  BY DEF Init, Asks, Outcomes, Outcome
<1> QED BY <1>1, <1>2 DEF Init, Api!Init

\* Every serial step is one of the interface, or none.
LEMMA SerialStepMaps ==
  ASSUME SerialInv, TtlsFit, ~SqlFaults, [SerialNext]_vars
  PROVE  [Api!Next]_(Api!api)
<1>1. TypeInv
  BY DEF SerialInv, TableInv
<1>2. ASSUME NEW r \in Requests, Step(r) PROVE [Api!Next]_(Api!api)
  <2>1. CASE Receive(r) \/ UpdatePrincipal(r) \/ CreatePrincipal(r) \/ RotateKey(r)
             \/ RevokeKey(r) \/ Abandon(r)
    BY <1>1, <2>1, ReceiveAsks, UpdateMaps, CreateMaps, RotateMaps, RevokeMaps, AbandonLeaves
  <2>2. CASE FindForUpsert(r) \/ CountAdmins(r) \/ CheckRename(r) \/ FindForRotate(r)
             \/ Authenticate(r)
    BY <2>2, FindMaps, CheckMaps, FindForRotateMaps, AuthenticateMaps
  <2>3. CASE AuditRevoke(r)
    BY <1>1, <2>3, AuditUnheard
  <2> QED BY <1>2, <2>1, <2>2, <2>3 DEF Step, StatementFails
<1>3. CASE Tick
  <2>1. Outcomes' = Outcomes
    BY <1>3 DEF Tick, Snapshots, Outcomes, Outcome, Told, TargetRole
  <2>2. Api!Tick
    BY <1>3, <2>1 DEF Tick, Database, Api!Tick, Entries, Asks
  <2> QED BY <2>2 DEF Api!Next
<1>4. CASE UNCHANGED vars
  BY <1>4 DEF vars, Api!api, Entries, Asks, Outcomes, Outcome, Told, TargetRole
<1> QED BY <1>2, <1>3, <1>4 DEF SerialNext, Finished

(***************************************************************************)
(* The calls of clients that wait do what docs/API.md says, whatever the   *)
(* tables, clients and calls and however the clock runs on: each is        *)
(* refused for a documented reason that held while it was served, or takes *)
(* effect as a whole and is answered with the principal it leaves, expiry  *)
(* included. What is left out: statements that fail, and creations whose   *)
(* ttl overflows.                                                          *)
(***************************************************************************)
THEOREM SerialRequestsImplementApi ==
  TtlsFit /\ ~SqlFaults => (SerialSpec => SerialImplementsApi)
<1> SUFFICES ASSUME TtlsFit, ~SqlFaults PROVE SerialSpec => SerialImplementsApi
  OBVIOUS
<1>1. Init => SerialInv
  BY SerialInit
<1>2. SerialInv /\ [SerialNext]_vars => SerialInv'
  BY SerialStepKeeps
<1>3. SerialInv /\ [SerialNext]_vars => [Api!Next]_(Api!api)
  BY SerialStepMaps
<1> QED BY ApiInit, <1>1, <1>2, <1>3, PTL DEF SerialSpec, SerialImplementsApi, Api!Spec
=============================================================================
