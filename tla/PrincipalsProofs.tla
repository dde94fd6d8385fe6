-------------------------- MODULE PrincipalsProofs --------------------------
(***************************************************************************)
(* The safety properties of Principals, and that it implements the         *)
(* registry of keys, for all values of the constants.                      *)
(***************************************************************************)
EXTENDS PrincipalsTypes

-----------------------------------------------------------------------------
(* The five things a step may do to the table.                             *)

SameShape == DOMAIN principals' = DOMAIN principals /\ Len(principals') = Len(principals)

TableUnchanged == UNCHANGED <<principals, lastKey>>

\* An upsert set columns of row i; its name is the old one or a free one.
RowUpdated(i) ==
  /\ SameShape /\ lastKey' = lastKey
  /\ \A j \in DOMAIN principals :
       /\ principals'[j].key_hash = principals[j].key_hash
       /\ principals'[j].revoked = principals[j].revoked
       /\ j # i => principals'[j].name = principals[j].name
  /\ \/ principals'[i].name = principals[i].name
     \/ principals[i].revoked
     \/ ~NameTaken(i, principals'[i].name)

RowAdded ==
  /\ DOMAIN principals' = DOMAIN principals \union {Len(principals) + 1}
  /\ Len(principals') = Len(principals) + 1
  /\ Len(principals) + 1 \notin DOMAIN principals
  /\ lastKey' = lastKey + 1
  /\ \A j \in DOMAIN principals : principals'[j] = principals[j]
  /\ principals'[Len(principals) + 1].key_hash = HashKey(lastKey + 1)
  /\ ~principals'[Len(principals) + 1].revoked
  /\ FindActive(principals'[Len(principals) + 1].name) = {}

KeyReplaced(i) ==
  /\ SameShape /\ lastKey' = lastKey + 1
  /\ ~principals[i].revoked
  /\ \A j \in DOMAIN principals :
       /\ principals'[j].name = principals[j].name
       /\ principals'[j].revoked = principals[j].revoked
       /\ principals'[j].key_hash = IF j = i THEN HashKey(lastKey + 1)
                                    ELSE principals[j].key_hash

RowRevoked(i) ==
  /\ SameShape /\ UNCHANGED <<lastKey, now>>
  /\ ~principals[i].revoked /\ principals'[i].revoked
  /\ ActiveAdminsExcluding(i) # {}
  /\ \A j \in DOMAIN principals :
       /\ principals'[j].name = principals[j].name
       /\ principals'[j].key_hash = principals[j].key_hash
       /\ j # i => principals'[j] = principals[j]

TableStep ==
  \/ TableUnchanged
  \/ RowAdded
  \/ \E i \in DOMAIN principals : RowUpdated(i) \/ KeyReplaced(i) \/ RowRevoked(i)

\* An UPDATE names its row's current name, or one the unique index let pass.
LEMMA UpdateIsTableStep ==
  ASSUME TypeInv, NEW r \in Requests, UpdatePrincipal(r)
  PROVE  TableStep
<1>1. CASE UNCHANGED principals
  BY <1>1 DEF UpdatePrincipal, TableStep, TableUnchanged
<1>2. CASE /\ principals' = [principals EXCEPT ![current[r].id] = Updated(r, @)]
           /\ \/ req[r].call.rename = NULL
              \/ principals[current[r].id].revoked
              \/ ~NameTaken(current[r].id, req[r].call.rename)
  <2>1. pc[r] = "update" /\ lastKey' = lastKey
    BY DEF UpdatePrincipal
  <2>2. PICK i \in DOMAIN principals : i = current[r].id
    BY <2>1 DEF TypeInv, StagesOK, StageOK
  <2>3. /\ SameShape
        /\ \A j \in DOMAIN principals :
             principals'[j] = IF j = i THEN Updated(r, principals[j]) ELSE principals[j]
    BY <1>2, <2>1, <2>2, UpdateWrites DEF SameShape
  <2>4. \A j \in DOMAIN principals : principals[j] \in Row
    BY RowTyped DEF TypeInv, TypeOK
  <2>5. ASSUME NEW j \in DOMAIN principals
        PROVE  /\ principals'[j].key_hash = principals[j].key_hash
               /\ principals'[j].revoked = principals[j].revoked
               /\ j # i => principals'[j].name = principals[j].name
    BY <2>1, <2>3, <2>4, UpdatedTyped
  <2>6. principals'[i].name = IF req[r].call.rename = NULL THEN principals[i].name
                              ELSE req[r].call.rename
    BY <2>1, <2>3, <2>4, UpdatedTyped
  <2>7. RowUpdated(i)
    BY <1>2, <2>1, <2>2, <2>3, <2>5, <2>6 DEF RowUpdated
  <2> QED BY <2>7 DEF TableStep
<1> QED BY <1>1, <1>2 DEF UpdatePrincipal

\* Every step does to the table one of the things TableStep lists.
LEMMA StepIsTableStep ==
  ASSUME TypeInv, [Next]_vars
  PROVE  TableStep
<1>1. ASSUME NEW r \in Requests, CreatePrincipal(r) PROVE TableStep
  <2>1. CASE lastKey' = lastKey
    BY <1>1, <2>1 DEF CreatePrincipal, AnswerWithKey, TypeInv, TypeOK, TableStep,
       TableUnchanged
  <2>2. CASE lastKey' # lastKey
    BY <1>1, <2>2, CreateWrites DEF TableStep, RowAdded, AnswerWithKey
  <2> QED BY <2>1, <2>2
<1>2. ASSUME NEW r \in Requests, RotateKey(r) PROVE TableStep
  <2>1. CASE UNCHANGED <<principals, lastKey, minted>>
    BY <2>1 DEF TableStep, TableUnchanged
  <2>2. CASE ~principals[current[r].id].revoked
    <3>1. PICK i \in DOMAIN principals : i = current[r].id
      BY <1>2, <2>2, RotateWrites
    <3>2. KeyReplaced(i)
      BY <1>2, <2>2, <3>1, RotateWrites DEF KeyReplaced, SameShape, AnswerWithKey
    <3> QED BY <3>2 DEF TableStep
  <2> QED BY <1>2, <2>1, <2>2 DEF RotateKey
<1>3. ASSUME NEW r \in Requests, RevokeKey(r) PROVE TableStep
  <2>1. CASE UNCHANGED principals
    BY <1>3, <2>1 DEF RevokeKey, TableStep, TableUnchanged
  <2>2. CASE Goto(r, "audit")
    <3>0. pc'[r] = "audit"
      BY <2>2 DEF Goto, TypeInv, TypeOK
    <3>1. PICK i \in DOMAIN principals : i = req[r].call.id
      BY <1>3, <3>0, RevokeWrites
    <3>2. RowRevoked(i)
      BY <1>3, <3>0, <3>1, RevokeWrites DEF RowRevoked, SameShape, RevokeKey
    <3> QED BY <3>2 DEF TableStep
  <2> QED BY <1>3, <2>1, <2>2 DEF RevokeKey
<1>4. ASSUME NEW r \in Requests,
             \/ Receive(r) \/ Authenticate(r) \/ FindForUpsert(r) \/ CountAdmins(r)
             \/ CheckRename(r) \/ FindForRotate(r) \/ AuditRevoke(r)
             \/ StatementFails(r) \/ Abandon(r)
      PROVE  TableStep
  BY <1>4 DEF Receive, Authenticate, FindForUpsert, CountAdmins, CheckRename,
     FindForRotate, AuditRevoke, StatementFails, Abandon, Database, TableStep,
     TableUnchanged
<1>5. CASE Tick \/ UNCHANGED vars
  BY <1>5 DEF Tick, Database, vars, TableStep, TableUnchanged
<1> QED
  BY <1>1, <1>2, <1>3, <1>4, <1>5, UpdateIsTableStep DEF Next, Step, Finished

-----------------------------------------------------------------------------
(* Names and keys stay unambiguous.                                        *)

KeysGenerated == \A i \in DOMAIN principals : principals[i].key_hash[2] \in 1..lastKey

TableInv == TypeInv /\ KeysGenerated /\ LookupsUnambiguous

\* Hashes are those of issued keys, so the next key's is in no row.
LEMMA FreshHash ==
  ASSUME TypeInv, KeysGenerated, NEW i \in DOMAIN principals
  PROVE  /\ principals[i].key_hash # HashKey(lastKey + 1)
         /\ principals[i].key_hash = HashKey(principals[i].key_hash[2])
         /\ HashKey(lastKey + 1)[2] = lastKey + 1
         /\ lastKey + 1 \in 1..(lastKey + 1)
         /\ principals[i].key_hash[2] \in 1..(lastKey + 1)
         /\ principals[i].key_hash[2] # lastKey + 1
<1>1. principals[i].key_hash \in {KeyPepper} \X Nat /\ lastKey \in Nat
  BY RowTyped DEF TypeInv, TypeOK, Row
<1>2. principals[i].key_hash[2] \in 1..lastKey
  BY DEF KeysGenerated
<1>3. HashKey(lastKey + 1)[2] = lastKey + 1
  BY DEF HashKey
<1>4. principals[i].key_hash[2] # lastKey + 1
  BY <1>1, <1>2
<1>5. principals[i].key_hash = HashKey(principals[i].key_hash[2])
  BY <1>1 DEF HashKey
<1> QED BY <1>1, <1>2, <1>3, <1>4, <1>5

\* Every hash in the table remains the hash of an issued key.
LEMMA KeysGeneratedStep ==
  ASSUME TypeInv, KeysGenerated, TableStep
  PROVE  KeysGenerated'
<1>0. lastKey \in Nat
  BY DEF TypeInv, TypeOK
<1>1. CASE TableUnchanged
  BY <1>1 DEF TableUnchanged, KeysGenerated
<1>2. CASE RowAdded
  BY <1>0, <1>2, FreshHash DEF RowAdded, KeysGenerated, HashKey
<1>3. ASSUME NEW i \in DOMAIN principals, RowUpdated(i) \/ RowRevoked(i)
      PROVE  KeysGenerated'
  BY <1>3 DEF RowUpdated, RowRevoked, SameShape, KeysGenerated
<1>4. ASSUME NEW i \in DOMAIN principals, KeyReplaced(i)
      PROVE  KeysGenerated'
  BY <1>0, <1>4, FreshHash DEF KeyReplaced, SameShape, KeysGenerated, HashKey
<1> QED BY <1>1, <1>2, <1>3, <1>4 DEF TableStep

\* The unique index on active names and the freshness of keys, step by step.
LEMMA LookupsStep ==
  ASSUME TableInv, TableStep
  PROVE  LookupsUnambiguous'
<1>1. CASE TableUnchanged
  BY <1>1 DEF TableUnchanged, TableInv, LookupsUnambiguous
<1>2. CASE RowAdded
  <2> DEFINE n == Len(principals) + 1
  <2>1. \A j \in DOMAIN principals :
          /\ principals[j].key_hash # HashKey(lastKey + 1)
          /\ principals[j].revoked \/ principals[j].name # principals'[n].name
    BY <1>2, FreshHash DEF RowAdded, FindActive, TableInv
  <2> QED BY <1>2, <2>1 DEF RowAdded, TableInv, LookupsUnambiguous
<1>3. ASSUME NEW i \in DOMAIN principals, RowUpdated(i)
      PROVE  LookupsUnambiguous'
  <2>1. ASSUME NEW j \in DOMAIN principals, j # i
        PROVE  \/ principals[i].revoked \/ principals[j].revoked
               \/ principals'[i].name # principals[j].name
    BY <1>3, <2>1 DEF RowUpdated, NameTaken, FindActive, TableInv, LookupsUnambiguous
  <2> QED BY <1>3, <2>1 DEF RowUpdated, SameShape, TableInv, LookupsUnambiguous
<1>4. ASSUME NEW i \in DOMAIN principals, KeyReplaced(i)
      PROVE  LookupsUnambiguous'
  <2>1. \A j \in DOMAIN principals : principals[j].key_hash # HashKey(lastKey + 1)
    BY FreshHash DEF TableInv
  <2> QED BY <1>4, <2>1 DEF KeyReplaced, SameShape, TableInv, LookupsUnambiguous
<1>5. ASSUME NEW i \in DOMAIN principals, RowRevoked(i)
      PROVE  LookupsUnambiguous'
  BY <1>5 DEF RowRevoked, SameShape, TableInv, LookupsUnambiguous
<1> QED BY <1>1, <1>2, <1>3, <1>4, <1>5 DEF TableStep

\* Initial tables have distinct keys and names.
LEMMA TableInit == Init => TableInv
<1>1. Init => KeysGenerated /\ LookupsUnambiguous
  BY InitTablesOK DEF Init, KeysGenerated, LookupsUnambiguous
<1> QED BY <1>1, TypeInit DEF TableInv

\* Names and keys stay distinct over every step of the table.
LEMMA TableInvStep ==
  ASSUME TableInv, [Next]_vars
  PROVE  TableInv'
BY TypeStep, StepIsTableStep, KeysGeneratedStep, LookupsStep DEF TableInv

(***************************************************************************)
(* No two active principals ever share a name, nor any two a key: the      *)
(* checks of upsert_principal race, the unique index and the freshness of  *)
(* generated keys do not.                                                  *)
(***************************************************************************)
THEOREM LookupsStayUnambiguous == Spec => []LookupsUnambiguous
<1>1. TableInv /\ [Next]_vars => TableInv'
  BY TableInvStep
<1>2. TableInv => LookupsUnambiguous
  BY DEF TableInv
<1> QED BY TableInit, <1>1, <1>2, PTL DEF Spec

-----------------------------------------------------------------------------
(* Revocation keeps an admin.                                              *)

\* Within the clock's bound, the CAST of the count saturates without harm.
LEMMA CastCompares ==
  ASSUME NEW row \in Row, NEW t \in Nat, t < I64Max
  PROVE  Unexpired(row, t) <=> row.expires_at = NULL \/ row.expires_at > t
BY ConstantsOK DEF Unexpired, CastInteger, Row

\* The count sees admins that were active at any time up to now.
LEMMA CountSees ==
  ASSUME TypeInv, now <= MaxTime, NEW t \in Nat, t <= now,
         NEW id, NEW j \in ActiveAdminsExcluding(id)
  PROVE  j \in AdminsAt(t) /\ j \in DOMAIN principals /\ j # id
<1>1. j \in DOMAIN principals /\ j # id
  BY DEF ActiveAdminsExcluding
<1>2. principals[j] \in Row /\ now \in Nat /\ now < I64Max
  BY <1>1, RowTyped, ConstantsOK DEF TypeInv, TypeOK
<1>3. principals[j].expires_at = NULL \/ principals[j].expires_at > now
  BY <1>2, CastCompares DEF ActiveAdminsExcluding
<1>4. principals[j].expires_at = NULL \/ principals[j].expires_at > t
  BY <1>2, <1>3 DEF Row
<1> QED BY <1>1, <1>4 DEF AdminsAt, ActiveAdminsExcluding

\* Whoever the count saw is still an active admin after the UPDATE.
LEMMA RevokeLeavesAdmin ==
  ASSUME TypeInv, now <= MaxTime, NEW i \in DOMAIN principals, RowRevoked(i),
         NEW t \in Nat, t <= now
  PROVE  AdminsAt(t)' # {}
<1>1. PICK j \in ActiveAdminsExcluding(i) : TRUE
  BY DEF RowRevoked
<1>2. j \in AdminsAt(t) /\ j \in DOMAIN principals /\ j # i
  BY CountSees
<1>3. principals'[j] = principals[j] /\ j \in DOMAIN principals'
  BY <1>2 DEF RowRevoked, SameShape
<1> QED BY <1>2, <1>3 DEF AdminsAt

ClockInv == TypeInv /\ now <= MaxTime

\* The clock stays within its bound.
LEMMA ClockBounded ==
  /\ Init => now <= MaxTime
  /\ TypeInv /\ now <= MaxTime /\ [Next]_vars => now' <= MaxTime
<1>1. Init => now <= MaxTime
  BY ConstantsOK DEF Init
<1>2. ASSUME NEW r \in Requests, Step(r) PROVE now' = now
  BY <1>2 DEF Step, Receive, Authenticate, FindForUpsert, CountAdmins, CheckRename,
     UpdatePrincipal, CreatePrincipal, FindForRotate, RotateKey, RevokeKey,
     AuditRevoke, StatementFails, Abandon
<1>3. TypeInv /\ Tick => now' <= MaxTime
  BY ConstantsOK DEF Tick, TypeInv, TypeOK
<1> QED BY <1>1, <1>2, <1>3 DEF Next, Finished, vars

\* A row can only become revoked by a revocation of it.
LEMMA OnlyRevokeRevokes ==
  ASSUME TypeInv, TableStep, Revokes
  PROVE  \E i \in DOMAIN principals : RowRevoked(i)
BY DEF TableStep, Revokes, TableUnchanged, RowAdded, RowUpdated, KeyReplaced, SameShape

(***************************************************************************)
(* No revocation leaves the server without an active admin, however many   *)
(* requests race it: the count and the UPDATE share one critical section.  *)
(***************************************************************************)
THEOREM RevocationKeepsAnAdmin == Spec => RevokeKeepsAnAdmin
<1>1. Init => ClockInv
  BY TypeInit, ClockBounded DEF ClockInv
<1>2. ClockInv /\ [Next]_vars => ClockInv'
  BY TypeStep, ClockBounded DEF ClockInv
<1>3. ClockInv /\ [Next]_vars => (Revokes => ActiveAdmins' # {})
  <2> SUFFICES ASSUME ClockInv, [Next]_vars, Revokes PROVE ActiveAdmins' # {}
    OBVIOUS
  <2>1. PICK i \in DOMAIN principals : RowRevoked(i)
    BY StepIsTableStep, OnlyRevokeRevokes DEF ClockInv
  <2>2. PICK t \in Nat : t = now /\ now' = t
    BY <2>1 DEF RowRevoked, ClockInv, TypeInv, TypeOK
  <2>3. AdminsAt(t)' # {}
    BY <2>1, <2>2, RevokeLeavesAdmin DEF ClockInv
  <2> QED BY <2>2, <2>3 DEF ActiveAdmins
<1> QED BY <1>1, <1>2, <1>3, PTL DEF Spec, RevokeKeepsAnAdmin

-----------------------------------------------------------------------------
(* A dead key never works again.                                           *)

\* A key sent when it was dead was generated before, and is still dead.
SpentKeysDead ==
  \A r \in Requests : spent[r] =>
    /\ req[r] \in Request
    /\ req[r].key \in 0..lastKey
    /\ req[r].key \notin LiveKeys

DeadKeyInv == TableInv /\ SpentKeysDead

\* No step revives a key that exists: every key that comes alive is generated.
LEMMA KeysStayDead ==
  ASSUME TableInv, TableStep, NEW k \in 0..lastKey, k \notin LiveKeys
  PROVE  k \notin LiveKeys' /\ k \in 0..lastKey'
<1>0. lastKey \in Nat
  BY DEF TableInv, TypeInv, TypeOK
<1>1. CASE TableUnchanged
  BY <1>1 DEF TableUnchanged, LiveKeys
<1>2. CASE RowAdded
  <2>1. k # HashKey(lastKey + 1)[2]
    BY <1>0 DEF HashKey
  <2> QED BY <1>0, <1>2, <2>1 DEF RowAdded, LiveKeys
<1>3. ASSUME NEW i \in DOMAIN principals, RowUpdated(i) \/ RowRevoked(i)
      PROVE  k \notin LiveKeys' /\ k \in 0..lastKey'
  BY <1>3 DEF RowUpdated, RowRevoked, SameShape, LiveKeys
<1>4. ASSUME NEW i \in DOMAIN principals, KeyReplaced(i)
      PROVE  k \notin LiveKeys' /\ k \in 0..lastKey'
  <2>1. k # HashKey(lastKey + 1)[2]
    BY <1>0 DEF HashKey
  <2> QED BY <1>0, <1>4, <2>1 DEF KeyReplaced, SameShape, LiveKeys
<1> QED BY <1>1, <1>2, <1>3, <1>4 DEF TableStep

\* Only Receive changes what a request sent, only Authenticate whom it is.
LEMMA SentUnchanged ==
  ASSUME [Next]_vars, ~\E r \in Requests : Receive(r)
  PROVE  UNCHANGED <<req, spent>>
<1>1. ASSUME NEW r \in Requests, Step(r), ~Receive(r) PROVE UNCHANGED <<req, spent>>
  BY <1>1 DEF Step, Authenticate, FindForUpsert, CountAdmins, CheckRename,
     UpdatePrincipal, CreatePrincipal, FindForRotate, RotateKey, RevokeKey,
     AuditRevoke, StatementFails, Abandon
<1> QED BY <1>1 DEF Next, Tick, Finished, vars

\* Only authentication changes a caller.
LEMMA CallerUnchanged ==
  ASSUME [Next]_vars, ~\E r \in Requests : Authenticate(r)
  PROVE  UNCHANGED caller
<1>1. ASSUME NEW r \in Requests, Step(r), ~Authenticate(r) PROVE UNCHANGED caller
  BY <1>1 DEF Step, Receive, FindForUpsert, CountAdmins, CheckRename,
     UpdatePrincipal, CreatePrincipal, FindForRotate, RotateKey, RevokeKey,
     AuditRevoke, StatementFails, Abandon, Snapshots
<1> QED BY <1>1 DEF Next, Tick, Finished, vars, Snapshots

\* A dead key stays dead over every step.
LEMMA SpentStep ==
  ASSUME TableInv, SpentKeysDead, [Next]_vars
  PROVE  SpentKeysDead'
<1>1. TableStep /\ TypeInv'
  BY StepIsTableStep, TypeStep DEF TableInv
<1>2. CASE ~\E r \in Requests : Receive(r)
  BY <1>1, <1>2, SentUnchanged, KeysStayDead DEF SpentKeysDead
<1>3. ASSUME NEW r \in Requests, Receive(r) PROVE SpentKeysDead'
  <2>1. UNCHANGED <<principals, lastKey>>
    BY <1>3 DEF Receive, Database
  <2>2. LiveKeys' = LiveKeys
    BY <2>1 DEF LiveKeys
  <2>3. ASSUME NEW s \in Requests, s # r, spent'[s]
        PROVE  /\ req'[s] \in Request /\ req'[s].key \in 0..lastKey
               /\ req'[s].key \notin LiveKeys
    BY <1>3, <2>3 DEF Receive, SpentKeysDead, TableInv, TypeInv, TypeOK
  <2>4. PICK key \in 0..lastKey, call \in Calls :
          /\ req' = [req EXCEPT ![r] = [key |-> key, at |-> now, call |-> call]]
          /\ spent' = [spent EXCEPT ![r] = key \notin LiveKeys]
    BY <1>3 DEF Receive
  <2>5. req'[r] \in Request /\ req'[r].key = key
    BY <2>4, ConstantsOK DEF TableInv, TypeInv, TypeOK, Request
  <2>6. spent'[r] = (key \notin LiveKeys)
    BY <2>4, Zenon DEF TableInv, TypeInv, TypeOK
  <2>7. spent'[r] => req'[r].key \notin LiveKeys
    BY <2>5, <2>6
  <2> QED BY <2>1, <2>2, <2>3, <2>4, <2>5, <2>7 DEF SpentKeysDead
<1> QED BY <1>2, <1>3

\* Whoever authenticates does so with a key that is live at that moment.
LEMMA DeadKeyStep ==
  ASSUME DeadKeyInv, [Next]_vars, NEW r \in Requests, caller'[r] # caller[r]
  PROVE  ~spent[r] /\ req[r].key \in LiveKeys
<1> USE DEF DeadKeyInv, TableInv
<1>1. PICK s \in Requests : Authenticate(s)
  BY CallerUnchanged
<1>2. PICK i \in DOMAIN principals :
        /\ principals[i].key_hash = HashKey(req[s].key) /\ ~principals[i].revoked
        /\ caller' = [caller EXCEPT ![s] = PrincipalOf(i)]
  BY <1>1 DEF Authenticate
<1>3. s = r
  BY <1>2 DEF TypeInv, TypeOK
<1>4. req[r].key \in LiveKeys
  BY <1>2, <1>3 DEF LiveKeys, HashKey
<1> QED BY <1>4 DEF SpentKeysDead

(***************************************************************************)
(* Whatever runs beside it, and however long it waited, a request          *)
(* authenticates only with a key that is live when it does, and never with *)
(* one that was rotated away or revoked before it was sent.                *)
(***************************************************************************)
THEOREM DeadKeysNeverWork == Spec => DeadKeyNeverWorks
<1>1. Init => DeadKeyInv
  BY TableInit DEF Init, DeadKeyInv, SpentKeysDead
<1>2. DeadKeyInv /\ [Next]_vars => DeadKeyInv'
  BY TableInvStep, SpentStep DEF DeadKeyInv
<1>3. DeadKeyInv /\ [Next]_vars =>
        \A r \in Requests : caller'[r] # caller[r] => ~spent[r] /\ req[r].key \in LiveKeys
  BY DeadKeyStep
<1> QED BY <1>1, <1>2, <1>3, PTL DEF Spec, DeadKeyNeverWorks

-----------------------------------------------------------------------------
(* The audit log.                                                          *)

\* A step of request r leaves what other requests were told as it is.
LEMMA OthersUntouched ==
  ASSUME TypeInv, NEW r \in Requests, Step(r), NEW s \in Requests, s # r
  PROVE  reply'[s] = reply[s] /\ req'[s] = req[s] /\ caller'[s] = caller[s]
<1> USE DEF TypeInv, TypeOK
<1>1. reply'[s] = reply[s]
  <2> USE DEF Goto, Answer, AnswerWithKey, EnterRename, EnterUpdate
  <2>1. CASE Receive(r) \/ Authenticate(r)
    BY <2>1 DEF Receive, Authenticate
  <2>2. CASE FindForUpsert(r) \/ CountAdmins(r) \/ CheckRename(r)
    BY <2>2 DEF FindForUpsert, CountAdmins, CheckRename
  <2>3. CASE UpdatePrincipal(r) \/ CreatePrincipal(r)
    BY <2>3 DEF UpdatePrincipal, CreatePrincipal
  <2>4. CASE FindForRotate(r) \/ RotateKey(r) \/ RevokeKey(r) \/ AuditRevoke(r)
    BY <2>4 DEF FindForRotate, RotateKey, RevokeKey, AuditRevoke
  <2>5. CASE StatementFails(r) \/ Abandon(r)
    BY <2>5 DEF StatementFails, Abandon
  <2> QED BY <2>1, <2>2, <2>3, <2>4, <2>5 DEF Step
<1>2. req'[s] = req[s]
  BY DEF Step, Receive, Authenticate, FindForUpsert, CountAdmins, CheckRename,
     UpdatePrincipal, CreatePrincipal, FindForRotate, RotateKey, RevokeKey,
     AuditRevoke, StatementFails, Abandon
<1>3. caller'[s] = caller[s]
  BY DEF Step, Receive, Authenticate, FindForUpsert, CountAdmins, CheckRename,
     UpdatePrincipal, CreatePrincipal, FindForRotate, RotateKey, RevokeKey,
     AuditRevoke, StatementFails, Abandon, Snapshots
<1> QED BY <1>1, <1>2, <1>3

\* A revoke is answered 200 by AuditRevoke alone.
LEMMA RevokeAnsweredLogged ==
  ASSUME TypeInv, NEW r \in Requests, Step(r),
         reply'[r] = 200, req'[r].call.op = "revoke"
  PROVE  <<caller'[r].id, req'[r].call.id>> \in audit_log'
<1> USE DEF TypeInv, TypeOK
<1>0. 200 # NULL
  BY ConstantsOK
<1>1. pc[r] \in Stages \union {"idle"} => reply[r] = NULL
  BY DEF StagesOK, StageOK
<1>2. ~Receive(r)
  BY <1>0, <1>1 DEF Receive, Goto
<1>3. ~Authenticate(r)
  <2> SUFFICES ASSUME Authenticate(r) PROVE FALSE
    OBVIOUS
  <2>1. pc[r] = "auth" /\ req' = req
    BY DEF Authenticate
  <2>2. reply[r] # 200
    BY <1>0, <1>1, <2>1 DEF Stages
  <2>3. CASE Answer(r, 401)
    BY <2>3 DEF Answer
  <2>4. ASSUME NEW status \in {400, 403}, Answer(r, status) PROVE FALSE
    BY <2>4 DEF Answer
  <2>5. ASSUME NEW stage, Goto(r, stage) PROVE FALSE
    BY <2>2, <2>5 DEF Goto
  <2>6. \A p : Admission(req[r].call, p) \in {200, 400, 403}
    BY DEF Admission
  <2> QED BY <2>1, <2>3, <2>4, <2>5, <2>6 DEF Authenticate
<1>4. ~(FindForUpsert(r) \/ CountAdmins(r) \/ CheckRename(r)
        \/ UpdatePrincipal(r) \/ CreatePrincipal(r))
  BY DEF FindForUpsert, CountAdmins, CheckRename, UpdatePrincipal, CreatePrincipal,
     StagesOK, StageOK, UpsertStages
<1>5. ~(FindForRotate(r) \/ RotateKey(r))
  BY DEF FindForRotate, RotateKey, StagesOK, StageOK
<1>6. ~RevokeKey(r)
  BY <1>0, <1>1 DEF RevokeKey, Answer, Goto, Stages, AdminStages
<1>7. ~StatementFails(r)
  BY DEF StatementFails, Answer
<1>8. ~Abandon(r)
  BY <1>0, <1>1 DEF Abandon, InFlight, Goto, Stages
<1>9. AuditRevoke(r)
  BY <1>2, <1>3, <1>4, <1>5, <1>6, <1>7, <1>8 DEF Step
<1> QED BY <1>9 DEF AuditRevoke, Snapshots

AuditInv == TableInv /\ RevocationsAudited

\* Rows revoked once stay revoked, and no row disappears.
LEMMA RevokedForGood ==
  ASSUME TableStep, NEW i \in DOMAIN principals, principals[i].revoked
  PROVE  i \in DOMAIN principals' /\ principals'[i].revoked
BY DEF TableStep, TableUnchanged, RowAdded, RowUpdated, KeyReplaced, RowRevoked, SameShape

\* The log only grows, by entries of rows that are revoked.
LEMMA LogStep ==
  ASSUME TypeInv, [Next]_vars
  PROVE  /\ audit_log \subseteq audit_log'
         /\ \A entry \in audit_log' : entry \notin audit_log =>
              entry[2] \in DOMAIN principals /\ principals[entry[2]].revoked
<1>1. ASSUME NEW r \in Requests, AuditRevoke(r)
      PROVE  /\ audit_log \subseteq audit_log'
             /\ \A entry \in audit_log' : entry \notin audit_log =>
                  entry[2] \in DOMAIN principals /\ principals[entry[2]].revoked
  BY <1>1 DEF AuditRevoke, TypeInv, StagesOK, StageOK
<1>2. ASSUME NEW r \in Requests, Step(r), ~AuditRevoke(r) PROVE audit_log' = audit_log
  BY <1>2 DEF Step, Receive, Authenticate, FindForUpsert, CountAdmins, CheckRename,
     UpdatePrincipal, CreatePrincipal, FindForRotate, RotateKey, RevokeKey,
     StatementFails, Abandon, Database
<1> QED BY <1>1, <1>2 DEF Next, Tick, Database, Finished, vars

\* Rows and revocations stay matched over every step.
LEMMA AuditStep ==
  ASSUME AuditInv, [Next]_vars
  PROVE  RevocationsAudited'
<1> USE DEF AuditInv, TableInv
<1>1. \A entry \in audit_log' : entry[2] \in DOMAIN principals' /\ principals'[entry[2]].revoked
  BY LogStep, StepIsTableStep, RevokedForGood DEF RevocationsAudited
<1>2. ASSUME NEW s \in Requests, reply'[s] = 200, req'[s].call.op = "revoke"
      PROVE  <<caller'[s].id, req'[s].call.id>> \in audit_log'
  <2>1. CASE Step(s)
    BY <1>2, <2>1, RevokeAnsweredLogged
  <2>2. ASSUME NEW r \in Requests, Step(r), r # s
        PROVE  <<caller'[s].id, req'[s].call.id>> \in audit_log'
    BY <1>2, <2>2, OthersUntouched, LogStep DEF RevocationsAudited
  <2>3. CASE Tick \/ UNCHANGED vars
    BY <1>2, <2>3 DEF Tick, vars, Database, Snapshots, RevocationsAudited
  <2> QED BY <2>1, <2>2, <2>3 DEF Next, Finished
<1> QED BY <1>1, <1>2 DEF RevocationsAudited

(***************************************************************************)
(* An entry of the audit log names a revocation that happened and holds,   *)
(* and a revoke answered 200 is in the log.                                *)
(***************************************************************************)
THEOREM RevocationsAreAudited == Spec => []RevocationsAudited
<1>1. Init => AuditInv
  BY TableInit, ConstantsOK DEF Init, AuditInv, RevocationsAudited
<1>2. AuditInv /\ [Next]_vars => AuditInv'
  BY TableInvStep, AuditStep DEF AuditInv
<1>3. AuditInv => RevocationsAudited
  BY DEF AuditInv
<1> QED BY <1>1, <1>2, <1>3, PTL DEF Spec

-----------------------------------------------------------------------------
(* Authority.                                                              *)

\* ManagedWithAuthority of one request, and that a key is minted only at the end.
Authority(r) ==
  /\ pc[r] \in Stages \union {"idle"} => minted[r] = NULL
  /\ pc[r] \in AdminStages => caller[r].role = "admin"
  /\ pc[r] \in {"rotate_find", "rotate"} =>
       caller[r].role = "admin" \/ caller[r].name = req[r].call.name
  /\ minted[r] # NULL =>
       \/ caller[r].role = "admin"
       \/ req[r].call.op = "rotate" /\ caller[r].name = req[r].call.name

AuthorityInv == TypeInv /\ \A r \in Requests : Authority(r)

\* A step keeps what the other requests were allowed.
LEMMA OthersAuthority ==
  ASSUME AuthorityInv, NEW r \in Requests, Step(r), NEW s \in Requests, s # r
  PROVE  Authority(s)'
<1> USE DEF AuthorityInv, TypeInv, TypeOK
<1>1. pc'[s] = pc[s]
  <2>1. ASSUME NEW stage, Goto(r, stage) PROVE pc'[s] = pc[s]
    BY <2>1 DEF Goto
  <2>2. ASSUME NEW status, Answer(r, status) PROVE pc'[s] = pc[s]
    BY <2>2 DEF Answer
  <2>3. \A i, expires : AnswerWithKey(r, i, expires) => Answer(r, 200)
    BY DEF AnswerWithKey
  <2>4. \A p : EnterRename(r, p) \/ EnterUpdate(r, p) => pc'[s] = pc[s]
    BY <2>1, <2>2 DEF EnterRename, EnterUpdate
  <2> QED
    BY <2>1, <2>2, <2>3, <2>4 DEF Step, Receive, Authenticate, FindForUpsert,
       CountAdmins, CheckRename, UpdatePrincipal, CreatePrincipal, FindForRotate,
       RotateKey, RevokeKey, AuditRevoke, StatementFails, Abandon
<1>2. minted'[s] = minted[s]
  BY DEF Step, Receive, Authenticate, FindForUpsert, CountAdmins, CheckRename,
     UpdatePrincipal, CreatePrincipal, FindForRotate, RotateKey, RevokeKey,
     AuditRevoke, StatementFails, Abandon, AnswerWithKey
<1> QED BY <1>1, <1>2, OthersUntouched DEF Authority

\* Authentication lets a request on to what its caller may do.
LEMMA AuthenticateAuthority ==
  ASSUME AuthorityInv, NEW r \in Requests, Authenticate(r)
  PROVE  Authority(r)'
<1> USE DEF AuthorityInv, TypeInv, TypeOK
<1>1. /\ pc[r] = "auth" /\ minted'[r] = NULL /\ req'[r] = req[r]
  BY DEF Authenticate, Authority, Stages
<1>2. ASSUME NEW status, Answer(r, status) PROVE Authority(r)'
  BY <1>1, <1>2 DEF Answer, Authority, Stages, AdminStages
<1>3. ASSUME NEW i \in DOMAIN principals,
             caller' = [caller EXCEPT ![r] = PrincipalOf(i)],
             Admission(req[r].call, PrincipalOf(i)) = 200, req[r].call.op # "me",
             Goto(r, FirstStage(req[r].call.op))
      PROVE  Authority(r)'
  <2>1. caller'[r] = PrincipalOf(i)
    BY <1>3
  <2>2. ~Forbidden(req[r].call, PrincipalOf(i))
    BY <1>3 DEF Admission
  <2>3. \/ caller'[r].role = "admin"
        \/ req[r].call.op = "rotate" /\ caller'[r].name = req[r].call.name
    BY <1>3, <2>1, <2>2 DEF Forbidden
  <2>4. pc'[r] = FirstStage(req[r].call.op)
    BY <1>3 DEF Goto
  <2>5. FirstStage("rotate") = "rotate_find"
    BY DEF FirstStage
  <2> QED BY <1>1, <2>3, <2>4, <2>5 DEF Authority, AdminStages
<1> QED BY <1>2, <1>3 DEF Authenticate

\* A step of a request keeps it within its caller's authority.
LEMMA StepAuthority ==
  ASSUME AuthorityInv, NEW r \in Requests, Step(r)
  PROVE  Authority(r)'
<1> USE DEF AuthorityInv, TypeInv, TypeOK
<1>1. CASE Receive(r)
  BY <1>1 DEF Receive, Goto, Authority, Stages, AdminStages
<1>2. CASE FindForUpsert(r) \/ CountAdmins(r) \/ CheckRename(r)
  <2>1. /\ caller'[r] = caller[r] /\ req'[r] = req[r] /\ minted'[r] = minted[r]
        /\ pc[r] \in AdminStages
    BY <1>2 DEF FindForUpsert, CountAdmins, CheckRename, AdminStages
  <2>2. pc'[r] \in AdminStages \union {"done"}
    BY <1>2 DEF FindForUpsert, CountAdmins, CheckRename, EnterRename, EnterUpdate,
       Goto, Answer, AdminStages
  <2> QED BY <2>1, <2>2 DEF Authority, AdminStages, Stages
<1>3. CASE CreatePrincipal(r) \/ UpdatePrincipal(r) \/ RevokeKey(r) \/ AuditRevoke(r)
  <2>1. /\ caller'[r] = caller[r] /\ req'[r] = req[r] /\ pc[r] \in AdminStages
    BY <1>3 DEF CreatePrincipal, UpdatePrincipal, RevokeKey, AuditRevoke, Snapshots,
       AdminStages
  <2>2. \/ pc'[r] = "done"
        \/ pc'[r] = "audit" /\ minted'[r] = minted[r]
    BY <1>3 DEF CreatePrincipal, UpdatePrincipal, RevokeKey, AuditRevoke,
       Goto, Answer, AnswerWithKey
  <2> QED BY <2>1, <2>2 DEF Authority, AdminStages, Stages
<1>4. CASE FindForRotate(r) \/ RotateKey(r)
  <2>1. /\ caller'[r] = caller[r] /\ req'[r] = req[r]
        /\ pc[r] \in {"rotate_find", "rotate"} /\ req[r].call.op = "rotate"
    BY <1>4 DEF FindForRotate, RotateKey, Snapshots, StagesOK, StageOK
  <2>2. \/ pc'[r] = "done"
        \/ pc'[r] = "rotate" /\ minted'[r] = minted[r]
    BY <1>4 DEF FindForRotate, RotateKey, Goto, Answer, AnswerWithKey
  <2> QED BY <2>1, <2>2 DEF Authority, AdminStages, Stages
<1>5. CASE StatementFails(r) \/ Abandon(r)
  BY <1>5 DEF StatementFails, Abandon, InFlight, Goto, Answer, Snapshots, Authority,
     Stages, AdminStages
<1> QED BY <1>1, <1>2, <1>3, <1>4, <1>5, AuthenticateAuthority DEF Step

(***************************************************************************)
(* No request changes the table without the authority it needs: past the   *)
(* role checks, and whenever a key is handed out, the caller was an admin  *)
(* or named itself.                                                        *)
(***************************************************************************)
THEOREM AuthorityNeeded == Spec => []ManagedWithAuthority
<1>1. Init => AuthorityInv
  BY TypeInit DEF Init, AuthorityInv, Authority, Stages, AdminStages
<1>2. AuthorityInv /\ [Next]_vars => AuthorityInv'
  <2> SUFFICES ASSUME AuthorityInv, [Next]_vars PROVE AuthorityInv'
    OBVIOUS
  <2>1. TypeInv'
    BY TypeStep DEF AuthorityInv
  <2>2. ASSUME NEW r \in Requests, Step(r), NEW s \in Requests PROVE Authority(s)'
    BY <2>2, OthersAuthority, StepAuthority
  <2>3. CASE Tick \/ UNCHANGED vars
    BY <2>1, <2>3 DEF Tick, Snapshots, vars, AuthorityInv, Authority
  <2> QED BY <2>1, <2>2, <2>3 DEF Next, Finished, AuthorityInv
<1>3. AuthorityInv => ManagedWithAuthority
  BY DEF AuthorityInv, Authority, ManagedWithAuthority
<1> QED BY <1>1, <1>2, <1>3, PTL DEF Spec

-----------------------------------------------------------------------------
(* The registry of keys.                                                   *)

LivePairs == LivePairsOf(principals)

\* A pair is live if its row is and carries its key.
LEMMA PairLive ==
  \A i, k : <<i, k>> \in LivePairs <=>
              i \in DOMAIN principals /\ ~principals[i].revoked /\ k = principals[i].key_hash[2]
BY DEF LivePairs, LivePairsOf

\* Live pairs are pairs.
LEMMA OnlyPairs == \A p \in LivePairs : p = <<p[1], p[2]>>
BY DEF LivePairs, LivePairsOf

\* The same of the state after the step.
LEMMA PairLiveNext ==
  \A i, k : <<i, k>> \in LivePairs' <=>
              /\ i \in DOMAIN principals' /\ ~principals'[i].revoked
              /\ k = principals'[i].key_hash[2]
BY DEF LivePairs, LivePairsOf

\* The same after the step.
LEMMA OnlyPairsNext == \A p \in LivePairs' : p = <<p[1], p[2]>>
BY DEF LivePairs, LivePairsOf

\* A created row is an enrolment in the registry.
LEMMA AddEnrolls ==
  ASSUME TypeInv, RowAdded
  PROVE  LivePairs' = LivePairs \union {<<Len(principals) + 1, lastKey + 1>>}
<1> DEFINE n == Len(principals) + 1
<1>1. principals'[n].key_hash[2] = lastKey + 1
  BY DEF RowAdded, HashKey
<1>2. ASSUME NEW i, NEW k
      PROVE  <<i, k>> \in LivePairs' <=>
               <<i, k>> \in LivePairs \/ (i = n /\ k = lastKey + 1)
  BY <1>1, PairLive, PairLiveNext DEF RowAdded
<1> HIDE DEF n
<1> QED BY <1>2, OnlyPairs, OnlyPairsNext DEF n

\* An updated row leaves the registry as it is.
LEMMA UpdateKeepsPairs ==
  ASSUME NEW i \in DOMAIN principals, RowUpdated(i)
  PROVE  LivePairs' = LivePairs
<1>1. ASSUME NEW j, NEW k
      PROVE  <<j, k>> \in LivePairs' <=> <<j, k>> \in LivePairs
  BY PairLive, PairLiveNext DEF RowUpdated, SameShape
<1> QED BY <1>1, OnlyPairs, OnlyPairsNext

\* A rotation replaces one live key by the next one.
LEMMA ReplaceReplaces ==
  ASSUME TypeInv, NEW i \in DOMAIN principals, KeyReplaced(i)
  PROVE  LET pair == <<i, principals[i].key_hash[2]>>
         IN  /\ pair \in LivePairs
             /\ LivePairs' = (LivePairs \ {pair}) \union {<<i, lastKey + 1>>}
<1> DEFINE old == principals[i].key_hash[2]
<1>1. <<i, old>> \in LivePairs
  BY PairLive DEF KeyReplaced
<1>2. principals'[i].key_hash[2] = lastKey + 1
  BY DEF KeyReplaced, HashKey
<1>3. ASSUME NEW j, NEW k
      PROVE  <<j, k>> \in LivePairs' <=>
               \/ <<j, k>> \in LivePairs /\ ~(j = i /\ k = old)
               \/ j = i /\ k = lastKey + 1
  <2>1. CASE j = i
    BY <1>2, <2>1, PairLive, PairLiveNext DEF KeyReplaced, SameShape
  <2>2. CASE j # i
    BY <2>2, PairLive, PairLiveNext DEF KeyReplaced, SameShape
  <2> QED BY <2>1, <2>2
<1> HIDE DEF old
<1>4. LivePairs' = (LivePairs \ {<<i, old>>}) \union {<<i, lastKey + 1>>}
  BY <1>3, OnlyPairs, OnlyPairsNext
<1> QED BY <1>1, <1>4 DEF old

\* A revocation retires one live key.
LEMMA RevokeRetires ==
  ASSUME NEW i \in DOMAIN principals, RowRevoked(i)
  PROVE  LET pair == <<i, principals[i].key_hash[2]>>
         IN  pair \in LivePairs /\ LivePairs' = LivePairs \ {pair}
<1> DEFINE old == principals[i].key_hash[2]
<1>1. <<i, old>> \in LivePairs
  BY PairLive DEF RowRevoked
<1>2. ASSUME NEW j, NEW k
      PROVE  <<j, k>> \in LivePairs' <=> <<j, k>> \in LivePairs /\ ~(j = i /\ k = old)
  BY PairLive, PairLiveNext DEF RowRevoked, SameShape
<1> HIDE DEF old
<1>3. LivePairs' = LivePairs \ {<<i, old>>}
  BY <1>2, OnlyPairs, OnlyPairsNext
<1> QED BY <1>1, <1>3 DEF old

\* Initial tables map to initial registries.
LEMMA RegistryInit == Init => Registry!Init
<1> SUFFICES ASSUME Init PROVE Registry!Init
  OBVIOUS
<1> DEFINE Found(t) == [enrolled |-> Len(t), live |-> LivePairsOf(t)]
<1>1. Found(principals) \in {Found(t) : t \in InitTables}
  BY DEF Init
<1>2. Len(principals) = Found(principals).enrolled /\ LivePairsOf(principals) = Found(principals).live
  OBVIOUS
<1> QED BY <1>1, <1>2 DEF Init, Registry!Init

\* What a step does to the table is a step of the registry.
LEMMA RegistryStep ==
  ASSUME TypeInv, TableStep
  PROVE  [Registry!Next]_(Registry!registry)
<1> USE DEF LivePairs
<1>1. CASE TableUnchanged
  BY <1>1 DEF TableUnchanged, Registry!registry
<1>2. CASE RowAdded
  <2>1. Registry!Enroll
    BY <1>2, AddEnrolls DEF RowAdded, Registry!Enroll
  <2> QED BY <2>1 DEF Registry!Next
<1>3. ASSUME NEW i \in DOMAIN principals, RowUpdated(i)
      PROVE  UNCHANGED Registry!registry
  BY <1>3, UpdateKeepsPairs DEF RowUpdated, SameShape, Registry!registry
<1>4. ASSUME NEW i \in DOMAIN principals, KeyReplaced(i)
      PROVE  Registry!Next
  <2> DEFINE pair == <<i, principals[i].key_hash[2]>>
  <2>1. /\ pair \in LivePairsOf(principals)
        /\ pair[1] = i
        /\ LivePairsOf(principals)' = (LivePairsOf(principals) \ {pair}) \union {<<i, lastKey + 1>>}
    BY <1>4, ReplaceReplaces
  <2> HIDE DEF pair
  <2>2. Registry!Replace(pair)
    BY <1>4, <2>1 DEF KeyReplaced, SameShape, Registry!Replace
  <2> QED BY <2>1, <2>2 DEF Registry!Next
<1>5. ASSUME NEW i \in DOMAIN principals, RowRevoked(i)
      PROVE  Registry!Next
  <2> DEFINE pair == <<i, principals[i].key_hash[2]>>
  <2>1. /\ pair \in LivePairsOf(principals)
        /\ LivePairsOf(principals)' = LivePairsOf(principals) \ {pair}
    BY <1>5, RevokeRetires
  <2> HIDE DEF pair
  <2>2. Registry!Retire(pair)
    BY <1>5, <2>1 DEF RowRevoked, SameShape, Registry!Retire
  <2> QED BY <2>1, <2>2 DEF Registry!Next
<1> QED BY <1>1, <1>2, <1>3, <1>4, <1>5 DEF TableStep

(***************************************************************************)
(* The server implements the registry of keys: seen as (enrolled, issued,  *)
(* live), every step of every request enrolls, replaces, retires or does   *)
(* nothing.                                                                *)
(***************************************************************************)
THEOREM ImplementsRegistry == Spec => KeysImplementRegistry
<1>1. TypeInv /\ [Next]_vars => TypeInv'
  BY TypeStep
<1>2. TypeInv /\ [Next]_vars => [Registry!Next]_(Registry!registry)
  BY StepIsTableStep, RegistryStep
<1> QED
  BY TypeInit, RegistryInit, <1>1, <1>2, PTL DEF Spec, KeysImplementRegistry, Registry!Spec
=============================================================================
