----------------------------- MODULE Principals -----------------------------
(***************************************************************************)
(* The principals of one opaq server: the table `principals`, the requests *)
(* that read and change it (src/auth.rs, src/commands/), and the SQLite    *)
(* statements they run (src/db.rs).                                        *)
(*                                                                         *)
(* All requests share one connection behind a mutex. A handler takes the   *)
(* mutex for one statement (or one transaction), releases it, and awaits   *)
(* it again for the next: other requests run in between. So one action is  *)
(* one critical section together with the synchronous code that follows it *)
(* up to the handler's next await, and pc[r] names the section request r   *)
(* awaits. What a handler carries from one section to the next (caller,    *)
(* current, newExpires) is a snapshot that may be stale when it is used.   *)
(***************************************************************************)
EXTENDS Integers, Sequences, FiniteSets

CONSTANTS
  Requests,     \* HTTP requests, each handled once
  Names,        \* principal names
  Calls,        \* the requests a client may make (a subset of Call)
  InitTables,   \* tables a server may find in its database when it starts
  IssuedKeys,   \* keys 1..IssuedKeys were generated by earlier runs
  KeyPepper,    \* instance_meta.key_pepper, read once at startup
  FirstTime,    \* the clock when the process starts
  MaxTime,      \* bound: the clock stops here
  I64Max,       \* largest i64: what CAST(... AS INTEGER) saturates at
  U64Max,       \* largest u64: where now_secs() + ttl overflows
  SqlFaults,    \* TRUE if a statement may fail (disk full, I/O error)
  NULL          \* SQL NULL, Rust None, an absent JSON field

VARIABLES
  now,          \* seconds since the epoch, as now_secs() reads it
  principals,   \* the table; a row's id is its index (AUTOINCREMENT)
  lastKey,      \* keys 1..lastKey have been generated (random, so distinct)
  audit_log,    \* the "revoke_key" rows: <<principal_id, revoked key_id>>
  pc,           \* the section each request awaits
  req,          \* the request's key and arguments
  caller,       \* the Principal that authenticate returned for it
  current,      \* the Principal found by name (`current` in auth.rs)
  newExpires,   \* upsert_principal's Option<Option<String>>
  reply,        \* the HTTP status answered, NULL before that
  minted,       \* CreatedKey: the principal and the key in the answer
  spent         \* auxiliary: the request was sent with a key already dead

vars == <<now, principals, lastKey, audit_log, pc, req, caller, current,
          newExpires, reply, minted, spent>>

-----------------------------------------------------------------------------
(* Data.                                                                   *)

Role == {"reader", "writer", "admin"}

\* hash_key is a keyed HMAC: an injective function of the key.
HashKey(k) == <<KeyPepper, k>>

Row == [name : Names, key_hash : {KeyPepper} \X Nat, role : Role,
        revoked : BOOLEAN, expires_at : Nat \union {NULL}]

\* The fields of struct Principal that handlers use or answer. (created_at is
\* copied and never used; revoked_at is NULL in every principal they get.)
Principal == [id : Nat, name : Names, role : Role, expires_at : Nat \union {NULL}]
PrincipalOf(i) ==
  [id |-> i, name |-> principals[i].name, role |-> principals[i].role,
   expires_at |-> principals[i].expires_at]

Ops == {"upsert", "rotate", "revoke", "me"}

\* What a request asks: the union of the handlers' parameters and JSON bodies.
Call == [op : Ops, name : Names \union {NULL}, role : Role \union {NULL},
         ttl : Nat \union {NULL}, clear_ttl : BOOLEAN,
         rename : Names \union {NULL}, id : Nat]

\* Key 0 stands for a missing or malformed header, or a key never issued; `at`
\* is the clock as authenticate read it before it awaited the connection.
Request == [key : Nat, at : Nat, call : Call]

\* Option<Option<String>>: whether expires_at is set, and to what.
Expiry == [set : BOOLEAN, at : Nat \union {NULL}]
KeepExpiry == [set |-> FALSE, at |-> NULL]

CreatedKey == [id : Nat, key : Nat, expires_at : Nat \union {NULL}]

ASSUME ConstantsOK ==
  /\ NULL \notin Nat /\ NULL \notin Names /\ NULL \notin Role
  /\ Calls \subseteq Call
  /\ IssuedKeys \in Nat
  /\ FirstTime \in Nat /\ MaxTime \in Nat /\ FirstTime <= MaxTime
  /\ I64Max \in Nat /\ U64Max \in Nat
  /\ MaxTime < I64Max /\ I64Max < U64Max
  /\ SqlFaults \in BOOLEAN

\* The tables earlier runs leave behind (bootstrap_atomic's, to begin with).
ASSUME InitTablesOK ==
  \A t \in InitTables :
    /\ t \in Seq(Row)
    /\ \A i \in DOMAIN t : t[i].key_hash[2] \in 1..IssuedKeys
    /\ \A i, j \in DOMAIN t : i # j =>
         /\ t[i].key_hash # t[j].key_hash
         /\ t[i].revoked \/ t[j].revoked \/ t[i].name # t[j].name

-----------------------------------------------------------------------------
(* Queries.                                                                *)

\* Mutant: the CAST wraps to a time long past.
CastWraps(n) == IF n > I64Max THEN 0 ELSE n

\* CAST(expires_at AS INTEGER): SQLite saturates at the largest i64.
CastInteger(n) == IF n > I64Max THEN I64Max ELSE n

Unexpired(row, t) == row.expires_at = NULL \/ CastInteger(row.expires_at) > t

\* find_active_principal_by_name: an expired principal is still found.
FindActive(name) ==
  {i \in DOMAIN principals : principals[i].name = name /\ ~principals[i].revoked}

\* Mutant: the row that is to go counts for itself.
ActiveAdminsWithSelf(id) ==
  {i \in DOMAIN principals :
     /\ principals[i].role = "admin"
     /\ ~principals[i].revoked
     /\ Unexpired(principals[i], now)}

\* Mutant: the count before 0.2.0, to which an expired admin was an admin.
AdminsExpiredOrNot(id) ==
  {i \in DOMAIN principals :
     principals[i].role = "admin" /\ ~principals[i].revoked /\ i # id}

\* The SELECT COUNT(*) of count_active_admins_excluding and revoke_api_key.
ActiveAdminsExcluding(id) ==
  {i \in DOMAIN principals :
     /\ principals[i].role = "admin"
     /\ ~principals[i].revoked
     /\ i # id
     /\ Unexpired(principals[i], now)}

\* Mutant: without the partial unique index.
NameNeverTaken(id, name) == FALSE

\* idx_principals_active_name refuses row id under this name.
NameTaken(id, name) == \E i \in FindActive(name) : i # id

\* now_secs().checked_add(ttl) has no value.
TtlOverflows(ttl) == ttl # NULL /\ now + ttl > U64Max

-----------------------------------------------------------------------------
(* Answering and moving on.                                                *)

Database == <<principals, lastKey, audit_log>>
Snapshots == <<caller, current, newExpires>>

Goto(r, stage) == pc' = [pc EXCEPT ![r] = stage] /\ UNCHANGED reply

Answer(r, status) ==
  /\ pc' = [pc EXCEPT ![r] = "done"]
  /\ reply' = [reply EXCEPT ![r] = status]

\* Answer 200 with a freshly generated key for principal i.
AnswerWithKey(r, i, expires) ==
  /\ lastKey' = lastKey + 1
  /\ minted' = [minted EXCEPT ![r] = [id |-> i, key |-> lastKey + 1, expires_at |-> expires]]
  /\ Answer(r, 200)

InFlight(r) == pc[r] \notin {"idle", "done", "gone"}

Init ==
  /\ now = FirstTime
  /\ principals \in InitTables
  /\ lastKey = IssuedKeys
  /\ audit_log = {}
  /\ pc = [r \in Requests |-> "idle"]
  /\ req = [r \in Requests |-> NULL]
  /\ caller = [r \in Requests |-> NULL]
  /\ current = [r \in Requests |-> NULL]
  /\ newExpires = [r \in Requests |-> KeepExpiry]
  /\ reply = [r \in Requests |-> NULL]
  /\ minted = [r \in Requests |-> NULL]
  /\ spent = [r \in Requests |-> FALSE]

-----------------------------------------------------------------------------
(* Authentication.                                                         *)

\* The keys that authenticate, expiry aside.
LiveKeys == {principals[i].key_hash[2] :
               i \in {j \in DOMAIN principals : ~principals[j].revoked}}

\* A request arrives; its handler runs up to authenticate's wait for the lock.
Receive(r) ==
  /\ pc[r] = "idle"
  /\ \E key \in 0..lastKey, call \in Calls :
       /\ req' = [req EXCEPT ![r] = [key |-> key, at |-> now, call |-> call]]
       /\ spent' = [spent EXCEPT ![r] = key \notin LiveKeys]
  /\ Goto(r, "auth")
  /\ UNCHANGED <<now, Database, Snapshots, minted>>

\* Mutant: whoever authenticates may rotate any principal's key.
ForbiddenButRotate(call, p) == p.role # "admin" /\ call.op \notin {"me", "rotate"}

Forbidden(call, p) ==
  /\ p.role # "admin" /\ call.op # "me"
  /\ call.op = "rotate" => p.name # call.name

BadBody(call) ==
  call.name = NULL \/ call.ttl = 0 \/ (call.clear_ttl /\ call.ttl # NULL)

\* The status that stops an authenticated principal's call before its handler
\* reaches the database again, 200 if none does: rotate reads its body before
\* it looks at the caller's role, upsert after.
Admission(call, p) ==
  IF call.op = "rotate" /\ call.name = NULL THEN 400
  ELSE IF Forbidden(call, p) THEN 403
  ELSE IF call.op = "upsert" /\ BadBody(call) THEN 400
  ELSE 200

\* Where an admitted call goes on.
FirstStage(op) ==
  CASE op = "rotate" -> "rotate_find"
    [] op = "revoke" -> "revoke"
    [] op = "upsert" -> "upsert_find"

\* Mutant: whether the key is dead is looked at when the request arrives.
AuthenticateAsSent(r) ==
  /\ pc[r] = "auth"
  /\ LET hits == {i \in DOMAIN principals :
                    /\ principals[i].key_hash = HashKey(req[r].key)
                    /\ Unexpired(principals[i], req[r].at)}
     IN  \/ /\ spent[r] \/ hits = {}
            /\ Answer(r, 401)
            /\ UNCHANGED caller
         \/ /\ ~spent[r]
            /\ \E i \in hits :
                 /\ caller' = [caller EXCEPT ![r] = PrincipalOf(i)]
                 /\ LET call == req[r].call
                        status == Admission(call, PrincipalOf(i))
                    IN  IF status = 200 /\ call.op # "me"
                        THEN Goto(r, FirstStage(call.op))
                        ELSE Answer(r, status)
  /\ UNCHANGED <<now, Database, req, current, newExpires, minted, spent>>

\* extract_principal / require_admin and the handler's own checks.
Authenticate(r) ==
  /\ pc[r] = "auth"
  /\ LET hits == {i \in DOMAIN principals :
                    /\ principals[i].key_hash = HashKey(req[r].key)
                    /\ Unexpired(principals[i], req[r].at)}
     IN  \/ /\ \A i \in hits : principals[i].revoked
            /\ Answer(r, 401)
            /\ UNCHANGED caller
         \/ \E i \in hits :
              /\ ~principals[i].revoked
              /\ caller' = [caller EXCEPT ![r] = PrincipalOf(i)]
              /\ LET call == req[r].call
                     status == Admission(call, PrincipalOf(i))
                 IN  IF status = 200 /\ call.op # "me"
                     THEN Goto(r, FirstStage(call.op))
                     ELSE Answer(r, status)
  /\ UNCHANGED <<now, Database, req, current, newExpires, minted, spent>>

-----------------------------------------------------------------------------
(* Upsert: create the principal, or update the one that has the name.      *)

\* Mutant: no role in the body is taken for a role.
RequestedRole(r, p) == req[r].call.role

TargetRole(r, p) == IF req[r].call.role = NULL THEN p.role ELSE req[r].call.role

DemotesAdmin(r, p) == p.role = "admin" /\ TargetRole(r, p) # "admin"

Renames(r, p) == req[r].call.rename \notin {NULL, p.name}

\* Some column is to be set: otherwise update_principal_atomic returns at once.
HasUpdates(r, p, expires) ==
  req[r].call.rename # NULL \/ TargetRole(r, p) # p.role \/ expires.set

\* The synchronous code between the last check and the UPDATE.
EnterUpdate(r, p) ==
  LET call == req[r].call
      expires == IF call.clear_ttl THEN [set |-> TRUE, at |-> NULL]
                 ELSE IF call.ttl # NULL THEN [set |-> TRUE, at |-> now + call.ttl]
                 ELSE KeepExpiry
  IN  \/ /\ TtlOverflows(call.ttl)
         /\ Answer(r, 400)
         /\ UNCHANGED newExpires
      \/ /\ ~TtlOverflows(call.ttl)
         /\ newExpires' = [newExpires EXCEPT ![r] = expires]
         /\ IF HasUpdates(r, p, expires) THEN Goto(r, "update") ELSE Answer(r, 200)

EnterRename(r, p) ==
  \/ Renames(r, p) /\ Goto(r, "check_rename") /\ UNCHANGED newExpires
  \/ ~Renames(r, p) /\ EnterUpdate(r, p)

FindForUpsert(r) ==
  LET call == req[r].call
  IN  /\ pc[r] = "upsert_find"
      /\ \/ /\ FindActive(call.name) = {}
            /\ IF call.rename # NULL THEN Answer(r, 404) ELSE Goto(r, "create")
            /\ UNCHANGED <<current, newExpires>>
         \/ \E i \in FindActive(call.name) :
              /\ current' = [current EXCEPT ![r] = PrincipalOf(i)]
              /\ \/ /\ DemotesAdmin(r, PrincipalOf(i))
                    /\ Goto(r, "count_admins")
                    /\ UNCHANGED newExpires
                 \/ /\ ~DemotesAdmin(r, PrincipalOf(i))
                    /\ EnterRename(r, PrincipalOf(i))
      /\ UNCHANGED <<now, Database, req, caller, minted, spent>>

\* count_active_admins_excluding(current.id), and the refusal if it is 0.
CountAdmins(r) ==
  /\ pc[r] = "count_admins"
  /\ \/ /\ ActiveAdminsExcluding(current[r].id) = {}
        /\ Answer(r, 403)
        /\ UNCHANGED newExpires
     \/ /\ ActiveAdminsExcluding(current[r].id) # {}
        /\ EnterRename(r, current[r])
  /\ UNCHANGED <<now, Database, req, caller, current, minted, spent>>

CheckRename(r) ==
  /\ pc[r] = "check_rename"
  /\ \/ /\ FindActive(req[r].call.rename) # {}
        /\ Answer(r, 400)
        /\ UNCHANGED newExpires
     \/ /\ FindActive(req[r].call.rename) = {}
        /\ EnterUpdate(r, current[r])
  /\ UNCHANGED <<now, Database, req, caller, current, minted, spent>>

\* Mutant: an update makes the principal active again.
UpdatedAndRestored(r, row) ==
  [row EXCEPT !.revoked = FALSE,
              !.name = IF req[r].call.rename = NULL THEN @ ELSE req[r].call.rename,
              !.role = TargetRole(r, current[r]),
              !.expires_at = IF newExpires[r].set THEN newExpires[r].at ELSE @]

\* The columns update_principal_atomic sets: name if a rename was asked for,
\* role if it differs from the one found earlier, expires_at if planned.
Updated(r, row) ==
  LET call == req[r].call
  IN  [row EXCEPT
         !.name = IF call.rename = NULL THEN @ ELSE call.rename,
         !.role = IF TargetRole(r, current[r]) = current[r].role THEN @
                  ELSE TargetRole(r, current[r]),
         !.expires_at = IF newExpires[r].set THEN newExpires[r].at ELSE @]

\* UPDATE principals SET ... WHERE id = ?: also when the row was revoked since.
UpdatePrincipal(r) ==
  LET i == current[r].id
      rename == req[r].call.rename
      refused == rename # NULL /\ ~principals[i].revoked /\ NameTaken(i, rename)
  IN  /\ pc[r] = "update"
      /\ \/ refused /\ Answer(r, 500) /\ UNCHANGED principals
         \/ /\ ~refused
            /\ principals' = [principals EXCEPT ![i] = Updated(r, @)]
            /\ Answer(r, 200)
      /\ UNCHANGED <<now, lastKey, audit_log, req, Snapshots, minted, spent>>

\* create_principal_atomic: a ttl that overflows is dropped (and_then).
ExpiryOfNew(ttl) ==
  IF ttl = NULL \/ TtlOverflows(ttl) THEN NULL ELSE now + ttl

\* Mutant: the id is read before the INSERT.
CreateWithLastId(r) ==
  LET call == req[r].call
  IN  /\ pc[r] = "create"
      /\ FindActive(call.name) = {}
      /\ principals' = Append(principals,
           [name |-> call.name, key_hash |-> HashKey(lastKey + 1),
            role |-> IF call.role = NULL THEN "reader" ELSE call.role,
            revoked |-> FALSE, expires_at |-> ExpiryOfNew(call.ttl)])
      /\ AnswerWithKey(r, Len(principals), ExpiryOfNew(call.ttl))
      /\ UNCHANGED <<now, audit_log, req, Snapshots, spent>>

CreatePrincipal(r) ==
  LET call == req[r].call
  IN  /\ pc[r] = "create"
      /\ \/ /\ FindActive(call.name) # {}
            /\ Answer(r, 500)
            /\ UNCHANGED <<principals, lastKey, minted>>
         \/ /\ FindActive(call.name) = {}
            /\ principals' = Append(principals,
                 [name |-> call.name, key_hash |-> HashKey(lastKey + 1),
                  role |-> IF call.role = NULL THEN "reader" ELSE call.role,
                  revoked |-> FALSE, expires_at |-> ExpiryOfNew(call.ttl)])
            /\ AnswerWithKey(r, Len(principals) + 1, ExpiryOfNew(call.ttl))
      /\ UNCHANGED <<now, audit_log, req, Snapshots, spent>>

-----------------------------------------------------------------------------
(* Rotate: a new key for the principal that has the name.                  *)

FindForRotate(r) ==
  LET found == FindActive(req[r].call.name)
  IN  /\ pc[r] = "rotate_find"
      /\ \/ found = {} /\ Answer(r, 404) /\ UNCHANGED current
         \/ \E i \in found :
              /\ current' = [current EXCEPT ![r] = PrincipalOf(i)]
              /\ Goto(r, "rotate")
      /\ UNCHANGED <<now, Database, req, caller, newExpires, minted, spent>>

\* UPDATE principals SET key_hash WHERE id = ? AND revoked_at IS NULL
RotateKey(r) ==
  LET i == current[r].id
  IN  /\ pc[r] = "rotate"
      /\ \/ /\ principals[i].revoked
            /\ Answer(r, 404)
            /\ UNCHANGED <<principals, lastKey, minted>>
         \/ /\ ~principals[i].revoked
            /\ principals' = [principals EXCEPT ![i].key_hash = HashKey(lastKey + 1)]
            /\ AnswerWithKey(r, i, current[r].expires_at)
      /\ UNCHANGED <<now, audit_log, req, Snapshots, spent>>

-----------------------------------------------------------------------------
(* Revoke: the count and the UPDATE run under one hold of the mutex, the   *)
(* audit row under another.                                                *)

RevokeKey(r) ==
  LET id == req[r].call.id
      found == {i \in DOMAIN principals : i = id /\ ~principals[i].revoked}
  IN  /\ pc[r] = "revoke"
      /\ \/ /\ ActiveAdminsExcluding(id) = {}
            /\ Answer(r, 403)
            /\ UNCHANGED principals
         \/ /\ ActiveAdminsExcluding(id) # {} /\ found = {}
            /\ Answer(r, 404)
            /\ UNCHANGED principals
         \/ /\ ActiveAdminsExcluding(id) # {} /\ found # {}
            /\ principals' = [principals EXCEPT ![id].revoked = TRUE]
            /\ Goto(r, "audit")
      /\ UNCHANGED <<now, lastKey, audit_log, req, Snapshots, minted, spent>>

\* Mutant: a failure to log is ignored.
AuditRevokeUnlogged(r) ==
  /\ pc[r] = "audit"
  /\ Answer(r, 200)
  /\ UNCHANGED <<now, principals, lastKey, audit_log, req, Snapshots, minted, spent>>

AuditRevoke(r) ==
  /\ pc[r] = "audit"
  /\ audit_log' = audit_log \union {<<caller[r].id, req[r].call.id>>}
  /\ Answer(r, 200)
  /\ UNCHANGED <<now, principals, lastKey, req, Snapshots, minted, spent>>

-----------------------------------------------------------------------------
(* The surroundings.                                                       *)

\* A statement fails: SQLite rolls it back, `?` answers 500 (authenticate
\* maps every error to 401).
StatementFails(r) ==
  /\ SqlFaults /\ InFlight(r)
  /\ Answer(r, IF pc[r] = "auth" THEN 401 ELSE 500)
  /\ UNCHANGED <<now, Database, req, Snapshots, minted, spent>>

\* The client disconnects or the process dies: the handler's future is
\* dropped at the await it is in; what it committed stays.
Abandon(r) ==
  /\ InFlight(r)
  /\ Goto(r, "gone")
  /\ UNCHANGED <<now, Database, req, Snapshots, minted, spent>>

Tick ==
  /\ now < MaxTime
  /\ now' = now + 1
  /\ UNCHANGED <<Database, pc, req, Snapshots, reply, minted, spent>>

\* Every request has ended: nothing is left to do.
Finished ==
  /\ \A r \in Requests : pc[r] \in {"done", "gone"}
  /\ UNCHANGED vars

Step(r) ==
  \/ Receive(r) \/ Authenticate(r)
  \/ FindForUpsert(r) \/ CountAdmins(r) \/ CheckRename(r)
  \/ UpdatePrincipal(r) \/ CreatePrincipal(r)
  \/ FindForRotate(r) \/ RotateKey(r)
  \/ RevokeKey(r) \/ AuditRevoke(r)
  \/ StatementFails(r) \/ Abandon(r)

Next == (\E r \in Requests : Step(r)) \/ Tick \/ Finished

Spec == Init /\ [][Next]_vars

-----------------------------------------------------------------------------
(* Properties.                                                             *)

\* The sections only an admin's request gets to.
AdminStages == {"upsert_find", "count_admins", "check_rename", "update",
                "create", "revoke", "audit"}
Stages == AdminStages \union {"auth", "rotate_find", "rotate"}

TypeOK ==
  /\ now \in Nat
  /\ principals \in Seq(Row)
  /\ lastKey \in Nat
  /\ audit_log \subseteq Nat \X Nat
  /\ pc \in [Requests -> Stages \union {"idle", "done", "gone"}]
  /\ req \in [Requests -> Request \union {NULL}]
  /\ caller \in [Requests -> Principal \union {NULL}]
  /\ current \in [Requests -> Principal \union {NULL}]
  /\ newExpires \in [Requests -> Expiry]
  /\ reply \in [Requests -> {200, 400, 401, 403, 404, 500, NULL}]
  /\ minted \in [Requests -> CreatedKey \union {NULL}]
  /\ spent \in [Requests -> BOOLEAN]

(***************************************************************************)
(* However creations, renames and rotations interleave, no two active      *)
(* principals share a name and no two principals share a key, so every     *)
(* lookup by name or by key finds at most one. The handlers check names in *)
(* one section and write in a later one; only the partial unique index     *)
(* makes this true.                                                        *)
(***************************************************************************)
LookupsUnambiguous ==
  \A i, j \in DOMAIN principals : i # j =>
    /\ principals[i].key_hash # principals[j].key_hash
    /\ \/ principals[i].revoked \/ principals[j].revoked
       \/ principals[i].name # principals[j].name

(***************************************************************************)
(* "subsequent auth attempts fail immediately" (README), "the old key      *)
(* stops authenticating immediately" (docs/API.md): whatever rotations,    *)
(* renames, updates and revocations run meanwhile, a request authenticates *)
(* only with a key that is live at that moment, though authenticate hashed *)
(* it before it waited for the connection, and never with one that was     *)
(* rotated away or revoked before the request was sent.                    *)
(***************************************************************************)
DeadKeyNeverWorks ==
  [][\A r \in Requests :
       caller'[r] # caller[r] => ~spent[r] /\ req[r].key \in LiveKeys]_vars

(***************************************************************************)
(* No request gets past the role checks of extract_principal,              *)
(* require_admin and rotate_principal on another's authority: whatever is  *)
(* found, counted, created, updated or revoked is so for a request whose   *)
(* key belonged to an admin when it authenticated, and a key is replaced   *)
(* for an admin or for a caller that named itself.                         *)
(***************************************************************************)
ManagedWithAuthority ==
  \A r \in Requests :
    /\ pc[r] \in AdminStages => caller[r].role = "admin"
    /\ pc[r] \in {"rotate_find", "rotate"} =>
         caller[r].role = "admin" \/ caller[r].name = req[r].call.name
    /\ minted[r] # NULL =>
         \/ caller[r].role = "admin"
         \/ req[r].call.op = "rotate" /\ caller[r].name = req[r].call.name

(***************************************************************************)
(* The audit log and the answers of revoke_api_key tell the truth although *)
(* the revocation and its audit row are written under different holds of   *)
(* the mutex: a logged revocation happened and still holds, and a revoke   *)
(* answered 200 has been logged.                                           *)
(***************************************************************************)
RevocationsAudited ==
  /\ \A entry \in audit_log :
       entry[2] \in DOMAIN principals /\ principals[entry[2]].revoked
  /\ \A r \in Requests :
       reply[r] = 200 /\ req[r].call.op = "revoke" =>
         <<caller[r].id, req[r].call.id>> \in audit_log

\* Whose key authenticates at time t, as an admin: the expiry compared as the
\* number that was asked for, with no CAST.
AdminsAt(t) ==
  {i \in DOMAIN principals :
     /\ principals[i].role = "admin" /\ ~principals[i].revoked
     /\ principals[i].expires_at = NULL \/ principals[i].expires_at > t}
ActiveAdmins == AdminsAt(now)

Revokes == \E i \in DOMAIN principals :
             ~principals[i].revoked /\ principals'[i].revoked

Demotes == \E i \in DOMAIN principals :
             principals[i].role = "admin" /\ principals'[i].role # "admin"

(***************************************************************************)
(* "Revoking the last admin key is refused" (README): no revocation leaves *)
(* the table without an active admin, whichever requests run beside it.    *)
(***************************************************************************)
RevokeKeepsAnAdmin == [][Revokes => ActiveAdmins' # {}]_vars

(***************************************************************************)
(* The same for demotion: "Demoting the last admin returns 403"            *)
(* (docs/API.md). The code counts the other admins in one section and      *)
(* demotes in a later one.                                                 *)
(***************************************************************************)
DemoteKeepsAnAdmin == [][Demotes => ActiveAdmins' # {}]_vars

(***************************************************************************)
(* "Non-admins rotating other principals get 403" (docs/API.md): the key a *)
(* non-admin gets back is its own principal's. rotate_principal compares   *)
(* names, and rotate_principal_key looks the name up again later.          *)
(***************************************************************************)
NonAdminsRotateThemselves ==
  \A r \in Requests :
    minted[r] # NULL /\ caller[r].role # "admin" => minted[r].id = caller[r].id

-----------------------------------------------------------------------------
(* The abstract registry of keys, and the mapping to it.                   *)

LivePairsOf(table) == {<<i, table[i].key_hash[2]>> :
                         i \in {j \in DOMAIN table : ~table[j].revoked}}

Registry == INSTANCE KeyRegistry WITH
  FirstIssued <- IssuedKeys,
  FirstHolders <- {[enrolled |-> Len(t), live |-> LivePairsOf(t)] : t \in InitTables},
  enrolled <- Len(principals),
  issued <- lastKey,
  live <- LivePairsOf(principals)

(***************************************************************************)
(* The table under all its interleaved requests behaves as the registry of *)
(* keys: every step mints for a new principal, replaces one live key by a  *)
(* fresh one, retires one principal for good, or leaves the keys alone (an *)
(* upsert never touches them).                                             *)
(***************************************************************************)
KeysImplementRegistry == Registry!Spec

=============================================================================
