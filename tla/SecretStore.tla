---------------------------- MODULE SecretStore ----------------------------
(***************************************************************************)
(* The secrets of one opaq server: the table `secrets`, the requests that  *)
(* write, read, delete and list them (src/secrets.rs, src/commands/), and  *)
(* the audit rows they leave.                                              *)
(*                                                                         *)
(* As in Principals, one action is one hold of the connection's mutex with *)
(* the synchronous code that follows it. Every operation but the plain     *)
(* listings holds the mutex twice: once for its statement, once more for   *)
(* its audit row, and other requests run in between.                       *)
(***************************************************************************)
EXTENDS SecretScope, FiniteSets, Bags

CONSTANTS
  Requests,     \* HTTP requests, each handled once
  Paths,        \* the paths requests may name or find
  Values,       \* secret values
  JsonTexts,    \* the values that parse as JSON
  Calls,        \* the requests a client may make (a subset of Call)
  Callers,      \* the principals authenticate may return: [id, role]
  MasterKey,    \* derived at startup
  InitStores,   \* tables a server may serve when it starts
  SqlFaults     \* TRUE if a statement may fail (disk full, I/O error)

VARIABLES
  secrets,      \* the table: a row at each path, or NULL
  audit_log,    \* the bag of <<principal_id, action, path, detail>>
  pc,           \* the section each request awaits
  req,          \* the request's arguments
  caller,       \* the Principal that authenticate returned
  found,        \* the rows the request's statement wrote, removed or returned
  reply         \* the HTTP status answered, NULL before that

vars == <<secrets, audit_log, pc, req, caller, found, reply>>

-----------------------------------------------------------------------------
(* Data.                                                                   *)

Type == {"string", "json"}

\* AES-GCM under a key and associated data: it opens under the same two only.
Sealed == [key : {MasterKey}, aad : Paths \X Type, plain : Values]

\* Mutant: the type is left out of the associated data.
SealAsString(path, type, value) ==
  [key |-> MasterKey, aad |-> <<path, "string">>, plain |-> value]

\* encrypt_value_with_aad and decrypt_value_with_aad with secret_aad(path, type).
Seal(path, type, value) == [key |-> MasterKey, aad |-> <<path, type>>, plain |-> value]
Opens(sealed, path, type) == sealed.key = MasterKey /\ sealed.aad = <<path, type>>

Row == [value_type : Type, sealed : Sealed]

Ops == {"put", "get", "delete", "list", "values"}

\* The union of the handlers' parameters, queries and JSON bodies.
Call == [op : Ops, path : Paths \union {NULL}, type : Type \union {"other", NULL},
         value : Values \union {NULL}, ws : Segments, proj : Segments,
         env : Segments \union {NULL}, merge : BOOLEAN \union {NULL}]

ASSUME StoreConstantsOK ==
  /\ Paths \subseteq Path /\ NULL \notin Paths /\ NULL \notin Values
  /\ NULL \notin Type /\ NULL \notin BOOLEAN /\ NULL \notin Nat
  /\ NULL \notin Call /\ NULL \notin Row /\ NULL \notin [Paths -> Row \union {NULL}]
  /\ JsonTexts \subseteq Values
  /\ Calls \subseteq Call
  /\ \A call \in Calls : call.op \in {"put", "get", "delete"} => call.path # NULL
  /\ Callers \subseteq [id : Nat, role : {"reader", "writer", "admin"}]
  /\ InitStores \subseteq [Paths -> Row \union {NULL}]
  /\ SqlFaults \in BOOLEAN

ASSUME RequestsFinite == IsFiniteSet(Requests)

\* Boot leaves every row sealed under its own path and type.
ASSUME InitStoresOpen ==
  \A t \in InitStores : \A path \in Paths :
    t[path] # NULL => Opens(t[path].sealed, path, t[path].value_type)

Empty == [path \in Paths |-> NULL]

\* The rows of the table at the given paths.
RowsAt(paths) == [path \in Paths |-> IF path \in paths THEN secrets[path] ELSE NULL]

Occupied(rows) == {path \in Paths : rows[path] # NULL}

\* A missing "type" is a string.
TypeOf(call) == IF call.type = NULL THEN "string" ELSE call.type

\* Mutant: a missing ?merge does not merge.
ScopeUnmerged(call) ==
  [ws |-> call.ws, proj |-> call.proj, env |-> call.env,
   merge |-> IF call.env = NULL THEN TRUE ELSE call.merge = TRUE]

\* A missing ?merge merges, and a project's list passes merge_project = true.
ScopeOf(call) ==
  [ws |-> call.ws, proj |-> call.proj, env |-> call.env,
   merge |-> IF call.env = NULL \/ call.merge = NULL THEN TRUE ELSE call.merge]

\* Mutant: the values of a whole project are not filtered either.
ListedUnfiltered(call) ==
  LET s == ScopeOf(call)
  IN  IF call.env = NULL
      THEN {path \in Paths : InProjectList(path, s)}
      ELSE {path \in Paths : InList(path, s)}

\* The paths a listing's SELECT returns and its filter keeps.
ListedPaths(call) ==
  LET s == ScopeOf(call)
  IN  IF call.op = "list" /\ call.env = NULL
      THEN {path \in Paths : InProjectList(path, s)}
      ELSE {path \in Paths : InList(path, s)}

-----------------------------------------------------------------------------
(* Answering and moving on.                                                *)

Goto(r, stage) == pc' = [pc EXCEPT ![r] = stage] /\ UNCHANGED reply

Answer(r, status) ==
  /\ pc' = [pc EXCEPT ![r] = "done"]
  /\ reply' = [reply EXCEPT ![r] = status]

Find(r, rows) == found' = [found EXCEPT ![r] = rows]

InFlight(r) == pc[r] \notin {"idle", "done", "gone"}

Init ==
  /\ secrets \in InitStores
  /\ audit_log = EmptyBag
  /\ pc = [r \in Requests |-> "idle"]
  /\ req = [r \in Requests |-> NULL]
  /\ caller = [r \in Requests |-> NULL]
  /\ found = [r \in Requests |-> NULL]
  /\ reply = [r \in Requests |-> NULL]

-----------------------------------------------------------------------------
(* Requests arrive and are admitted.                                       *)

Receive(r) ==
  /\ pc[r] = "idle"
  /\ \E call \in Calls : req' = [req EXCEPT ![r] = call]
  /\ Goto(r, "auth")
  /\ UNCHANGED <<secrets, audit_log, caller, found>>

\* Mutant: any type is accepted.
BadPutButType(call) ==
  \/ call.value = NULL
  \/ ~ValidPath(call.path)
  \/ TypeOf(call) = "json" /\ call.value \notin JsonTexts

BadPut(call) ==
  \/ call.value = NULL
  \/ ~ValidPath(call.path)
  \/ TypeOf(call) \notin Type
  \/ TypeOf(call) = "json" /\ call.value \notin JsonTexts

\* Mutant: whoever may read may delete.
AdmissionToDelete(call, p) ==
  IF call.op = "put" /\ BadPut(call) THEN 400
  ELSE IF call.op \in {"list", "values"} /\ ~ValidScope(ScopeOf(call)) THEN 400
  ELSE IF call.op = "put" /\ p.role = "reader" THEN 403
  ELSE 200

\* The status that stops a call of principal p before its statement, 200 if
\* none does: the arguments are checked before the role. (parse_path accepts
\* every path a route builds.)
Admission(call, p) ==
  IF call.op = "put" /\ BadPut(call) THEN 400
  ELSE IF call.op \in {"list", "values"} /\ ~ValidScope(ScopeOf(call)) THEN 400
  ELSE IF call.op \in {"put", "delete"} /\ p.role = "reader" THEN 403
  ELSE 200

\* extract_principal, then the checks of the operation.
Authenticate(r) ==
  /\ pc[r] = "auth"
  /\ \/ Answer(r, 401) /\ UNCHANGED caller
     \/ \E p \in Callers :
          /\ caller' = [caller EXCEPT ![r] = p]
          /\ LET status == Admission(req[r], p)
             IN  IF status = 200 THEN Goto(r, req[r].op) ELSE Answer(r, status)
  /\ UNCHANGED <<secrets, audit_log, req, found>>

-----------------------------------------------------------------------------
(* The statements.                                                         *)

\* create_or_update: the SELECT and the UPDATE or INSERT share one hold.
PutSecret(r) ==
  LET call == req[r]
      row == [value_type |-> TypeOf(call),
              sealed |-> Seal(call.path, TypeOf(call), call.value)]
  IN  /\ pc[r] = "put"
      /\ secrets' = [secrets EXCEPT ![call.path] = row]
      /\ Find(r, [Empty EXCEPT ![call.path] = row])
      /\ Goto(r, "audit")
      /\ UNCHANGED <<audit_log, req, caller>>

\* get: the value is decrypted before the read is logged.
GetSecret(r) ==
  LET row == secrets[req[r].path]
  IN  /\ pc[r] = "get"
      /\ Find(r, RowsAt({req[r].path}))
      /\ \/ row = NULL /\ Answer(r, 404)
         \/ /\ row # NULL
            /\ IF Opens(row.sealed, req[r].path, row.value_type)
               THEN Goto(r, "audit") ELSE Answer(r, 500)
      /\ UNCHANGED <<secrets, audit_log, req, caller>>

\* Mutant: a deletion that affected no row is logged like any other.
DeleteAnyway(r) ==
  LET path == req[r].path
  IN  /\ pc[r] = "delete"
      /\ secrets' = [secrets EXCEPT ![path] = NULL]
      /\ Find(r, RowsAt({path}))
      /\ Goto(r, "audit")
      /\ UNCHANGED <<audit_log, req, caller>>

DeleteSecret(r) ==
  LET path == req[r].path
  IN  /\ pc[r] = "delete"
      /\ secrets' = [secrets EXCEPT ![path] = NULL]
      /\ Find(r, RowsAt({path}))
      /\ IF secrets[path] = NULL THEN Answer(r, 404) ELSE Goto(r, "audit")
      /\ UNCHANGED <<audit_log, req, caller>>

\* list and list_project answer paths and types, and leave no audit row.
ListSecrets(r) ==
  /\ pc[r] = "list"
  /\ Find(r, RowsAt(ListedPaths(req[r])))
  /\ Answer(r, 200)
  /\ UNCHANGED <<secrets, audit_log, req, caller>>

\* list_with_values: one value that does not open fails the whole listing.
ListValues(r) ==
  LET rows == RowsAt(ListedPaths(req[r]))
  IN  /\ pc[r] = "values"
      /\ Find(r, rows)
      /\ IF \A path \in Occupied(rows) : Opens(rows[path].sealed, path, rows[path].value_type)
         THEN Goto(r, "audit") ELSE Answer(r, 500)
      /\ UNCHANGED <<secrets, audit_log, req, caller>>

\* The audit row of a request that has run its statement.
ScopeLabel(call) ==
  IF call.env = NULL THEN <<call.ws, call.proj>> ELSE <<call.ws, call.proj, call.env>>

AuditRow(call, who, rows) ==
  CASE call.op = "put" -> <<who, "put_secret", call.path, TypeOf(call)>>
    [] call.op = "get" -> <<who, "get_secret", call.path, NULL>>
    [] call.op = "delete" -> <<who, "delete_secret", call.path, NULL>>
    [] call.op = "values" ->
         <<who, "list_with_values", ScopeLabel(call), Cardinality(Occupied(rows))>>

Audit(r) ==
  /\ pc[r] = "audit"
  /\ audit_log' = audit_log (+) SetToBag({AuditRow(req[r], caller[r].id, found[r])})
  /\ Answer(r, 200)
  /\ UNCHANGED <<secrets, req, caller, found>>

-----------------------------------------------------------------------------
(* The surroundings.                                                       *)

\* Mutant: a failure to log is ignored.
AuditFailureIgnored(r) ==
  /\ SqlFaults /\ InFlight(r)
  /\ Answer(r, IF pc[r] = "auth" THEN 401 ELSE IF pc[r] = "audit" THEN 200 ELSE 500)
  /\ UNCHANGED <<secrets, audit_log, req, caller, found>>

\* A statement fails: `?` answers 500, but authenticate maps every error to
\* 401 and get every error of its SELECT to 404.
StatementFails(r) ==
  /\ SqlFaults /\ InFlight(r)
  /\ Answer(r, IF pc[r] = "auth" THEN 401 ELSE IF pc[r] = "get" THEN 404 ELSE 500)
  /\ UNCHANGED <<secrets, audit_log, req, caller, found>>

\* The client disconnects or the process dies: the handler's future is
\* dropped at the await it is in; what it committed stays.
Abandon(r) ==
  /\ InFlight(r)
  /\ Goto(r, "gone")
  /\ UNCHANGED <<secrets, audit_log, req, caller, found>>

\* Every request has ended: nothing is left to do.
Finished ==
  /\ \A r \in Requests : pc[r] \in {"done", "gone"}
  /\ UNCHANGED vars

Step(r) ==
  \/ Receive(r) \/ Authenticate(r)
  \/ PutSecret(r) \/ GetSecret(r) \/ DeleteSecret(r)
  \/ ListSecrets(r) \/ ListValues(r) \/ Audit(r)
  \/ StatementFails(r) \/ Abandon(r)

Next == (\E r \in Requests : Step(r)) \/ Finished

Spec == Init /\ [][Next]_vars

-----------------------------------------------------------------------------
(* Properties.                                                             *)

Statuses == {200, 400, 401, 403, 404, 500}

TypeOK ==
  /\ secrets \in [Paths -> Row \union {NULL}]
  /\ IsABag(audit_log)
  /\ pc \in [Requests -> Ops \union {"idle", "auth", "audit", "done", "gone"}]
  /\ req \in [Requests -> Calls \union {NULL}]
  /\ caller \in [Requests -> Callers \union {NULL}]
  /\ found \in [Requests -> [Paths -> Row \union {NULL}] \union {NULL}]
  /\ reply \in [Requests -> Statuses \union {NULL}]

(***************************************************************************)
(* "Bind ciphertexts to per-secret associated data (path, type)"           *)
(* (CHANGELOG.md): whatever puts, type changes, deletions and lists        *)
(* interleave, every row of the table and every row a request carries past *)
(* an await opens under its own path and type.                             *)
(***************************************************************************)
RowsOpen ==
  \A path \in Paths :
    /\ secrets[path] # NULL => Opens(secrets[path].sealed, path, secrets[path].value_type)
    /\ \A r \in Requests : found[r] # NULL /\ found[r][path] # NULL =>
         Opens(found[r][path].sealed, path, found[r][path].value_type)

\* The requests that were told of a value read or a change made, and the
\* audit row of each. (The plain listings leave none.)
Served == {r \in Requests : reply[r] = 200 /\ req[r].op # "list"}
RowOf(r) == AuditRow(req[r], caller[r].id, found[r])

(***************************************************************************)
(* The audit log is exact, although a statement and its audit row are      *)
(* written under different holds of the mutex: every value handed out and  *)
(* every change confirmed has a row of its own, and every row stands for   *)
(* a request that found or made what the row says.                         *)
(***************************************************************************)
AuditIsExact ==
  /\ BagToSet(audit_log) = {RowOf(r) : r \in Served}
  /\ \A row \in BagToSet(audit_log) :
       audit_log[row] = Cardinality({r \in Served : RowOf(r) = row})
  /\ \A r \in Served : req[r].op = "values" \/ Occupied(found[r]) # {}

\* What a listing told its caller.
Listing(r) ==
  IF reply[r] = 200 /\ req[r].op \in {"list", "values"} THEN Occupied(found[r]) ELSE {}

(***************************************************************************)
(* "case-sensitive ... `Workspace` # `workspace`" (README.md): a listing   *)
(* shows secrets of the workspace and project that were asked for.         *)
(***************************************************************************)
ListingsKeepToTheirProject ==
  \A r \in Requests : \A path \in Listing(r) :
    path[1] = req[r].ws /\ path[2] = req[r].proj

(***************************************************************************)
(* What LIKE lets in besides (secrets.rs, list_project): nothing but the   *)
(* paths of a workspace and project whose names differ in case, and none   *)
(* where path_in_scope filters, in an environment or with values.          *)
(***************************************************************************)
ListingsKeepUpToCase ==
  \A r \in Requests : \A path \in Listing(r) :
    /\ Lower[path[1]] = Lower[req[r].ws] /\ Lower[path[2]] = Lower[req[r].proj]
    /\ req[r].op = "values" \/ req[r].env # NULL =>
         path[1] = req[r].ws /\ path[2] = req[r].proj

-----------------------------------------------------------------------------
(* The abstract map, and the mapping to it.                                *)

EntryOf(row) ==
  IF row = NULL THEN NULL ELSE [type |-> row.value_type, value |-> row.sealed.plain]
Plaintext(rows) == [path \in Paths |-> EntryOf(rows[path])]

\* "`opaq list /ws/proj/env` merges by default" (README.md).
Asked(call) ==
  [ws |-> call.ws, proj |-> call.proj, env |-> call.env, merge |-> call.merge # FALSE]

\* The listings that filter what LIKE returns do what is documented; the
\* project's plain list shows what LIKE returns.
OperationOf(call) ==
  IF call.op = "put"
  THEN [kind |-> "write", path |-> call.path,
        entry |-> [type |-> TypeOf(call), value |-> call.value]]
  ELSE IF call.op = "delete" THEN [kind |-> "remove", path |-> call.path]
  ELSE [kind |-> "read",
        paths |-> IF call.op = "get" THEN {call.path}
                  ELSE IF call.op = "list" /\ call.env = NULL THEN ListedPaths(call)
                  ELSE {path \in Paths : path \in Documented(Asked(call))}]

PhaseOf(r) ==
  IF pc[r] = "idle" THEN "idle"
  ELSE IF pc[r] \in Ops \union {"auth"} THEN "called"
  ELSE IF pc[r] = "audit" THEN "acted"
  ELSE IF reply[r] \in {200, 404} THEN "answered"
  ELSE "failed"

OpOf(r) == IF req[r] = NULL THEN NULL ELSE OperationOf(req[r])
OutcomeOf(r) == Plaintext(IF found[r] = NULL THEN Empty ELSE found[r])

Map == INSTANCE SecretMap WITH
  Operations <- {OperationOf(call) : call \in Calls},
  InitMaps <- {Plaintext(t) : t \in InitStores},
  Absent <- NULL, Misreads <- SqlFaults,
  store <- Plaintext(secrets),
  phase <- [r \in Requests |-> PhaseOf(r)],
  op <- [r \in Requests |-> OpOf(r)],
  outcome <- [r \in Requests |-> OutcomeOf(r)]

(***************************************************************************)
(* The sealed, audited, interleaved store behaves as a map on which each   *)
(* request acts at one instant between its arrival and its answer: a 200   *)
(* or 404 reports what the map held at that instant, a listing is a        *)
(* snapshot of exactly the documented scope, and nothing else changes it.  *)
(* Only where statements fail is there a 404 that reports nothing: get     *)
(* answers it when its SELECT fails, secret or no secret.                  *)
(***************************************************************************)
StoreImplementsMap == Map!Spec
=============================================================================
