------------------------------- MODULE Server -------------------------------
(***************************************************************************)
(* One server: the requests that manage principals (Principals, whose      *)
(* definitions this module extends) and the requests on secrets            *)
(* (SecretStore) over the same connection. What SecretStore leaves open,   *)
(* whom authenticate returns, is here what the table of principals says    *)
(* when the request gets the connection, while other requests rotate,      *)
(* demote, rename and revoke the very principals that call.                *)
(***************************************************************************)
EXTENDS Principals

CONSTANTS
  SecretRequests,                      \* the requests on secrets
  SecretCalls,                         \* what they ask: SecretStore's Calls
  Callers,                             \* the principals the instance may have
  Segments, Valid, Lower,              \* SecretScope's
  Paths, Values, JsonTexts, MasterKey, InitStores     \* SecretStore's

VARIABLES
  secrets, secret_log, secret_pc, secret_req, secret_caller, secret_found,
  secret_reply,
  header,       \* the key each request on secrets was sent with, and when
  late,         \* auxiliary: that key was already dead then
  entitled      \* auxiliary: the roles an active holder of that key has had
                \* since, up to the request's authentication

secretVars == <<secrets, secret_log, secret_pc, secret_req, secret_caller,
                secret_found, secret_reply>>
serverVars == <<vars, secretVars, header, late, entitled>>

Secrets == INSTANCE SecretStore WITH
  Requests <- SecretRequests, Calls <- SecretCalls,
  audit_log <- secret_log, pc <- secret_pc, req <- secret_req,
  caller <- secret_caller, found <- secret_found, reply <- secret_reply

Header == [key : Nat, at : Nat]

ASSUME ServerConstantsOK ==
  /\ SecretRequests \intersect Requests = {}
  /\ Callers \subseteq [id : Nat, role : Role] /\ NULL \notin Callers
  /\ SecretCalls \subseteq Secrets!Call
  /\ NULL \notin Header

\* What SecretStore and SecretScope ask of the same constants.
ASSUME SecretsConstantsOK ==
  /\ Valid \subseteq Segments /\ Lower \in [Segments -> Segments]
  /\ Paths \subseteq Secrets!Path /\ JsonTexts \subseteq Values
  /\ NULL \notin Segments /\ NULL \notin Paths /\ NULL \notin Values
  /\ NULL \notin Secrets!Type /\ NULL \notin BOOLEAN
  /\ NULL \notin Secrets!Call /\ NULL \notin Secrets!Row
  /\ NULL \notin [Paths -> Secrets!Row \union {NULL}]
  /\ \A call \in SecretCalls : call.op \in {"put", "get", "delete"} => call.path # NULL
  /\ InitStores \subseteq [Paths -> Secrets!Row \union {NULL}]
  /\ \A t \in InitStores : \A path \in Paths :
       t[path] # NULL => Secrets!Opens(t[path].sealed, path, t[path].value_type)
  /\ IsFiniteSet(SecretRequests)

-----------------------------------------------------------------------------
(* Authentication across the two.                                          *)

\* Mutant: whether the row was revoked is not looked at.
HoldersRevokedOrNot(h) ==
  {i \in DOMAIN principals :
     principals[i].key_hash = HashKey(h.key) /\ Unexpired(principals[i], h.at)}

\* The rows a header authenticates as (LookupsUnambiguous: at most one).
Holders(h) ==
  {i \in DOMAIN principals :
     /\ principals[i].key_hash = HashKey(h.key)
     /\ Unexpired(principals[i], h.at)
     /\ ~principals[i].revoked}

\* The roles of the rows that a waiting request's key names as things are.
RolesNow(r) ==
  IF secret_pc[r] # "auth" THEN {}
  ELSE {principals[i].role : i \in {j \in DOMAIN principals :
          principals[j].key_hash = HashKey(header[r].key) /\ ~principals[j].revoked}}

Observe == entitled' = [r \in SecretRequests |-> entitled[r] \union RolesNow(r)']

ServerInit ==
  /\ Init
  /\ Secrets!Init
  /\ header = [r \in SecretRequests |-> NULL]
  /\ late = [r \in SecretRequests |-> FALSE]
  /\ entitled = [r \in SecretRequests |-> {}]

\* A request on secrets arrives and reads the clock; it waits to authenticate.
SendSecret(r) ==
  /\ Secrets!Receive(r)
  /\ \E key \in 0..lastKey :
       /\ header' = [header EXCEPT ![r] = [key |-> key, at |-> now]]
       /\ late' = [late EXCEPT ![r] = key \notin LiveKeys]
  /\ UNCHANGED vars
  /\ Observe

\* Mutant: who has the key is not looked up.
AuthenticateAnybody(r) ==
  /\ Secrets!Authenticate(r)
  /\ UNCHANGED <<vars, header, late, entitled>>

\* authenticate returns the principal that has the key now, or nobody.
AuthenticateSecret(r) ==
  /\ Secrets!Authenticate(r)
  /\ secret_caller'[r] \in
       IF Holders(header[r]) = {} THEN {NULL}
       ELSE {[id |-> i, role |-> principals[i].role] : i \in Holders(header[r])}
  /\ UNCHANGED <<vars, header, late, entitled>>

\* From there on a request on secrets does not look at the principals again.
ServeSecret(r) ==
  /\ \/ Secrets!PutSecret(r) \/ Secrets!GetSecret(r) \/ Secrets!DeleteSecret(r)
     \/ Secrets!ListSecrets(r) \/ Secrets!ListValues(r) \/ Secrets!Audit(r)
     \/ Secrets!StatementFails(r) \/ Secrets!Abandon(r)
  /\ UNCHANGED <<vars, header, late, entitled>>

\* A request that manages principals takes a step, or the clock does.
ManagePrincipals ==
  /\ (\E r \in Requests : Step(r)) \/ Tick
  /\ UNCHANGED <<secretVars, header, late>>
  /\ Observe

AllFinished ==
  /\ \A r \in Requests : pc[r] \in {"done", "gone"}
  /\ \A r \in SecretRequests : secret_pc[r] \in {"done", "gone"}
  /\ UNCHANGED serverVars

ServerNext ==
  \/ ManagePrincipals
  \/ \E r \in SecretRequests :
       SendSecret(r) \/ AuthenticateSecret(r) \/ ServeSecret(r)
  \/ AllFinished

ServerSpec == ServerInit /\ [][ServerNext]_serverVars

-----------------------------------------------------------------------------
(* Properties.                                                             *)

\* Everybody a request on secrets may act for is in the table of principals,
\* and rows never go.
ServerTypeOK ==
  /\ header \in [SecretRequests -> Header \union {NULL}]
  /\ late \in [SecretRequests -> BOOLEAN]
  /\ entitled \in [SecretRequests -> SUBSET Role]
  /\ \A r \in SecretRequests :
       /\ secret_pc[r] # "idle" => header[r] # NULL
       /\ secret_caller[r] # NULL => secret_caller[r].id \in DOMAIN principals

(***************************************************************************)
(* "subsequent auth attempts fail immediately" (README.md), seen from the  *)
(* secrets: a request sent with a key that was rotated away or revoked     *)
(* before finds, changes and logs nothing, whatever is done to the         *)
(* principals, that one included, before it gets the connection.           *)
(***************************************************************************)
DeadKeyOpensNothing ==
  \A r \in SecretRequests : late[r] =>
    secret_caller[r] = NULL /\ secret_found[r] = NULL

(***************************************************************************)
(* A demotion works on what is sent after it: nothing is found or changed  *)
(* for a request unless, between its arrival and its authentication, its   *)
(* key was that of an active principal, and one that might write if the    *)
(* request writes. (The role is a copy from then on; a request that has    *)
(* authenticated is not stopped by a later demotion or revocation.)        *)
(***************************************************************************)
ServedAsEntitled ==
  \A r \in SecretRequests : secret_found[r] # NULL =>
    \E role \in entitled[r] :
      secret_req[r].op \in {"put", "delete"} => role # "reader"

(***************************************************************************)
(* The audit log and the answers that hand out keys speak of the same      *)
(* principals: whoever is told "principal id, key" is logged under that id *)
(* whenever the key is used, through renames, rotations and new principals *)
(* with old names.                                                         *)
(***************************************************************************)
KeysActAsIssued ==
  \A q \in Requests : minted[q] # NULL =>
    /\ \A r \in SecretRequests :
         secret_caller[r] # NULL /\ header[r].key = minted[q].key =>
           secret_caller[r].id = minted[q].id
    /\ \A r \in Requests :
         caller[r] # NULL /\ req[r].key = minted[q].key =>
           caller[r].id = minted[q].id
=============================================================================
