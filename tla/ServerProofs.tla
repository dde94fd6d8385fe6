---------------------------- MODULE ServerProofs ----------------------------
(***************************************************************************)
(* The composed server: it behaves as Principals and as SecretStore, so    *)
(* what is proved of either holds of the two over one connection; and what *)
(* its requests on secrets may do follows the table of principals.         *)
(***************************************************************************)
EXTENDS Server, PrincipalsProofs

-----------------------------------------------------------------------------
(* The two components are there, undisturbed.                              *)

\* A step of the server is a step of either component or leaves it alone.
LEMMA StepsOfComponents ==
  ASSUME [ServerNext]_serverVars
  PROVE  [Next]_vars /\ [Secrets!Next]_(Secrets!vars)
<1>1. secretVars' = secretVars <=> Secrets!vars' = Secrets!vars
  BY DEF secretVars, Secrets!vars
<1>2. CASE ManagePrincipals
  BY <1>1, <1>2 DEF ManagePrincipals, Next
<1>3. ASSUME NEW r \in SecretRequests,
             SendSecret(r) \/ AuthenticateSecret(r) \/ ServeSecret(r)
      PROVE  UNCHANGED vars /\ Secrets!Step(r)
  BY <1>3 DEF SendSecret, AuthenticateSecret, ServeSecret, Secrets!Step
<1>4. CASE UNCHANGED serverVars
  BY <1>1, <1>4 DEF serverVars
<1> QED BY <1>2, <1>3, <1>4 DEF ServerNext, AllFinished, Secrets!Next

(***************************************************************************)
(* Under requests on secrets, the principals behave as Principals says:    *)
(* every property proved of Principals holds of the server.                *)
(***************************************************************************)
THEOREM ServerKeepsPrincipals == ServerSpec => Spec
<1>1. ServerInit => Init
  BY DEF ServerInit
<1>2. [ServerNext]_serverVars => [Next]_vars
  BY StepsOfComponents
<1> QED BY <1>1, <1>2, PTL DEF ServerSpec, Spec

(***************************************************************************)
(* With the table of principals behind authenticate, the secrets behave as *)
(* SecretStore says, which leaves open whom authenticate returns.          *)
(***************************************************************************)
THEOREM ServerKeepsSecrets == ServerSpec => Secrets!Spec
<1>1. ServerInit => Secrets!Init
  BY DEF ServerInit
<1>2. [ServerNext]_serverVars => [Secrets!Next]_(Secrets!vars)
  BY StepsOfComponents
<1> QED BY <1>1, <1>2, PTL DEF ServerSpec, Secrets!Spec

-----------------------------------------------------------------------------
(* The invariant.                                                          *)

SecretStages == Secrets!Ops \union {"audit"}

\* The request has a caller, one that may do what it asks.
MayAct(r) ==
  /\ secret_caller[r] # NULL
  /\ secret_req[r].op \in {"put", "delete"} => secret_caller[r].role # "reader"

\* What a key that was dead when it was sent has come to.
LateIsNobody(r) == late[r] =>
  /\ header[r].key \notin LiveKeys
  /\ secret_caller[r] = NULL /\ secret_found[r] = NULL

\* What has been established about request r by the time it awaits its section.
Established(r) ==
  /\ secret_pc[r] = "idle" => ~late[r]
  /\ secret_pc[r] # "idle" => header[r] \in Header /\ header[r].key \in 0..lastKey
  /\ secret_pc[r] = "auth" => secret_req[r].op \in Secrets!Ops
  /\ secret_pc[r] \in {"idle", "auth"} => secret_caller[r] = NULL /\ secret_found[r] = NULL
  /\ secret_pc[r] \in SecretStages \/ secret_found[r] # NULL => MayAct(r)

\* The caller is a row of the table, with a role its key has had since.
CallerKnown(r) ==
  /\ secret_pc[r] = "auth" => RolesNow(r) \subseteq entitled[r]
  /\ secret_caller[r] # NULL =>
       secret_caller[r].id \in DOMAIN principals /\ secret_caller[r].role \in entitled[r]

Shapes ==
  /\ header \in [SecretRequests -> Header \union {NULL}]
  /\ late \in [SecretRequests -> BOOLEAN]
  /\ entitled \in [SecretRequests -> SUBSET Role]
  /\ DOMAIN secret_pc = SecretRequests /\ DOMAIN secret_req = SecretRequests
  /\ DOMAIN secret_caller = SecretRequests /\ DOMAIN secret_found = SecretRequests

ServerInv ==
  /\ TableInv /\ Shapes
  /\ \A r \in SecretRequests : Established(r) /\ LateIsNobody(r) /\ CallerKnown(r)

-----------------------------------------------------------------------------
(* It is inductive.                                                        *)

LEMMA ServerInvInit == ServerInit => ServerInv
<1> SUFFICES ASSUME ServerInit PROVE ServerInv
  OBVIOUS
<1>1. TableInv
  BY TableInit DEF ServerInit
<1>2. /\ secret_pc = [r \in SecretRequests |-> "idle"]
      /\ secret_req = [r \in SecretRequests |-> NULL]
      /\ secret_caller = [r \in SecretRequests |-> NULL]
      /\ secret_found = [r \in SecretRequests |-> NULL]
      /\ header = [r \in SecretRequests |-> NULL]
      /\ late = [r \in SecretRequests |-> FALSE]
      /\ entitled = [r \in SecretRequests |-> {}]
  BY DEF ServerInit, Secrets!Init
<1>3. Shapes
  BY <1>2 DEF Shapes
<1>4. ASSUME NEW r \in SecretRequests
      PROVE  Established(r) /\ LateIsNobody(r) /\ CallerKnown(r)
  BY <1>2 DEF Established, LateIsNobody, CallerKnown, SecretStages, Secrets!Ops
<1> QED BY <1>1, <1>3, <1>4 DEF ServerInv

\* A step of the table loses no row and no issued key.
LEMMA TableGrows ==
  ASSUME TypeInv, TableStep
  PROVE  /\ DOMAIN principals \subseteq DOMAIN principals'
         /\ \A k \in 0..lastKey : k \in 0..lastKey'
<1>1. lastKey \in Nat
  BY DEF TypeInv, TypeOK
<1> QED
  BY <1>1 DEF TableStep, TableUnchanged, RowAdded, RowUpdated, KeyReplaced, RowRevoked, SameShape

\* The roles a key names are roles.
LEMMA RolesAreRoles ==
  ASSUME TypeInv', NEW r \in SecretRequests
  PROVE  RolesNow(r)' \subseteq Role
<1>1. ASSUME NEW i \in DOMAIN principals' PROVE principals'[i].role \in Role
  <2>1. principals' \in Seq(Row)
    BY DEF TypeInv, TypeOK
  <2>2. principals'[i] \in Row
    BY <2>1
  <2> QED BY <2>2 DEF Row
<1> QED BY <1>1 DEF RolesNow

\* Observing keeps the record of roles complete and typed.
LEMMA Observed ==
  ASSUME Shapes, TypeInv', Observe
  PROVE  /\ entitled' \in [SecretRequests -> SUBSET Role]
         /\ \A r \in SecretRequests :
              entitled[r] \subseteq entitled'[r] /\ RolesNow(r)' \subseteq entitled'[r]
BY RolesAreRoles DEF Observe, Shapes

\* A step of the principals.
LEMMA ManageKeeps ==
  ASSUME ServerInv, ManagePrincipals
  PROVE  ServerInv'
<1>1. /\ [Next]_vars /\ Observe
      /\ UNCHANGED <<secret_pc, secret_req, secret_caller, secret_found, header, late>>
  BY DEF ManagePrincipals, Next, secretVars
<1>2. TableInv' /\ TableStep /\ TypeInv /\ TypeInv'
  BY <1>1, TableInvStep, StepIsTableStep DEF ServerInv, TableInv
<1>3. Shapes'
  BY <1>1, <1>2, Observed DEF Shapes, ServerInv
<1>4. ASSUME NEW r \in SecretRequests
      PROVE  Established(r)' /\ LateIsNobody(r)' /\ CallerKnown(r)'
  <2>1. Established(r)'
    BY <1>1, <1>2, TableGrows DEF Established, MayAct, ServerInv
  <2>2. LateIsNobody(r)'
    <3>1. late[r] => header[r].key \in 0..lastKey
      BY DEF ServerInv, Established
    <3> QED BY <1>1, <1>2, <3>1, KeysStayDead DEF LateIsNobody, ServerInv
  <2>3. CallerKnown(r)'
    <3>1. entitled[r] \subseteq entitled'[r] /\ RolesNow(r)' \subseteq entitled'[r]
      BY <1>1, <1>2, Observed DEF ServerInv
    <3> QED BY <1>1, <1>2, <3>1, TableGrows DEF CallerKnown, ServerInv
  <2> QED BY <2>1, <2>2, <2>3
<1> QED BY <1>2, <1>3, <1>4 DEF ServerInv

\* The table, its roles and its keys are as they were.
LEMMA TableAsItWas ==
  ASSUME ServerInv, UNCHANGED vars
  PROVE  TableInv' /\ LiveKeys' = LiveKeys /\ UNCHANGED <<principals, lastKey>>
<1>1. [Next]_vars
  OBVIOUS
<1> QED BY <1>1, TableInvStep DEF ServerInv, vars, LiveKeys

\* A step of one request on secrets leaves what is known of the others.
LEMMA OthersStay ==
  ASSUME ServerInv, UNCHANGED vars, NEW s \in SecretRequests,
         secret_pc'[s] = secret_pc[s], secret_req'[s] = secret_req[s],
         secret_caller'[s] = secret_caller[s], secret_found'[s] = secret_found[s],
         header'[s] = header[s], late'[s] = late[s], entitled[s] \subseteq entitled'[s]
  PROVE  Established(s)' /\ LateIsNobody(s)' /\ CallerKnown(s)'
<1>1. LiveKeys' = LiveKeys /\ UNCHANGED <<principals, lastKey>>
  BY TableAsItWas
<1>2. Established(s)' /\ LateIsNobody(s)'
  BY <1>1 DEF ServerInv, Established, LateIsNobody, MayAct
<1>3. RolesNow(s)' = RolesNow(s)
  BY <1>1 DEF RolesNow
<1> QED BY <1>1, <1>2, <1>3 DEF ServerInv, CallerKnown

LEMMA SendKeeps ==
  ASSUME ServerInv, NEW r \in SecretRequests, SendSecret(r)
  PROVE  ServerInv'
<1>1. /\ TableInv' /\ TypeInv' /\ TypeInv /\ LiveKeys' = LiveKeys /\ UNCHANGED <<principals, lastKey>>
      /\ UNCHANGED vars /\ Observe /\ Shapes
  BY TableAsItWas DEF SendSecret, ServerInv, TableInv
<1>2. PICK key \in 0..lastKey :
        /\ header' = [header EXCEPT ![r] = [key |-> key, at |-> now]]
        /\ late' = [late EXCEPT ![r] = key \notin LiveKeys]
  BY DEF SendSecret
<1>3. [key |-> key, at |-> now] \in Header
  BY <1>1 DEF Header, TypeInv, TypeOK
<1>4. PICK call \in SecretCalls : secret_req' = [secret_req EXCEPT ![r] = call]
  BY DEF SendSecret, Secrets!Receive
<1>5. /\ secret_pc[r] = "idle" /\ secret_pc' = [secret_pc EXCEPT ![r] = "auth"]
      /\ UNCHANGED <<secret_caller, secret_found>>
  BY DEF SendSecret, Secrets!Receive, Secrets!Goto
<1>6. Shapes'
  <2>1. entitled' \in [SecretRequests -> SUBSET Role]
    BY <1>1, Observed
  <2> QED BY <1>1, <1>2, <1>3, <1>4, <1>5, <2>1 DEF Shapes
<1>7. ASSUME NEW s \in SecretRequests
      PROVE  Established(s)' /\ LateIsNobody(s)' /\ CallerKnown(s)'
  <2>1. entitled[s] \subseteq entitled'[s] /\ RolesNow(s)' \subseteq entitled'[s]
    BY <1>1, Observed
  <2>2. CASE s # r
    BY <1>1, <1>2, <1>4, <1>5, <2>1, <2>2, OthersStay DEF Shapes
  <2>3. CASE s = r
    <3>1. /\ secret_pc'[r] = "auth" /\ secret_req'[r] = call
          /\ header'[r] = [key |-> key, at |-> now]
      BY <1>1, <1>2, <1>4, <1>5 DEF Shapes
    <3>2. late'[r] = (key \notin LiveKeys)
      BY <1>1, <1>2, Zenon DEF Shapes
    <3>3. call.op \in Secrets!Ops
      BY ServerConstantsOK DEF Secrets!Call
    <3>4. secret_caller'[r] = NULL /\ secret_found'[r] = NULL
      BY <1>5 DEF ServerInv, Established
    <3>5. header'[r].key = key
      BY <3>1
    <3>6. Established(r)'
      BY <1>1, <1>3, <3>1, <3>3, <3>4, <3>5 DEF Established, SecretStages, Secrets!Ops
    <3>7. LateIsNobody(r)'
      BY <1>1, <3>2, <3>4, <3>5 DEF LateIsNobody
    <3>8. CallerKnown(r)'
      BY <2>1, <2>3, <3>4 DEF CallerKnown
    <3> QED BY <2>3, <3>6, <3>7, <3>8
  <2> QED BY <2>2, <2>3
<1> QED BY <1>1, <1>6, <1>7 DEF ServerInv

\* Whoever is let in has the key now, and a role that may do what is asked.
LEMMA AuthenticateKeeps ==
  ASSUME ServerInv, NEW r \in SecretRequests, AuthenticateSecret(r)
  PROVE  ServerInv'
<1>1. /\ TableInv' /\ LiveKeys' = LiveKeys /\ UNCHANGED <<principals, lastKey>>
      /\ UNCHANGED vars /\ Shapes
      /\ UNCHANGED <<header, late, entitled, secret_req, secret_found>>
  BY TableAsItWas DEF AuthenticateSecret, ServerInv, Secrets!Authenticate
<1>2. secret_pc[r] = "auth" /\ secret_caller[r] = NULL /\ secret_found[r] = NULL
      /\ secret_req[r].op \in Secrets!Ops /\ header[r] \in Header
  BY DEF AuthenticateSecret, Secrets!Authenticate, ServerInv, Established
<1>3. \/ Secrets!Answer(r, 401) /\ UNCHANGED secret_caller
      \/ \E p \in Callers :
           /\ secret_caller' = [secret_caller EXCEPT ![r] = p]
           /\ \/ Secrets!Admission(secret_req[r], p) = 200 /\ Secrets!Goto(r, secret_req[r].op)
              \/ \E status : Secrets!Answer(r, status)
  BY DEF AuthenticateSecret, Secrets!Authenticate
<1>4. secret_caller'[r] # NULL => \E i \in Holders(header[r]) :
        secret_caller'[r] = [id |-> i, role |-> principals[i].role]
  BY DEF AuthenticateSecret
<1>5. /\ \E stage : secret_pc' = [secret_pc EXCEPT ![r] = stage]
      /\ secret_pc'[r] # "done" => secret_pc'[r] = secret_req[r].op /\ MayAct(r)'
      /\ DOMAIN secret_caller' = SecretRequests
      /\ \A s \in SecretRequests : s # r => secret_caller'[s] = secret_caller[s]
  <2>1. CASE Secrets!Answer(r, 401) /\ UNCHANGED secret_caller
    BY <1>1, <2>1 DEF Secrets!Answer, Shapes
  <2>2. ASSUME NEW p \in Callers, secret_caller' = [secret_caller EXCEPT ![r] = p],
               Secrets!Admission(secret_req[r], p) = 200, Secrets!Goto(r, secret_req[r].op)
        PROVE  <1>5!1 /\ <1>5!2 /\ <1>5!3 /\ <1>5!4
    <3>1. secret_pc' = [secret_pc EXCEPT ![r] = secret_req[r].op] /\ secret_caller'[r] = p
      BY <1>1, <2>2 DEF Secrets!Goto, Shapes
    <3>2. ~(secret_req[r].op \in {"put", "delete"} /\ p.role = "reader")
      BY <2>2 DEF Secrets!Admission
    <3>3. MayAct(r)'
      BY <1>1, <3>1, <3>2, ServerConstantsOK DEF MayAct
    <3>4. secret_pc'[r] = secret_req[r].op
      BY <1>1, <3>1 DEF Shapes
    <3>5. <1>5!3 /\ <1>5!4
      BY <1>1, <2>2 DEF Shapes
    <3> QED BY <3>1, <3>3, <3>4, <3>5
  <2>3. ASSUME NEW p \in Callers, secret_caller' = [secret_caller EXCEPT ![r] = p],
               NEW status, Secrets!Answer(r, status)
        PROVE  <1>5!1 /\ <1>5!2 /\ <1>5!3 /\ <1>5!4
    BY <1>1, <2>3 DEF Secrets!Answer, Shapes
  <2> QED BY <1>3, <2>1, <2>2, <2>3
<1>6. Shapes'
  BY <1>1, <1>5 DEF Shapes
<1>7. ASSUME NEW s \in SecretRequests
      PROVE  Established(s)' /\ LateIsNobody(s)' /\ CallerKnown(s)'
  <2>1. CASE s # r
    BY <1>1, <1>5, <2>1, OthersStay DEF Shapes
  <2>2. CASE s = r
    <3>1. secret_caller'[r] # NULL =>
            \E i \in DOMAIN principals :
               /\ secret_caller'[r] = [id |-> i, role |-> principals[i].role]
               /\ principals[i].key_hash = HashKey(header[r].key) /\ ~principals[i].revoked
      BY <1>4 DEF Holders
    <3>2. secret_pc'[r] \notin {"idle", "auth"}
      BY <1>2, <1>5 DEF Secrets!Ops
    <3>3. Established(r)'
      <4>1. secret_pc'[r] \in SecretStages \/ secret_found'[r] # NULL => MayAct(r)'
        BY <1>1, <1>2, <1>5 DEF SecretStages, Secrets!Ops
      <4>2. header'[r] \in Header /\ header'[r].key \in 0..lastKey'
        BY <1>1, <1>2 DEF ServerInv, Established
      <4> QED BY <3>2, <4>1, <4>2 DEF Established
    <3>4. LateIsNobody(r)'
      <4>1. ASSUME secret_caller'[r] # NULL PROVE header[r].key \in LiveKeys
        <5>1. PICK i \in DOMAIN principals :
                principals[i].key_hash = HashKey(header[r].key) /\ ~principals[i].revoked
          BY <3>1, <4>1
        <5> QED BY <5>1 DEF LiveKeys, HashKey
      <4> QED BY <1>1, <1>2, <4>1 DEF LateIsNobody, ServerInv
    <3>5. CallerKnown(r)'
      <4>1. \A i \in DOMAIN principals :
              principals[i].key_hash = HashKey(header[r].key) /\ ~principals[i].revoked =>
                principals[i].role \in RolesNow(r)
        BY <1>2 DEF RolesNow
      <4>2. RolesNow(r) \subseteq entitled[r]
        BY <1>2 DEF ServerInv, CallerKnown
      <4>3. ASSUME secret_caller'[r] # NULL
            PROVE  secret_caller'[r].id \in DOMAIN principals /\ secret_caller'[r].role \in entitled[r]
        <5>1. PICK i \in DOMAIN principals :
                /\ secret_caller'[r] = [id |-> i, role |-> principals[i].role]
                /\ principals[i].key_hash = HashKey(header[r].key) /\ ~principals[i].revoked
          BY <3>1, <4>3
        <5>2. secret_caller'[r].id = i /\ secret_caller'[r].role = principals[i].role
          BY <5>1
        <5> QED BY <4>1, <4>2, <5>1, <5>2
      <4> QED BY <1>1, <3>2, <4>3 DEF CallerKnown
    <3> QED BY <2>2, <3>3, <3>4, <3>5
  <2> QED BY <2>1, <2>2
<1> QED BY <1>1, <1>6, <1>7 DEF ServerInv

\* Later sections find something for a request that may act, or nothing.
LEMMA ServeKeeps ==
  ASSUME ServerInv, NEW r \in SecretRequests, ServeSecret(r)
  PROVE  ServerInv'
<1>1. /\ TableInv' /\ LiveKeys' = LiveKeys /\ UNCHANGED <<principals, lastKey>>
      /\ UNCHANGED vars /\ Shapes
      /\ UNCHANGED <<header, late, entitled>>
  BY TableAsItWas DEF ServeSecret, ServerInv
<1>2. /\ UNCHANGED <<secret_req, secret_caller>>
      /\ secret_pc[r] # "idle"
      /\ \E stage \in {"done", "gone", "audit"} :
           /\ secret_pc' = [secret_pc EXCEPT ![r] = stage]
           /\ stage = "audit" => secret_pc[r] \in Secrets!Ops
      /\ \/ UNCHANGED secret_found
         \/ secret_pc[r] \in Secrets!Ops /\ \E rows : secret_found' = [secret_found EXCEPT ![r] = rows]
  <2> USE DEF Secrets!Answer, Secrets!Goto, Secrets!Find, Secrets!Ops
  <2>1. CASE Secrets!PutSecret(r) \/ Secrets!DeleteSecret(r)
    BY <2>1 DEF Secrets!PutSecret, Secrets!DeleteSecret
  <2>2. CASE Secrets!GetSecret(r) \/ Secrets!ListSecrets(r) \/ Secrets!ListValues(r)
    BY <2>2 DEF Secrets!GetSecret, Secrets!ListSecrets, Secrets!ListValues
  <2>3. CASE Secrets!Audit(r) \/ Secrets!StatementFails(r) \/ Secrets!Abandon(r)
    BY <2>3 DEF Secrets!Audit, Secrets!StatementFails, Secrets!Abandon, Secrets!InFlight
  <2> QED BY <2>1, <2>2, <2>3 DEF ServeSecret
<1>3. Shapes'
  BY <1>1, <1>2 DEF Shapes
<1>4. ASSUME NEW s \in SecretRequests
      PROVE  Established(s)' /\ LateIsNobody(s)' /\ CallerKnown(s)'
  <2>1. CASE s # r
    BY <1>1, <1>2, <2>1, OthersStay DEF Shapes
  <2>2. CASE s = r
    <3>1. /\ secret_pc'[r] \in {"done", "gone", "audit"}
          /\ secret_pc'[r] = "audit" => secret_pc[r] \in Secrets!Ops
      BY <1>1, <1>2 DEF Shapes
    <3>2. MayAct(r)' <=> MayAct(r)
      BY <1>2 DEF MayAct
    <3>3. secret_pc'[r] = "audit" \/ secret_found'[r] # NULL => MayAct(r)
      BY <1>2, <3>1 DEF ServerInv, Established, SecretStages
    <3>4. Established(r)'
      BY <1>1, <1>2, <3>1, <3>2, <3>3 DEF ServerInv, Established, SecretStages, Secrets!Ops
    <3>5. LateIsNobody(r)'
      <4>1. late[r] => ~MayAct(r)
        BY DEF ServerInv, LateIsNobody, MayAct
      <4> QED BY <1>1, <1>2, <3>3, <4>1 DEF ServerInv, LateIsNobody
    <3>6. CallerKnown(r)'
      BY <1>1, <1>2, <3>1 DEF ServerInv, CallerKnown
    <3> QED BY <2>2, <3>4, <3>5, <3>6
  <2> QED BY <2>1, <2>2
<1> QED BY <1>1, <1>3, <1>4 DEF ServerInv

LEMMA ServerInvStep ==
  ASSUME ServerInv, [ServerNext]_serverVars
  PROVE  ServerInv'
<1>1. CASE UNCHANGED serverVars
  <2>1. /\ UNCHANGED vars
        /\ UNCHANGED <<secret_pc, secret_req, secret_caller, secret_found, header, late, entitled>>
    BY <1>1 DEF serverVars, secretVars
  <2>2. TableInv' /\ Shapes'
    BY <2>1, TableAsItWas DEF ServerInv, Shapes
  <2> QED BY <2>1, <2>2, OthersStay DEF ServerInv
<1> QED
  BY <1>1, ManageKeeps, SendKeeps, AuthenticateKeeps, ServeKeeps DEF ServerNext, AllFinished

-----------------------------------------------------------------------------
(* The properties.                                                         *)

(***************************************************************************)
(* Type correctness of what the composition adds; every caller is a row.   *)
(***************************************************************************)
THEOREM ServerTypesCorrect == ServerSpec => []ServerTypeOK
<1>1. ServerInv => ServerTypeOK
  <2> SUFFICES ASSUME ServerInv, NEW r \in SecretRequests
               PROVE  /\ secret_pc[r] # "idle" => header[r] # NULL
                      /\ secret_caller[r] # NULL => secret_caller[r].id \in DOMAIN principals
    BY DEF ServerInv, Shapes, ServerTypeOK
  <2> QED BY ServerConstantsOK DEF ServerInv, Established, CallerKnown
<1> QED BY <1>1, ServerInvInit, ServerInvStep, PTL DEF ServerSpec

(***************************************************************************)
(* A request on secrets that was sent with a key rotated away or revoked   *)
(* before finds and changes nothing, whatever is done to the principals.   *)
(***************************************************************************)
THEOREM DeadKeysOpenNothing == ServerSpec => []DeadKeyOpensNothing
<1>1. ServerInv => DeadKeyOpensNothing
  BY DEF ServerInv, LateIsNobody, DeadKeyOpensNothing
<1> QED BY <1>1, ServerInvInit, ServerInvStep, PTL DEF ServerSpec

(***************************************************************************)
(* Nothing is found or changed but for a key that was an active            *)
(* principal's, and one that might write, while the request waited.        *)
(***************************************************************************)
THEOREM AllServedAsEntitled == ServerSpec => []ServedAsEntitled
<1>1. ServerInv => ServedAsEntitled
  <2> SUFFICES ASSUME ServerInv, NEW r \in SecretRequests, secret_found[r] # NULL
               PROVE  \E role \in entitled[r] :
                        secret_req[r].op \in {"put", "delete"} => role # "reader"
    BY DEF ServedAsEntitled
  <2>1. MayAct(r) /\ secret_caller[r].role \in entitled[r]
    BY DEF ServerInv, Established, CallerKnown, MayAct
  <2> QED BY <2>1 DEF MayAct
<1> QED BY <1>1, ServerInvInit, ServerInvStep, PTL DEF ServerSpec

-----------------------------------------------------------------------------
(* Keys act for the principal they were handed out for.                    *)

\* A key in an answer was generated, and is in no row but the one told.
Issued(q) == minted[q] # NULL =>
  /\ minted[q].key \in 1..lastKey
  /\ \A i \in DOMAIN principals :
       principals[i].key_hash = HashKey(minted[q].key) => i = minted[q].id

\* Requests are sent with keys that exist, and with one until they end.
KeySent(r) == pc[r] # "idle" => req[r].key \in 0..lastKey

ActsFor(q, who, key) ==
  minted[q] # NULL /\ who # NULL /\ key = minted[q].key => who.id = minted[q].id

IssueInv ==
  /\ TableInv
  /\ \A q \in Requests : Issued(q) /\ KeySent(q)
  /\ \A q, r \in Requests : ActsFor(q, caller[r], req[r].key)

\* What a step does to an answer's key: nothing, or it is new, and in a row.
NewKey(q) ==
  /\ lastKey' = lastKey + 1 /\ minted'[q].key = lastKey + 1
  /\ minted'[q].id \in DOMAIN principals'
  /\ principals'[minted'[q].id].key_hash = HashKey(lastKey + 1)

LEMMA MintStep ==
  ASSUME TypeInv, [Next]_vars, NEW q \in Requests, minted'[q] # minted[q]
  PROVE  NewKey(q)
<1>1. ASSUME NEW r \in Requests, NEW i \in DOMAIN principals', NEW expires,
             AnswerWithKey(r, i, expires), principals'[i].key_hash = HashKey(lastKey + 1)
      PROVE  NewKey(q)
  <2>1. r = q /\ minted'[q] = [id |-> i, key |-> lastKey + 1, expires_at |-> expires]
    BY <1>1 DEF AnswerWithKey, TypeInv, TypeOK
  <2> QED BY <1>1, <2>1 DEF AnswerWithKey, NewKey
<1>2. ASSUME NEW r \in Requests, CreatePrincipal(r) PROVE NewKey(q)
  <2>1. lastKey' = lastKey + 1
    BY <1>2 DEF CreatePrincipal, AnswerWithKey
  <2>2. lastKey' # lastKey
    BY <2>1 DEF TypeInv, TypeOK
  <2> QED BY <1>1, <1>2, <2>2, CreateWrites
<1>3. ASSUME NEW r \in Requests, RotateKey(r) PROVE NewKey(q)
  <2>1. ~principals[current[r].id].revoked
    BY <1>3 DEF RotateKey
  <2> QED BY <1>1, <1>3, <2>1, RotateWrites
<1> QED
  BY <1>2, <1>3 DEF Next, Step, Tick, Finished, vars, Receive, Authenticate, FindForUpsert,
     CountAdmins, CheckRename, UpdatePrincipal, FindForRotate, RevokeKey, AuditRevoke,
     StatementFails, Abandon

\* A hash of an issued key comes into no other row.
LEMMA OldHash ==
  ASSUME TypeInv, TableStep, NEW k \in 0..lastKey, NEW i \in DOMAIN principals',
         principals'[i].key_hash = HashKey(k)
  PROVE  i \in DOMAIN principals /\ principals[i].key_hash = HashKey(k)
<1>1. HashKey(k) # HashKey(lastKey + 1)
  BY DEF HashKey, TypeInv, TypeOK
<1> QED
  BY <1>1 DEF TableStep, TableUnchanged, RowAdded, RowUpdated, KeyReplaced, RowRevoked, SameShape

LEMMA IssuedStep ==
  ASSUME TableInv, [Next]_vars, NEW q \in Requests, Issued(q)
  PROVE  Issued(q)'
<1>1. TypeInv /\ TableStep /\ TableInv' /\ lastKey \in Nat
  BY TableInvStep, StepIsTableStep DEF TableInv, TypeInv, TypeOK
<1>2. CASE minted'[q] = minted[q]
  <2>1. minted[q] # NULL => minted[q].key \in 0..lastKey /\ minted[q].key \in 1..lastKey
    BY DEF Issued
  <2>2. minted[q] # NULL => minted[q].key \in 1..lastKey'
    BY <1>1, <2>1, TableGrows
  <2>3. ASSUME minted[q] # NULL, NEW i \in DOMAIN principals',
               principals'[i].key_hash = HashKey(minted[q].key)
        PROVE  i = minted[q].id
    <3>1. PICK k \in 0..lastKey : k = minted[q].key
      BY <2>1, <2>3
    <3>2. i \in DOMAIN principals /\ principals[i].key_hash = HashKey(minted[q].key)
      BY <1>1, <2>3, <3>1, OldHash
    <3> QED BY <2>3, <3>2 DEF Issued
  <2> QED BY <1>2, <2>2, <2>3 DEF Issued
<1>3. CASE minted'[q] # minted[q]
  <2>1. NewKey(q)
    BY <1>1, <1>3, MintStep
  <2>2. \A i \in DOMAIN principals' :
          principals'[i].key_hash = HashKey(lastKey + 1) => i = minted'[q].id
    BY <1>1, <2>1 DEF NewKey, TableInv, LookupsUnambiguous
  <2>3. minted'[q].key \in 1..lastKey' /\ minted'[q].key = lastKey + 1
    BY <1>1, <2>1 DEF NewKey
  <2> QED BY <2>2, <2>3 DEF Issued
<1> QED BY <1>2, <1>3

\* A request keeps its key; before it sends one, it has no caller.
LEMMA KeyKept ==
  ASSUME TypeInv, [Next]_vars, NEW r \in Requests
  PROVE  \/ req'[r] = req[r] /\ (pc'[r] = "idle" <=> pc[r] = "idle")
         \/ pc[r] = "idle" /\ caller'[r] = NULL /\ req'[r].key \in 0..lastKey /\ lastKey' = lastKey
<1> USE DEF TypeInv, TypeOK
<1>1. ASSUME NEW s \in Requests, Receive(s)
      PROVE  \/ req'[r] = req[r] /\ (pc'[r] = "idle" <=> pc[r] = "idle")
             \/ pc[r] = "idle" /\ caller'[r] = NULL /\ req'[r].key \in 0..lastKey /\ lastKey' = lastKey
  <2>1. CASE s = r
    BY <1>1, <2>1 DEF Receive, Snapshots, Database, StagesOK, StageOK
  <2>2. CASE s # r
    BY <1>1, <2>2 DEF Receive, Goto
  <2> QED BY <2>1, <2>2
<1>2. ASSUME NEW s \in Requests, Step(s), ~Receive(s) PROVE pc'[r] = "idle" <=> pc[r] = "idle"
  <2>1. ASSUME NEW stage, Goto(s, stage), stage # "idle", pc[s] # "idle"
        PROVE pc'[r] = "idle" <=> pc[r] = "idle"
    BY <2>1 DEF Goto
  <2>2. ASSUME NEW status, Answer(s, status), pc[s] # "idle"
        PROVE pc'[r] = "idle" <=> pc[r] = "idle"
    BY <2>2 DEF Answer
  <2>3. \A i, expires : AnswerWithKey(s, i, expires) => Answer(s, 200)
    BY DEF AnswerWithKey
  <2>4. \A p : EnterRename(s, p) \/ EnterUpdate(s, p) =>
          \/ \E status : Answer(s, status)
          \/ \E stage \in {"update", "check_rename"} : Goto(s, stage)
    BY DEF EnterRename, EnterUpdate
  <2>5. CASE Authenticate(s)
    <3>1. req[s].call.op \in Ops /\ pc[s] = "auth"
      BY <2>5 DEF Authenticate, StagesOK, StageOK, Stages, Request, Call
    <3>2. req[s].call.op # "me" => FirstStage(req[s].call.op) # "idle"
      BY <3>1 DEF Ops, FirstStage
    <3> QED BY <2>1, <2>2, <2>5, <3>1, <3>2 DEF Authenticate
  <2>6. CASE FindForUpsert(s) \/ CountAdmins(s) \/ CheckRename(s)
    <3>1. pc[s] # "idle"
      BY <2>6 DEF FindForUpsert, CountAdmins, CheckRename
    <3> QED BY <2>1, <2>2, <2>4, <2>6, <3>1 DEF FindForUpsert, CountAdmins, CheckRename
  <2>7. CASE \/ UpdatePrincipal(s) \/ CreatePrincipal(s) \/ FindForRotate(s) \/ RotateKey(s)
             \/ RevokeKey(s) \/ AuditRevoke(s) \/ StatementFails(s) \/ Abandon(s)
    <3>1. pc[s] # "idle"
      BY <2>7 DEF UpdatePrincipal, CreatePrincipal, FindForRotate, RotateKey, RevokeKey,
         AuditRevoke, StatementFails, Abandon, InFlight
    <3>2. \/ \E status : Answer(s, status)
          \/ \E stage \in {"rotate", "audit", "gone"} : Goto(s, stage)
      BY <2>3, <2>7 DEF UpdatePrincipal, CreatePrincipal, FindForRotate, RotateKey, RevokeKey,
         AuditRevoke, StatementFails, Abandon
    <3> QED BY <2>1, <2>2, <3>1, <3>2
  <2> QED BY <1>2, <2>5, <2>6, <2>7 DEF Step
<1>3. CASE ~\E s \in Requests : Receive(s)
  <2>1. req' = req
    BY <1>3, SentUnchanged
  <2>2. pc'[r] = "idle" <=> pc[r] = "idle"
    BY <1>2, <1>3 DEF Next, Tick, Finished, vars
  <2> QED BY <2>1, <2>2
<1> QED BY <1>1, <1>3

\* A caller is who it was, or whoever has the request's key at this moment.
LEMMA CallerKept ==
  ASSUME TypeInv, [Next]_vars, NEW r \in Requests, caller'[r] # caller[r]
  PROVE  /\ UNCHANGED <<principals, lastKey, minted, req>>
         /\ \E i \in DOMAIN principals :
              principals[i].key_hash = HashKey(req[r].key) /\ caller'[r].id = i
<1>1. PICK s \in Requests : Authenticate(s)
  BY CallerUnchanged
<1>2. UNCHANGED <<principals, lastKey, minted, req>>
  BY <1>1 DEF Authenticate, Database
<1>3. PICK i \in DOMAIN principals :
        principals[i].key_hash = HashKey(req[s].key) /\ caller' = [caller EXCEPT ![s] = PrincipalOf(i)]
  BY <1>1 DEF Authenticate
<1>4. s = r /\ caller'[r] = PrincipalOf(i)
  BY <1>3 DEF TypeInv, TypeOK
<1> QED BY <1>2, <1>3, <1>4 DEF PrincipalOf

LEMMA IssueInvStep ==
  ASSUME IssueInv, [Next]_vars
  PROVE  IssueInv'
<1>1. TypeInv /\ TableStep /\ TableInv' /\ lastKey \in Nat
  BY TableInvStep, StepIsTableStep DEF IssueInv, TableInv, TypeInv, TypeOK
<1>2. \A q \in Requests : Issued(q)'
  BY IssuedStep DEF IssueInv
<1>3. \A r \in Requests : KeySent(r)'
  BY <1>1, KeyKept, TableGrows DEF IssueInv, KeySent
<1>4. ASSUME NEW q \in Requests, NEW r \in Requests, minted'[q] # NULL, caller'[r] # NULL,
             req'[r].key = minted'[q].key
      PROVE  caller'[r].id = minted'[q].id
  <2>1. CASE caller'[r] # caller[r]
    BY <1>1, <1>4, <2>1, CallerKept DEF IssueInv, Issued
  <2>2. CASE caller'[r] = caller[r]
    <3>1. req'[r] = req[r] /\ pc[r] # "idle"
      BY <1>1, <1>4, <2>2, KeyKept DEF TypeInv, StagesOK, StageOK
    <3>2. req[r].key \in 0..lastKey
      BY <3>1 DEF IssueInv, KeySent
    <3>3. minted'[q] = minted[q]
      <4>1. SUFFICES ASSUME minted'[q] # minted[q] PROVE FALSE
        OBVIOUS
      <4>2. minted'[q].key = lastKey + 1
        BY <1>1, <4>1, MintStep DEF NewKey
      <4> QED BY <1>1, <1>4, <3>1, <3>2, <4>2
    <3> QED BY <1>4, <2>2, <3>1, <3>3 DEF IssueInv, ActsFor
  <2> QED BY <2>1, <2>2
<1>5. \A q, r \in Requests : ActsFor(q, caller[r], req[r].key)'
  BY <1>4 DEF ActsFor
<1> QED BY <1>1, <1>2, <1>3, <1>5 DEF IssueInv

\* The callers of the requests on secrets.
SecretsActInv ==
  /\ ServerInv /\ IssueInv
  /\ \A q \in Requests, r \in SecretRequests : ActsFor(q, secret_caller[r], header[r].key)

\* A caller's request keeps its key; a new caller is whoever has the key.
LEMMA SecretCallerKept ==
  ASSUME ServerInv, [ServerNext]_serverVars, NEW r \in SecretRequests, secret_caller'[r] # NULL
  PROVE  /\ header'[r] = header[r] /\ header[r].key \in 0..lastKey
         /\ \/ secret_caller'[r] = secret_caller[r]
            \/ /\ UNCHANGED <<principals, lastKey, minted>>
               /\ \E i \in DOMAIN principals :
                    principals[i].key_hash = HashKey(header[r].key) /\ secret_caller'[r].id = i
<1> USE DEF ServerInv, Shapes
<1>1. \A s \in SecretRequests : secret_pc[s] # "idle" => header[s].key \in 0..lastKey
  BY DEF Established
<1>2. secret_caller[r] # NULL => secret_pc[r] # "idle"
  BY DEF Established
<1>3. CASE \/ ManagePrincipals \/ UNCHANGED serverVars
           \/ \E s \in SecretRequests : ServeSecret(s)
  <2>1. UNCHANGED <<header, secret_caller>>
    BY <1>3 DEF ManagePrincipals, serverVars, secretVars, ServeSecret, Secrets!PutSecret,
       Secrets!GetSecret, Secrets!DeleteSecret, Secrets!ListSecrets, Secrets!ListValues,
       Secrets!Audit, Secrets!StatementFails, Secrets!Abandon
  <2> QED BY <1>1, <1>2, <2>1
<1>4. ASSUME NEW s \in SecretRequests, SendSecret(s)
      PROVE  header'[r] = header[r] /\ secret_pc[r] # "idle" /\ UNCHANGED secret_caller
  <2>1. UNCHANGED secret_caller /\ secret_pc[s] = "idle"
    BY <1>4 DEF SendSecret, Secrets!Receive
  <2>2. r # s
    BY <1>2, <2>1
  <2> QED BY <1>2, <1>4, <2>1, <2>2 DEF SendSecret
<1>5. ASSUME NEW s \in SecretRequests, AuthenticateSecret(s), secret_caller'[r] # secret_caller[r]
      PROVE  /\ s = r /\ secret_pc[r] = "auth" /\ UNCHANGED <<header, principals, lastKey, minted>>
             /\ \E i \in Holders(header[r]) :
                  secret_caller'[r] = [id |-> i, role |-> principals[i].role]
  <2>1. s = r
    BY <1>5 DEF AuthenticateSecret, Secrets!Authenticate
  <2>2. secret_pc[r] = "auth" /\ UNCHANGED <<header, principals, lastKey, minted>>
    BY <1>5, <2>1 DEF AuthenticateSecret, Secrets!Authenticate, vars
  <2> QED BY <1>5, <2>1, <2>2 DEF AuthenticateSecret
<1>6. ASSUME NEW s \in SecretRequests, AuthenticateSecret(s), secret_caller'[r] = secret_caller[r]
      PROVE  UNCHANGED header /\ secret_pc[r] # "idle"
  BY <1>2, <1>6 DEF AuthenticateSecret
<1>7. ASSUME NEW s \in SecretRequests, AuthenticateSecret(s)
      PROVE  /\ UNCHANGED header /\ header[r].key \in 0..lastKey
             /\ \/ secret_caller'[r] = secret_caller[r]
                \/ /\ UNCHANGED <<principals, lastKey, minted>>
                   /\ \E i \in DOMAIN principals :
                        principals[i].key_hash = HashKey(header[r].key) /\ secret_caller'[r].id = i
  <2>1. CASE secret_caller'[r] = secret_caller[r]
    BY <1>1, <1>6, <1>7, <2>1
  <2>2. CASE secret_caller'[r] # secret_caller[r]
    <3>1. /\ secret_pc[r] = "auth" /\ UNCHANGED <<header, principals, lastKey, minted>>
          /\ \E i \in Holders(header[r]) :
               secret_caller'[r] = [id |-> i, role |-> principals[i].role]
      BY <1>5, <1>7, <2>2
    <3> QED BY <1>1, <3>1 DEF Holders
  <2> QED BY <2>1, <2>2
<1>8. ASSUME NEW s \in SecretRequests, SendSecret(s)
      PROVE  /\ header'[r] = header[r] /\ header[r].key \in 0..lastKey
             /\ secret_caller'[r] = secret_caller[r]
  BY <1>1, <1>4, <1>8
<1> HIDE DEF ServerInv, Shapes
<1> QED BY <1>3, <1>7, <1>8 DEF ServerNext, AllFinished

LEMMA SecretsActStep ==
  ASSUME SecretsActInv, [ServerNext]_serverVars
  PROVE  SecretsActInv'
<1>1. ServerInv' /\ IssueInv' /\ [Next]_vars /\ TypeInv /\ lastKey \in Nat
  BY ServerInvStep, IssueInvStep, StepsOfComponents
     DEF SecretsActInv, IssueInv, TableInv, TypeInv, TypeOK
<1>2. ASSUME NEW q \in Requests, NEW r \in SecretRequests, minted'[q] # NULL,
             secret_caller'[r] # NULL, header'[r].key = minted'[q].key
      PROVE  secret_caller'[r].id = minted'[q].id
  <2>1. /\ header'[r] = header[r] /\ header[r].key \in 0..lastKey
        /\ \/ secret_caller'[r] = secret_caller[r]
           \/ /\ UNCHANGED <<principals, lastKey, minted>>
              /\ \E i \in DOMAIN principals :
                   principals[i].key_hash = HashKey(header[r].key) /\ secret_caller'[r].id = i
    BY <1>2, SecretCallerKept DEF SecretsActInv
  <2>2. minted'[q] = minted[q]
    <3>1. SUFFICES ASSUME minted'[q] # minted[q] PROVE FALSE
      OBVIOUS
    <3>2. minted'[q].key = lastKey + 1
      BY <1>1, <3>1, MintStep DEF NewKey
    <3> QED BY <1>1, <1>2, <2>1, <3>2
  <2> QED BY <1>2, <2>1, <2>2 DEF SecretsActInv, IssueInv, Issued, ActsFor
<1> QED BY <1>1, <1>2 DEF SecretsActInv, ActsFor

(***************************************************************************)
(* Whoever was told "principal id, key" acts, and is logged, as that id    *)
(* whenever the key is used, for any requests of either kind.              *)
(***************************************************************************)
THEOREM AllKeysActAsIssued == ServerSpec => []KeysActAsIssued
<1>1. ServerInit => SecretsActInv
  <2> SUFFICES ASSUME ServerInit PROVE SecretsActInv
    OBVIOUS
  <2>1. ServerInv /\ TableInv
    BY ServerInvInit DEF ServerInv
  <2>2. \A q \in Requests : minted[q] = NULL /\ pc[q] = "idle"
    BY DEF ServerInit, Init
  <2> QED BY <2>1, <2>2 DEF SecretsActInv, IssueInv, Issued, KeySent, ActsFor
<1>2. SecretsActInv => KeysActAsIssued
  BY DEF SecretsActInv, IssueInv, ActsFor, KeysActAsIssued
<1> QED BY <1>1, <1>2, SecretsActStep, PTL DEF ServerSpec

(***************************************************************************)
(* What Principals guarantees, the server guarantees: names and keys stay  *)
(* unambiguous, dead keys manage nobody, only authority does, revocations  *)
(* are logged and leave an admin, and the table is a registry of keys,     *)
(* with requests on secrets reading it at any time.                        *)
(***************************************************************************)
THEOREM ServerManagesAsPrincipals ==
  ServerSpec =>
    /\ [](TypeOK /\ LookupsUnambiguous)
    /\ [](ManagedWithAuthority /\ RevocationsAudited)
    /\ DeadKeyNeverWorks /\ RevokeKeepsAnAdmin /\ KeysImplementRegistry
<1>1. Spec => [](TypeOK /\ LookupsUnambiguous)
  BY TypeCorrect, LookupsStayUnambiguous, PTL
<1>2. Spec => [](ManagedWithAuthority /\ RevocationsAudited)
  BY AuthorityNeeded, RevocationsAreAudited, PTL
<1> QED
  BY <1>1, <1>2, ServerKeepsPrincipals, DeadKeysNeverWork, RevocationKeepsAnAdmin,
     ImplementsRegistry, PTL

-----------------------------------------------------------------------------
(* The secrets, with all that is proved of them.                           *)

\* SecretStore as Server instantiates it (Secrets), with its theorems.
Store == INSTANCE SecretStoreProofs WITH
  Requests <- SecretRequests, Calls <- SecretCalls,
  audit_log <- secret_log, pc <- secret_pc, req <- secret_req,
  caller <- secret_caller, found <- secret_found, reply <- secret_reply

\* The two instances start alike,
LEMMA SecretsInitIsStore == Secrets!Init => Store!Init
BY DEF Secrets!Init, Store!Init, Secrets!EmptyBag, Store!EmptyBag, Secrets!SetToBag, Store!SetToBag

\* take the same steps
LEMMA SecretsStepIsStore ==
  ASSUME NEW r \in SecretRequests, Secrets!Step(r)
  PROVE  Store!Step(r)
<1> USE DEF Secrets!Goto, Store!Goto, Secrets!Answer, Store!Answer, Secrets!Find, Store!Find
<1>1. Secrets!Receive(r) => Store!Receive(r)
  BY DEF Secrets!Receive, Store!Receive
<1>2. Secrets!Authenticate(r) => Store!Authenticate(r)
  BY DEF Secrets!Authenticate, Store!Authenticate, Secrets!Admission, Store!Admission,
         Secrets!BadPut, Store!BadPut, Secrets!ValidPath, Store!ValidPath,
         Secrets!ValidScope, Store!ValidScope, Secrets!ScopeOf, Store!ScopeOf,
         Secrets!TypeOf, Store!TypeOf, Secrets!Type, Store!Type
<1>3. Secrets!PutSecret(r) => Store!PutSecret(r)
  BY DEF Secrets!PutSecret, Store!PutSecret, Secrets!Seal, Store!Seal,
         Secrets!TypeOf, Store!TypeOf, Secrets!Empty, Store!Empty
<1>4. Secrets!GetSecret(r) => Store!GetSecret(r)
  BY DEF Secrets!GetSecret, Store!GetSecret, Secrets!RowsAt, Store!RowsAt,
         Secrets!Opens, Store!Opens
<1>5. Secrets!DeleteSecret(r) => Store!DeleteSecret(r)
  BY DEF Secrets!DeleteSecret, Store!DeleteSecret, Secrets!RowsAt, Store!RowsAt
<1> DEFINE listed == Secrets!ListedPaths(secret_req[r])
<1>6. Store!ListedPaths(secret_req[r]) = listed
  BY DEF Secrets!ListedPaths, Store!ListedPaths, Secrets!ScopeOf, Store!ScopeOf,
         Secrets!InProjectList, Store!InProjectList, Secrets!InList, Store!InList,
         Secrets!Like, Store!Like, Secrets!QueryPrefix, Store!QueryPrefix,
         Secrets!PathInScope, Store!PathInScope
<1> HIDE DEF listed
<1>7. Secrets!ListSecrets(r) => Store!ListSecrets(r)
  BY <1>6 DEF listed, Secrets!ListSecrets, Store!ListSecrets, Secrets!RowsAt, Store!RowsAt
<1>8. Secrets!ListValues(r) => Store!ListValues(r)
  BY <1>6 DEF listed, Secrets!ListValues, Store!ListValues, Secrets!RowsAt, Store!RowsAt,
         Secrets!Occupied, Store!Occupied, Secrets!Opens, Store!Opens
<1>9. Secrets!Audit(r) => Store!Audit(r)
  BY DEF Secrets!Audit, Store!Audit, Secrets!AuditRow, Store!AuditRow,
         Secrets!ScopeLabel, Store!ScopeLabel, Secrets!TypeOf, Store!TypeOf,
         Secrets!Occupied, Store!Occupied, Secrets!Cardinality, Store!Cardinality,
         Secrets!(+), Store!(+), Secrets!SetToBag, Store!SetToBag
<1>10. Secrets!StatementFails(r) => Store!StatementFails(r)
  BY DEF Secrets!StatementFails, Store!StatementFails, Secrets!InFlight, Store!InFlight
<1>11. Secrets!Abandon(r) => Store!Abandon(r)
  BY DEF Secrets!Abandon, Store!Abandon, Secrets!InFlight, Store!InFlight
<1> QED
  BY <1>1, <1>2, <1>3, <1>4, <1>5, <1>7, <1>8, <1>9, <1>10, <1>11
  DEF Secrets!Step, Store!Step

\* and ask the same of the constants.
LEMMA SecretsFit ==
  /\ Valid \subseteq Segments /\ Lower \in [Segments -> Segments] /\ NULL \notin Segments
  /\ Paths \subseteq Store!Path /\ NULL \notin Paths /\ NULL \notin Values
  /\ NULL \notin Store!Type /\ NULL \notin BOOLEAN /\ NULL \notin Nat
  /\ NULL \notin Store!Call /\ NULL \notin Store!Row
  /\ NULL \notin [Paths -> Store!Row \union {NULL}]
  /\ JsonTexts \subseteq Values /\ SecretCalls \subseteq Store!Call
  /\ \A call \in SecretCalls : call.op \in {"put", "get", "delete"} => call.path # NULL
  /\ Callers \subseteq [id : Nat, role : {"reader", "writer", "admin"}]
  /\ InitStores \subseteq [Paths -> Store!Row \union {NULL}]
  /\ SqlFaults \in BOOLEAN
  /\ Store!IsFiniteSet(SecretRequests)
  /\ \A t \in InitStores : \A path \in Paths :
       t[path] # NULL => Store!Opens(t[path].sealed, path, t[path].value_type)
<1>1. Store!Path = Secrets!Path /\ Store!Type = Secrets!Type
  BY DEF Store!Path, Secrets!Path, Store!Type, Secrets!Type
<1>2. Store!Row = Secrets!Row
  BY DEF Store!Row, Secrets!Row, Store!Sealed, Secrets!Sealed, Store!Type, Secrets!Type
<1>3. Store!Call = Secrets!Call
  BY DEF Store!Call, Secrets!Call, Store!Ops, Secrets!Ops, Store!Type, Secrets!Type
<1>4. Store!IsFiniteSet(SecretRequests)
  BY SecretsConstantsOK DEF IsFiniteSet, Store!IsFiniteSet
<1>5. \A sealed, path, type :
        Store!Opens(sealed, path, type) = Secrets!Opens(sealed, path, type)
  BY DEF Store!Opens, Secrets!Opens
<1> QED
  BY <1>1, <1>2, <1>3, <1>4, <1>5, SecretsConstantsOK, ServerConstantsOK, ConstantsOK DEF Role

(***************************************************************************)
(* What SecretStore guarantees, the server guarantees, although what       *)
(* authenticate returns now depends on the principals: its rows open, its  *)
(* log is exact and it is a linearizable map, under all that happens to    *)
(* the principals meanwhile.                                               *)
(***************************************************************************)
THEOREM ServerStoresAsSecretStore ==
  ServerSpec =>
    /\ [](Store!TypeOK /\ Store!RowsOpen /\ Store!AuditIsExact)
    /\ Store!StoreImplementsMap
<1>1. ServerInit => Store!Init
  BY SecretsInitIsStore DEF ServerInit
<1>2. [ServerNext]_serverVars => [Store!Next]_(Store!vars)
  <2>1. Secrets!vars' = Secrets!vars => Store!vars' = Store!vars
    BY DEF Secrets!vars, Store!vars
  <2>2. Secrets!Next => [Store!Next]_(Store!vars)
    BY <2>1, SecretsStepIsStore DEF Secrets!Next, Store!Next, Secrets!Finished
  <2> QED BY <2>1, <2>2, StepsOfComponents
<1>3. ServerSpec => Store!Spec
  BY <1>1, <1>2, PTL DEF ServerSpec, Store!Spec
<1>4. Store!Spec => []Store!TypeOK
  BY SecretsFit, Store!StoreTypesCorrect
<1>5. Store!Spec => []Store!RowsOpen
  BY SecretsFit, Store!RowsAlwaysOpen
<1>6. Store!Spec => []Store!AuditIsExact
  BY SecretsFit, Store!LogStaysExact
<1>7. Store!Spec => Store!StoreImplementsMap
  BY SecretsFit, Store!StoreIsAMap
<1> QED BY <1>3, <1>4, <1>5, <1>6, <1>7, PTL
=============================================================================
