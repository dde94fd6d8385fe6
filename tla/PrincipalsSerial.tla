-------------------------- MODULE PrincipalsSerial --------------------------
(***************************************************************************)
(* Principals under clients that wait: a request is sent when no other is  *)
(* being served. The clock runs on, also between two statements of one     *)
(* request. What the handlers do in up to five statements is then one      *)
(* operation of PrincipalApi.                                              *)
(***************************************************************************)
EXTENDS Principals

Alone(r) == \A s \in Requests : InFlight(s) => s = r

SerialNext ==
  \/ \E r \in Requests : Alone(r) /\ Step(r)
  \/ Tick
  \/ Finished

SerialSpec == Init /\ [][SerialNext]_vars

\* None is neither a request nor the answer that carries a key.
ASSUME NullIsNoRecord == NULL \notin Request \union [key : Nat, call : Call, since : Nat] \union CreatedKey

\* No call asks to create a principal whose ttl overflows: create_principal
\* drops such a ttl, which is documented nowhere.
TtlsFit == \A call \in Calls :
  call.op = "upsert" /\ call.rename = NULL /\ call.ttl # NULL => MaxTime + call.ttl <= U64Max

-----------------------------------------------------------------------------
(* Properties.                                                             *)

(***************************************************************************)
(* "Refusal to revoke or demote the last active admin" (CHANGELOG.md): if  *)
(* somebody was an active admin in the second a request arrived, somebody  *)
(* still is by that same reading of the clock, whatever creations,         *)
(* demotions, renames, rotations, ttls, revocations and requests dropped   *)
(* half-way came before. Time alone takes the last admin: by expiry, also  *)
(* that of an admin who was counted and expires before the UPDATE.         *)
(***************************************************************************)
OnlyTimeTakesAdmins ==
  [][\A r \in Requests :
       InFlight(r) /\ AdminsAt(req[r].at) # {} => AdminsAt(req[r].at)' # {}]_vars

\* The body of the answer to an update, a rotation or `me`: built from what
\* the handler found before its last statement, not from the row.
Told(r) ==
  LET call == req[r].call
      new == [id |-> minted[r].id, name |-> call.name,
              role |-> IF call.role = NULL THEN "reader" ELSE call.role,
              expires_at |-> minted[r].expires_at]
      updated == [id |-> current[r].id,
                  name |-> IF call.rename = NULL THEN current[r].name ELSE call.rename,
                  role |-> TargetRole(r, current[r]),
                  expires_at |-> IF newExpires[r].set THEN newExpires[r].at
                                 ELSE current[r].expires_at]
  IN  IF call.op = "revoke" THEN NULL
      ELSE IF call.op = "me" THEN caller[r]
      ELSE IF call.op = "rotate" THEN current[r]
      ELSE IF minted[r] # NULL THEN new ELSE updated

\* What a client knows of its call: a revocation takes effect before its
\* audit row is written and the answer sent.
Outcome(r) ==
  IF pc[r] = "gone" THEN [status |-> 0, about |-> NULL, key |-> NULL]
  ELSE IF pc[r] \notin {"done", "audit"} THEN NULL
  ELSE IF reply[r] \notin {200, NULL}
  THEN [status |-> reply[r], about |-> NULL, key |-> NULL]
  ELSE [status |-> 200, about |-> Told(r),
        key |-> IF minted[r] = NULL THEN NULL ELSE minted[r].key]

EntryOf(row) ==
  [name |-> row.name, role |-> row.role, key |-> row.key_hash[2],
   revoked |-> row.revoked, expires |-> row.expires_at]
Entries(t) == [i \in DOMAIN t |-> EntryOf(t[i])]

Asks == [r \in Requests |->
  IF req[r] = NULL THEN NULL
  ELSE [key |-> req[r].key, call |-> req[r].call, since |-> req[r].at]]
Outcomes == [r \in Requests |-> Outcome(r)]

Api == INSTANCE PrincipalApi WITH
  Clients <- Requests, Asked <- Calls, FirstTables <- {Entries(t) : t \in InitTables},
  FirstIssued <- IssuedKeys, FirstNow <- FirstTime, LastNow <- MaxTime,
  LastTime <- U64Max, Absent <- NULL,
  clock <- now, table <- Entries(principals), issued <- lastKey,
  asked <- Asks, outcome <- Outcomes

(***************************************************************************)
(* Checks, refusals, updates and answers of all calls are those that       *)
(* docs/API.md describes, in any sequence: each request is refused for a   *)
(* documented reason that held while it was served, or does exactly what   *)
(* is documented to the table and is told the row it leaves, its expiry    *)
(* included.                                                               *)
(***************************************************************************)
SerialImplementsApi == Api!Spec
=============================================================================
