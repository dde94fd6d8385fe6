---------------------------- MODULE PrincipalApi ----------------------------
(***************************************************************************)
(* What the documentation promises of the calls that manage principals     *)
(* (docs/API.md, README.md) to a client that waits for each answer: a call *)
(* is refused for a reason that holds, or takes effect as a whole and is   *)
(* answered with what the principal then is. There are no handlers, no     *)
(* statements and no order of checks here.                                 *)
(*                                                                         *)
(* A call takes time, and the clock runs on meanwhile. So what depends on  *)
(* the time, who is active and when a ttl ends, goes by the clock as it    *)
(* read at some moment between the call's arrival and its effect.          *)
(*                                                                         *)
(* PrincipalsSerial shows that Principals implements it when requests do   *)
(* not overlap.                                                            *)
(***************************************************************************)
EXTENDS Integers, Sequences

CONSTANTS
  Clients,      \* each makes one call
  Asked,        \* the calls they may make: Principals' Calls
  FirstTables,  \* the tables a server may find
  FirstIssued,  \* keys 1..FirstIssued were issued before
  FirstNow, LastNow,     \* the clock
  LastTime,     \* the largest expiry that can be written
  Absent

VARIABLES
  clock,
  table,        \* principals by id: [name, role, key, revoked, expires]
  issued,       \* keys 1..issued have been handed out
  asked,        \* what each client has asked for and when: [key, call, since]
  outcome       \* what it was told (both Absent before)

api == <<clock, table, issued, asked, outcome>>

Active(i, t) ==
  /\ ~table[i].revoked
  /\ table[i].expires = Absent \/ table[i].expires > t
Admins(t) == {i \in DOMAIN table : Active(i, t) /\ table[i].role = "admin"}
Holders(key, t) == {i \in DOMAIN table : Active(i, t) /\ table[i].key = key}
Named(name) == {i \in DOMAIN table : ~table[i].revoked /\ table[i].name = name}

\* The readings of the clock while r's call has been under way.
Meanwhile(r) == asked[r].since..clock

-----------------------------------------------------------------------------
(* Why a call may be refused at time t.                                    *)

IsAdmin(key, t) == Holders(key, t) \intersect Admins(t) # {}
NamesItself(key, name, t) == \E i \in Holders(key, t) : table[i].name = name

Malformed(call, t) ==
  \/ call.op \in {"upsert", "rotate"} /\ call.name = Absent
  \/ call.op = "upsert" /\ (call.ttl = 0 \/ (call.clear_ttl /\ call.ttl # Absent))
  \/ call.op = "upsert" /\ call.ttl # Absent /\ t + call.ttl > LastTime

Unprivileged(key, call, t) ==
  /\ call.op # "me" /\ ~IsAdmin(key, t)
  /\ call.op = "rotate" => ~NamesItself(key, call.name, t)

\* "Demoting the last admin returns 403"; "Revoking the last admin key is
\* refused": nobody else is an active admin then.
LeavesNoAdmin(call, t) ==
  \/ /\ call.op = "upsert" /\ call.role \notin {"admin", Absent}
     /\ \E i \in Named(call.name) : table[i].role = "admin"
     /\ Admins(t) \subseteq Named(call.name)
  \/ call.op = "revoke" /\ Admins(t) \subseteq {call.id}

\* "Renaming to an in-use active name returns 400."
NameInUse(call) ==
  call.op = "upsert" /\ call.rename \notin {Absent, call.name} /\ Named(call.rename) # {}

Unknown(call) ==
  \/ call.op = "rotate" /\ Named(call.name) = {}
  \/ call.op = "upsert" /\ call.rename # Absent /\ Named(call.name) = {}
  \/ call.op = "revoke" /\ ~\E i \in DOMAIN table : i = call.id /\ ~table[i].revoked

Refusals(key, call, t) == {status \in {400, 401, 403, 404} :
  \/ status = 400 /\ (Malformed(call, t) \/ NameInUse(call))
  \/ status = 401 /\ Holders(key, t) = {}
  \/ status = 403 /\ (Unprivileged(key, call, t) \/ LeavesNoAdmin(call, t))
  \/ status = 404 /\ Unknown(call)}

-----------------------------------------------------------------------------
(* What a call does.                                                       *)

Lost == [status |-> 0, about |-> Absent, key |-> Absent]
Refused(status) == [status |-> status, about |-> Absent, key |-> Absent]
Told(row, i, key) ==
  [status |-> 200, key |-> key,
   about |-> [id |-> i, name |-> row.name, role |-> row.role, expires_at |-> row.expires]]

\* The first of those given that is not absent.
Either(new, old) == IF new = Absent THEN old ELSE new

Expires(call, old, t) ==
  IF call.clear_ttl THEN Absent
  ELSE IF call.ttl # Absent THEN t + call.ttl ELSE old

\* "If found, updates fields without rotating the API key."
Update(r, i, call, t) ==
  LET row == [table[i] EXCEPT !.name = Either(call.rename, @), !.role = Either(call.role, @),
                              !.expires = Expires(call, @, t)]
  IN  /\ table' = [table EXCEPT ![i] = row]
      /\ outcome' = [outcome EXCEPT ![r] = Told(row, i, Absent)]
      /\ UNCHANGED issued

\* "If not, creates a new principal and mints a key."
Create(r, call, t) ==
  LET row == [name |-> call.name, role |-> Either(call.role, "reader"), key |-> issued + 1,
              revoked |-> FALSE, expires |-> Expires(call, Absent, t)]
  IN  /\ table' = Append(table, row)
      /\ issued' = issued + 1
      /\ outcome' = [outcome EXCEPT ![r] = Told(row, Len(table) + 1, issued + 1)]

\* "The principal's id, name, role, and expiry are preserved."
Rotate(r, i) ==
  /\ table' = [table EXCEPT ![i].key = issued + 1]
  /\ issued' = issued + 1
  /\ outcome' = [outcome EXCEPT ![r] = Told(table[i], i, issued + 1)]

Revoke(r, i) ==
  /\ table' = [table EXCEPT ![i].revoked = TRUE]
  /\ outcome' = [outcome EXCEPT ![r] = Refused(200)]
  /\ UNCHANGED issued

Me(r, i) ==
  /\ outcome' = [outcome EXCEPT ![r] = Told(table[i], i, Absent)]
  /\ UNCHANGED <<table, issued>>

Refuse(r) ==
  /\ \E t \in Meanwhile(r) : \E status \in Refusals(asked[r].key, asked[r].call, t) :
       outcome' = [outcome EXCEPT ![r] = Refused(status)]
  /\ UNCHANGED <<table, issued>>

\* A call that nothing speaks against when it arrives.
Serve(r) ==
  LET call == asked[r].call
  IN  /\ Refusals(asked[r].key, call, asked[r].since) = {}
      /\ \/ /\ call.op = "upsert"
            /\ \E t \in Meanwhile(r) :
                 \/ Named(call.name) = {} /\ Create(r, call, t)
                 \/ \E i \in Named(call.name) : Update(r, i, call, t)
         \/ call.op = "rotate" /\ \E i \in Named(call.name) : Rotate(r, i)
         \/ call.op = "revoke" /\ Revoke(r, call.id)
         \/ call.op = "me" /\ \E i \in Holders(asked[r].key, asked[r].since) : Me(r, i)

Ask(r) ==
  /\ asked[r] = Absent
  /\ \E key \in 0..issued, call \in Asked :
       asked' = [asked EXCEPT ![r] = [key |-> key, call |-> call, since |-> clock]]
  /\ UNCHANGED <<clock, table, issued, outcome>>

Handle(r) ==
  /\ asked[r] # Absent /\ outcome[r] = Absent
  /\ Refuse(r) \/ Serve(r)
  /\ UNCHANGED <<clock, asked>>

\* A client that has gone never hears what its call did.
Leave(r) ==
  /\ asked[r] # Absent
  /\ outcome' = [outcome EXCEPT ![r] = Lost]
  /\ UNCHANGED <<clock, table, issued, asked>>

Tick ==
  /\ clock < LastNow
  /\ clock' = clock + 1
  /\ UNCHANGED <<table, issued, asked, outcome>>

Init ==
  /\ clock = FirstNow
  /\ table \in FirstTables
  /\ issued = FirstIssued
  /\ asked = [r \in Clients |-> Absent]
  /\ outcome = [r \in Clients |-> Absent]

Next == (\E r \in Clients : Ask(r) \/ Handle(r) \/ Leave(r)) \/ Tick

Spec == Init /\ [][Next]_api
=============================================================================
