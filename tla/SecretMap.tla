----------------------------- MODULE SecretMap ------------------------------
(***************************************************************************)
(* What the secret store promises its clients, with no encryption, audit   *)
(* log, lock or SQL in sight: a map from paths to entries, on which every  *)
(* request acts at most once, at one instant between its call and its      *)
(* answer, and whose answer is what it saw or did at that instant. A       *)
(* request that fails may have acted or not.                               *)
(*                                                                         *)
(* There is one exception, which docs/API.md does not make: where Misreads *)
(* is TRUE, a read of one path may be answered "not found" unseen.         *)
(*                                                                         *)
(* SecretStore.tla implements this map (see StoreImplementsMap).           *)
(***************************************************************************)

CONSTANTS
  Requests,
  Paths,
  Operations,     \* [kind : "write", path, entry], [kind : "remove", path]
                  \* or [kind : "read", paths]
  InitMaps,       \* the maps a server may find in its database
  Absent,         \* the map's value at a path that has no secret
  Misreads        \* TRUE if the store may fail to be read

VARIABLES
  store,          \* what each path holds
  phase,          \* "idle", "called", "acted", "answered" or "failed"
  op,             \* what each request asked for
  outcome         \* the entries its act saw, wrote or removed

map == <<store, phase, op, outcome>>

Nothing == [path \in Paths |-> Absent]

\* The part of map m on the given paths.
On(m, paths) == [path \in Paths |-> IF path \in paths THEN m[path] ELSE Absent]

Init ==
  /\ store \in InitMaps
  /\ phase = [r \in Requests |-> "idle"]
  /\ op = [r \in Requests |-> Absent]
  /\ outcome = [r \in Requests |-> Nothing]

Call(r) ==
  /\ phase[r] = "idle"
  /\ phase' = [phase EXCEPT ![r] = "called"]
  /\ \E o \in Operations : op' = [op EXCEPT ![r] = o]
  /\ UNCHANGED <<store, outcome>>

Act(r) ==
  LET o == op[r]
  IN  \/ /\ o.kind = "write"
         /\ store' = [store EXCEPT ![o.path] = o.entry]
         /\ outcome' = [outcome EXCEPT ![r] = On(store', {o.path})]
      \/ /\ o.kind = "remove"
         /\ store' = [store EXCEPT ![o.path] = Absent]
         /\ outcome' = [outcome EXCEPT ![r] = On(store, {o.path})]
      \/ /\ o.kind = "read"
         /\ outcome' = [outcome EXCEPT ![r] = On(store, o.paths)]
         /\ UNCHANGED store

\* The act of a request may come together with its answer or its failure.
Serve(r) ==
  /\ phase[r] = "called"
  /\ \E p \in {"acted", "answered", "failed"} : phase' = [phase EXCEPT ![r] = p]
  /\ Act(r)
  /\ UNCHANGED op

Answer(r) ==
  /\ phase[r] = "acted"
  /\ phase' = [phase EXCEPT ![r] = "answered"]
  /\ UNCHANGED <<store, op, outcome>>

\* A refusal, an error or a lost connection, before the act or after it.
Fail(r) ==
  /\ phase[r] \in {"called", "acted"}
  /\ phase' = [phase EXCEPT ![r] = "failed"]
  /\ UNCHANGED <<store, op, outcome>>

\* The map cannot be read, and the answer is that nothing is there (get's 404;
\* "404 (not found) ... 500 (server)", docs/API.md).
Misread(r) ==
  /\ Misreads
  /\ phase[r] = "called"
  /\ op[r].kind = "read" /\ \E path \in Paths : op[r].paths = {path}
  /\ phase' = [phase EXCEPT ![r] = "answered"]
  /\ UNCHANGED <<store, op, outcome>>

Next == \E r \in Requests : Call(r) \/ Serve(r) \/ Answer(r) \/ Fail(r) \/ Misread(r)

Spec == Init /\ [][Next]_map
=============================================================================
