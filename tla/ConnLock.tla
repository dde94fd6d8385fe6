------------------------------ MODULE ConnLock ------------------------------
(***************************************************************************)
(* The one connection and its mutex (src/db.rs, lock_conn): a FIFO mutex   *)
(* of tokio, and the handlers that take it for one statement after another *)
(* while the runtime polls them.                                           *)
(*                                                                         *)
(* Principals and SecretStore take a hold of the mutex for one action and  *)
(* say nothing of who gets it when. Here a hold has a beginning and an     *)
(* end, waiting is explicit, and what is done with the connection is left  *)
(* out: a section is one hold, or the one await without it, the reading of *)
(* a request's body.                                                       *)
(***************************************************************************)
EXTENDS Sequences, SequencesExt

CONSTANT Requests     \* HTTP requests, each handled once

VARIABLES
  task,      \* where the runtime has each request's handler
  section,   \* the section it is in, or comes to next
  guards,    \* the requests the mutex's permit is assigned to
  waiters    \* the requests queued for it

vars == <<task, section, guards, waiters>>

-----------------------------------------------------------------------------
(* The handlers.                                                           *)

Holds == {"auth", "list_principals", "upsert_find", "count_admins", "check_rename",
          "update", "create", "rotate_find", "rotate", "revoke", "put", "get",
          "delete", "list", "values", "audit"}
Section == Holds \union {"body", "answer"}

\* The sections a handler may come to after one of its sections. (Every
\* section may fail, be refused or find nothing, and lead to the answer.)
Successors(s) == {t \in Section :
  \/ t = "answer"
  \/ s = "auth" /\ t \in {"body", "list_principals", "revoke", "get", "delete",
                         "list", "values"}
  \/ s = "body" /\ t \in {"upsert_find", "rotate_find", "put"}
  \/ s = "upsert_find" /\ t \in {"create", "count_admins", "check_rename", "update"}
  \/ s = "count_admins" /\ t \in {"check_rename", "update"}
  \/ s = "check_rename" /\ t = "update"
  \/ s = "rotate_find" /\ t = "rotate"
  \/ s \in {"revoke", "put", "get", "delete", "values"} /\ t = "audit"}

-----------------------------------------------------------------------------
(* The mutex: tokio's semaphore with one permit.                           *)

\* r gives its permit up and becomes `state`: the head of the queue is given
\* it at once and woken, to be polled later.
HandOn(r, state) ==
  \/ /\ waiters = <<>>
     /\ guards' = guards \ {r}
     /\ task' = [task EXCEPT ![r] = state]
     /\ UNCHANGED waiters
  \/ /\ waiters # <<>>
     /\ guards' = (guards \ {r}) \union {Head(waiters)}
     /\ waiters' = Tail(waiters)
     /\ task' = [task EXCEPT ![r] = state, ![Head(waiters)] = "woken"]

Init ==
  /\ task = [r \in Requests |-> "idle"]
  /\ section = [r \in Requests |-> "auth"]
  /\ guards = {}
  /\ waiters = <<>>

-----------------------------------------------------------------------------
(* What a handler does when it is polled.                                  *)

Take(r) ==
  /\ guards' = guards \union {r}
  /\ task' = [task EXCEPT ![r] = "holding"]
  /\ UNCHANGED <<section, waiters>>

Queue(r) ==
  /\ waiters' = Append(waiters, r)
  /\ task' = [task EXCEPT ![r] = "queued"]
  /\ UNCHANGED <<section, guards>>

\* Mutant: what only reads has a connection of its own.
LockToWrite(r) ==
  /\ task[r] = "ready" /\ section[r] \in Holds
  /\ IF guards = {} \/ section[r] \in {"get", "list", "values"}
     THEN Take(r) ELSE Queue(r)

\* Mutant: put_at and the like read the body under the guard.
LockForBody(r) ==
  /\ task[r] = "ready" /\ section[r] # "answer"
  /\ IF guards = {} THEN Take(r) ELSE Queue(r)

\* lock_conn().await, polled for the first time.
Lock(r) ==
  /\ task[r] = "ready" /\ section[r] \in Holds
  /\ IF guards = {} THEN Take(r) ELSE Queue(r)

\* The await of a handler that was given the permit returns the guard.
Resume(r) ==
  /\ task[r] = "woken"
  /\ task' = [task EXCEPT ![r] = "holding"]
  /\ UNCHANGED <<section, guards, waiters>>

\* Mutant: create_or_update calls audit_log before it drops the guard.
AuditUnderGuard(r) ==
  /\ task[r] = "holding"
  /\ \E s \in Successors(section[r]) :
       /\ section' = [section EXCEPT ![r] = s]
       /\ \/ section[r] = "put" /\ s = "audit"
             /\ task' = [task EXCEPT ![r] = "ready"]
             /\ UNCHANGED <<guards, waiters>>
          \/ ~(section[r] = "put" /\ s = "audit") /\ HandOn(r, "ready")

\* Mutant: put_at reads the body before authenticate's guard is dropped.
BodyUnderGuard(r) ==
  /\ task[r] = "holding"
  /\ \E s \in Successors(section[r]) :
       /\ section' = [section EXCEPT ![r] = s]
       /\ \/ s = "body"
             /\ task' = [task EXCEPT ![r] = "ready"]
             /\ UNCHANGED <<guards, waiters>>
          \/ s # "body" /\ HandOn(r, "ready")

\* The statement has run: the guard is dropped on every way out of the hold,
\* and the handler goes on without it.
Statement(r) ==
  /\ task[r] = "holding"
  /\ \E s \in Successors(section[r]) : section' = [section EXCEPT ![r] = s]
  /\ HandOn(r, "ready")

\* parse_json_request awaits what the client has yet to send.
AwaitBody(r) ==
  /\ task[r] = "ready" /\ section[r] = "body"
  /\ task' = [task EXCEPT ![r] = "reading"]
  /\ UNCHANGED <<section, guards, waiters>>

Reply(r) ==
  /\ task[r] = "ready" /\ section[r] = "answer"
  /\ task' = [task EXCEPT ![r] = "done"]
  /\ UNCHANGED <<section, guards, waiters>>

Poll(r) == Lock(r) \/ Resume(r) \/ Statement(r) \/ AwaitBody(r) \/ Reply(r)

-----------------------------------------------------------------------------
(* What the clients do.                                                    *)

Receive(r) ==
  /\ task[r] = "idle"
  /\ task' = [task EXCEPT ![r] = "ready"]
  /\ UNCHANGED <<section, guards, waiters>>

\* The body is complete (or too large, or no JSON).
BodyArrives(r) ==
  /\ task[r] = "reading"
  /\ \E s \in Successors("body") : section' = [section EXCEPT ![r] = s]
  /\ task' = [task EXCEPT ![r] = "ready"]
  /\ UNCHANGED <<guards, waiters>>

\* The client disconnects: the handler's future is dropped at its await, a
\* place in the queue is given up, a permit not yet used is handed on.
Abandon(r) ==
  /\ \/ /\ task[r] = "reading"
        /\ task' = [task EXCEPT ![r] = "gone"]
        /\ UNCHANGED <<guards, waiters>>
     \/ /\ task[r] = "queued"
        /\ \E i \in DOMAIN waiters : waiters[i] = r /\ waiters' = RemoveAt(waiters, i)
        /\ task' = [task EXCEPT ![r] = "gone"]
        /\ UNCHANGED guards
     \/ task[r] = "woken" /\ HandOn(r, "gone")
  /\ UNCHANGED section

Ended(r) == task[r] \in {"done", "gone"}

\* Every request has ended: nothing is left to do.
Finished == (\A r \in Requests : Ended(r)) /\ UNCHANGED vars

Next ==
  \/ \E r \in Requests : Poll(r) \/ Receive(r) \/ BodyArrives(r) \/ Abandon(r)
  \/ Finished

Spec == Init /\ [][Next]_vars

\* A handler that can go on is polled in the end: the runtime's workers take
\* ready tasks in turn and a statement returns. Clients owe nothing: a body
\* may never arrive.
FairSpec == Spec /\ \A r \in Requests : WF_vars(Poll(r))

-----------------------------------------------------------------------------
(* Properties.                                                             *)

TypeOK ==
  /\ task \in [Requests -> {"idle", "ready", "queued", "woken", "holding",
                            "reading", "done", "gone"}]
  /\ section \in [Requests -> Section]
  /\ guards \subseteq Requests
  /\ waiters \in Seq(Requests)
  /\ \A r \in Requests :
       /\ task[r] \in {"queued", "woken", "holding"} => section[r] \in Holds
       /\ task[r] = "reading" => section[r] = "body"

(***************************************************************************)
(* What Principals and SecretStore build on: between the beginning and the *)
(* end of a hold nobody else's hold runs, however requests queue, are      *)
(* woken and are dropped ("SELECT, then UPDATE" of create_or_update, the   *)
(* count and the UPDATE of revoke_api_key see one table).                  *)
(***************************************************************************)
HoldsExclude == \A r, s \in Requests :
  task[r] = "holding" /\ task[s] = "holding" => r = s

(***************************************************************************)
(* Nobody waits for the mutex in vain: if the queue is not empty, the      *)
(* permit is with a handler that the runtime alone can bring to the end of *)
(* its hold, never lost, never with a handler that awaits a body or that   *)
(* waits for the mutex itself (tokio's is not reentrant: create_or_update  *)
(* and get drop the guard by hand before they call audit_log).             *)
(***************************************************************************)
NobodyWaitsInVain ==
  waiters # <<>> => \E r \in guards : task[r] \in {"woken", "holding"}

\* The requests in front of r in a queue.
Ahead(queue, r) == {queue[i] : i \in {j \in DOMAIN queue :
                      \E k \in DOMAIN queue : j < k /\ queue[k] = r}}

(***************************************************************************)
(* First come, first served: while r waits, no request gets in front of it *)
(* and none that was not there already is given the permit. A handler that *)
(* needs three holds queues three times.                                   *)
(***************************************************************************)
NoOvertaking ==
  [][\A r \in Range(waiters) : r \in Range(waiters') =>
       Ahead(waiters', r) \union (guards' \ guards) \subseteq Ahead(waiters, r)]_vars

(***************************************************************************)
(* Every request is answered or gone in the end, unless its own client     *)
(* keeps it waiting for the body: no client that stalls or disconnects     *)
(* blocks another's request, and no handler blocks itself.                 *)
(***************************************************************************)
EveryRequestEnds ==
  \A r \in Requests : task[r] = "ready" ~> Ended(r) \/ task[r] = "reading"
=============================================================================
