# opaq-server in TLA+

A model of [opaq-server](../src/README.md), a secret manager behind an HTTP API:
one process, one SQLite file, one connection behind an asynchronous mutex.
The modules follow the Rust code function by function; TLC checks them on small
instances, TLAPS proves every safety property of the passing runs for every instance. File and line
numbers are relative to the repository (`src/` below is the crate's own `src/`).

## 1. Inventory

| Component | State | Operations |
|---|---|---|
| Principals and keys (`auth.rs`, `db.rs`, `commands/*principal*.rs`, `me.rs`) | table `principals`; `revoke_key` rows of `audit_log`; per request: the caller, the principal found, the planned expiry | authenticate, upsert (create / update / demote / rename / ttl), rotate, revoke, list, me |
| Secret store (`secrets.rs`, `commands/*secret*.rs`, `shared.rs`) | table `secrets`; its rows of `audit_log`; per request: the rows found | put, get, delete, list (project, environment), list with values |
| Start (`main.rs`, `db.rs`, `secrets.rs::rewrap_legacy_secret_values`) | schema, `instance_meta`; in memory: passphrase, master key, collected rows; stdout | migrate, bootstrap, print the root key, load, derive, rewrap, listen |
| Connection (`db.rs::lock_conn`) | a FIFO `tokio::sync::Mutex` | lock, release |
| Cryptography (`crypto.rs`) | none | HMAC of keys, Argon2id, AES-GCM with associated data |
| Configuration, errors, router, headers, health check | none | |

How they interact. Every handler calls `extract_principal` (one hold of the
mutex) and carries the `Principal` it returned, a copy, through the rest of the
request. Each database function locks the connection, runs a statement or a
transaction and unlocks; a handler that needs three statements holds the mutex
three times, and other requests run in between. Audit rows are written by a hold
of their own, after the change. Nothing runs beside the requests: no timers,
no background tasks. Before the socket listens, `run()` has the database to itself.

What is hard:

* *Check, unlock, act.* Demotion, rename and rotation check under one hold and write
  under another; revocation does both under one. The partial unique index is the
  only guard of names at the moment of the write.
* *Stale copies.* A caller's role and name, a principal's id and role, a clock reading.
* *Two writes, no transaction.* A change and its audit row; a bootstrap and its printout.
* *Crashes during the start.* A schema half created, ciphertexts half rewrapped.
* *Numbers.* `u64` ttls added to the clock, compared as `i64` after SQLite's CAST.
* *Ciphertexts bound to (path, type)* that change type, are listed and migrated.

What makes each correct: a dead key stays dead, one active principal per name, an
admin remains, nobody manages without authority, confirmed revocations are logged
(principals); rows always open, the log is exact, requests act atomically on
a map, listings show their scope (secrets); what is served opens, starts lose nothing,
an interrupted start is completed by a later one (start). `PROJECT.json` lists the
hazards line by line with the properties that watch them.

## 2. Modules

| Module | What it is |
|---|---|
| `KeyRegistry` | abstract: principals hold at most one live key; mint, replace, retire |
| `Principals` | the principals component in detail; implements `KeyRegistry` |
| `PrincipalsTypes`, `PrincipalsProofs` | its proofs |
| `SecretScope` | pure: paths, LIKE, `path_in_scope`, and the documented scope |
| `SecretScopeProofs` | filtered listings = documented scope |
| `SecretMap` | abstract: a map on which each request acts at one instant, or fails to be read |
| `SecretStore` | the secret store in detail; implements `SecretMap` |
| `SecretStoreProofs` | its proofs |
| `Boot` | `run()`, crashes and restarts |
| `BootProofs` | its proofs |
| `ConnLock` | the connection's FIFO mutex under all handlers: queueing, waking, bodies, cancellation |
| `ConnLockProofs` | its proofs |
| `PrincipalApi` | abstract: the documented calls on principals, each one step |
| `PrincipalsSerial` | `Principals` under clients that wait; implements `PrincipalApi` |
| `SerialProofs` | its proofs, the refinement included |
| `Server` | `Principals` and `SecretStore` composed over one connection |
| `ServerProofs` | both components' specifications and theorems hold in it, and its own properties |
| `MCPrincipals`, `MCSerial`, `MCSecretStore`, `MCBoot`, `MCServer` | the instances TLC checks (`ConnLock` needs none) |

### Correspondence

An action is one hold of the mutex with the synchronous code after it, up to the
handler's next `lock_conn().await`; `pc[r]` names the hold that request `r` waits for.
Whatever happens within a hold is atomic because the connection is exclusive.

`Principals`: `Receive` (arrival and the clock reading of `authenticate`),
`Authenticate` (`authenticate`, `extract_principal`, `require_admin` and the
handler's checks), `FindForUpsert`, `CountAdmins`, `CheckRename`, `UpdatePrincipal`,
`CreatePrincipal` (`upsert_principal` and the functions of `Db` it calls),
`FindForRotate`, `RotateKey`, `RevokeKey`, `AuditRevoke`. A row's id is its index
(AUTOINCREMENT, rows are never deleted). Keys are numbers issued in order: what
matters of 32 random bytes is that they are new. `HashKey` is injective.

`SecretStore`: `Authenticate` returns any principal or 401 (what it may return is
the business of `Principals`); `PutSecret` (SELECT and UPDATE or INSERT in one hold),
`GetSecret`, `DeleteSecret`, `ListSecrets` (`list`, `list_project`), `ListValues`,
then `Audit`. A ciphertext is the triple of its key, associated data and plaintext.
The requests' JSON bodies and queries are records of the few fields the handlers read.

`Boot`: one action per statement of `run()`; `Rewrap(path)` is one turn of the loop
of `rewrap_legacy_secret_values`. While the server listens, `PutSecret` and
`DeleteSecret` stand for what `SecretStore` does to the table.

`ConnLock` opens up what the others take for one step: `Lock` (the first poll of
`lock_conn().await` takes the permit or queues), `Resume` (the await of a handler that was
woken returns the guard), `Statement` (the hold ends, the permit goes to the head of the queue),
`AwaitBody` and `BodyArrives` (`parse_json_request`), `Reply`, `Abandon` (a future dropped in
the queue, after its wake-up, or while it awaits a body). `Successors` is the order in which
each route of `run()` comes by its holds. What the statements do is left out. tokio's semaphore
is outside the repository and modelled from its documented fairness; `HandOn`, `Queue` and
`Resume` are marked external.

`Server` extends `Principals` and instantiates `SecretStore`: `AuthenticateSecret` binds the
caller that `SecretStore` leaves open to the row that has the request's key when it gets the
connection. `late` and `entitled` record what a request's key was while it waited. The two
kinds of audit rows stay in the two components' variables.

`PrincipalsSerial` restricts `Principals` to one request at a time. The clock runs on, also between
two statements of one request: a count and the `UPDATE` it permits may see different seconds.
`Told` and `Outcome` are the bodies (id, name, role, expiry) and codes of the answers, which
`Principals` itself does not keep. `PrincipalApi` accordingly lets a refusal, and the second a ttl
starts from, be those of any reading of the clock while the call is under way (`Meanwhile`).

`SecretMap` allows one answer that no documentation does: where a statement may fail (`Misreads`), a
read may be answered "not found" unseen (`Misread`), as `get` does (`secrets.rs:283`). It is a step
of its own there, so that every other 404 still has to report what the map holds.

In all of them `StatementFails` or `Crash` is a statement that fails and `Abandon` a
request whose future is dropped (the client disconnects) or whose process dies.

Definitions commented "Mutant" are no part of a specification: each is a plausible bug
in place of the definition that follows it, and a property listed in `PROJECT.json`
notices it.

## 3. Runs

Passing:

| Run | Bounds | Shows |
|---|---|---|
| `Principals_core` | 3 requests of 8 calls, 2 admins + 1 rotated reader, clock stopped | keys, names, authority, audit and the last admin under revocation survive all interleavings; refinement of `KeyRegistry` |
| `Principals_expiry` | 2 requests of 17 calls, clock 1..3, i64 up to 5, u64 up to 9, faults | authority, audit, the last admin under revocation and the refinement, where ttls expire, saturate or overflow and statements fail |
| `Principals_serial` | 2 requests of 23 calls, one at a time, 4 tables, clock 1..2, running on within a request | without overlap no request takes the last admin of the second it arrived in, nobody but an admin is handed another's key, and every call does, refuses and answers what `docs/API.md` says: refinement of `PrincipalApi` |
| `SecretStore_core` | 3 requests of 8 calls, 5 paths | rows open, exact audit log, refinement of `SecretMap` |
| `SecretStore_faults` | 2 requests of 21 calls, faults | the same on every refusal, failure and listing, a failed `get` being the one untrue 404; a listing leaves its project by the case of a letter at most |
| `Boot_any_passphrase` | 2 paths, 2 values, 2 passphrases, 4 databases, 3 crashes | what is served opens; no passphrase locks the others' secrets in; starts change no plaintext; the right passphrase is never turned away; with crashes at an end the server comes up for good (liveness) |
| `ConnLock_all` | 3 requests of any route | holds exclude each other, the permit is never lost, nobody is overtaken; every request ends unless its own client stalls it (liveness) |
| `Server_all` | 2 requests of 6 calls on 3 principals, 1 request on a secret with any of their keys | dead keys open nothing, what is done was allowed while the request waited, keys act under the id they came with |

Three requests are enough for the races the code has: a check-then-act pair, its
victim and a third that names, renames or uses a key in between. Two admins are the
fewest for which the count of *others* matters. Three crashes fall into
every pair of steps of one start and the next. `I64Max` = 5 and `U64Max` = 9 keep the
order of the real limits with a clock that stays below both. Requests are
symmetric (no run with liveness uses symmetry).

`Principals_serial` needs few requests and many tables: one call at a time, it checks the
step of an induction, and the second request shows that what the first one left is again such a
table. One of the tables has a lone admin whose expiry is beyond `I64Max`: were the CAST to wrap,
that admin would be turned away, which `PrincipalApi` does not allow. Three requests in `ConnLock` give a holder, a head of the queue and one behind it, and a
handler that needs several holds queues once for each. In `Server` a third request that manages principals would add
no way to change the one row that a request on secrets looks at; its clock stands, because
expiry is checked in `Principals_expiry`.

Runs that end in a counterexample, each a statement of the documentation that the
code does not keep:

| Run | Statement | What happens |
|---|---|---|
| `Principals_demote` | "Demoting the last admin returns `403`" | two overlapping demotions leave no admin |
| `Principals_rotate_other` | "Non-admins rotating other principals get `403`" | self-rotation, while renamed, hands over the key of the name's new owner |
| `SecretStore_list_case` | "`Workspace` ≠ `workspace`" | the unfiltered project listing ignores case |
| `Boot_root_key` | the root key is "printed once" on first start | a crash after the bootstrap's commit: never printed |

Seven more places where the code and a document differ or a document is silent, seen while
modelling. The models do what the code does; no run of its own is spent on them.

* A demotion counts the other admins by one reading of the clock (`db.rs:185`) and updates under a
  later hold (`db.rs:239`). If the only other admin expires in between, one call, without any
  overlap, leaves nobody who can manage. `docs/API.md:87` makes no such exception.
  `OnlyTimeTakesAdmins` says how far the promise goes: by the clock of the call's arrival the
  counted admin is still there.
* A name taken between the check and the UPDATE is refused by the unique index with 500
  (`auth.rs:108`); `docs/API.md:88` says 400.
* The UPDATE of an upsert has no `revoked_at IS NULL` (`db.rs:239`): an upsert of a
  principal that was revoked after the lookup answers "updated". The row stays revoked.
* The answer to an update is put together from the row found before it (`auth.rs:145`): under
  overlapping updates it may describe a row that never was. `Principals_serial` shows that
  only overlap does this.
* A ttl that overflows is refused with 400 when a principal is updated (`auth.rs:122`), and
  dropped when it is created (`db.rs:143`), which makes a key without expiry; `README.md:66`
  says "Omitted = no expiry" only. It is the one call on which `Principals` and `PrincipalApi`
  part, so `MCSerial`'s `TooLong` asks for it together with a rename, which creates nobody.
* `get` maps every error of its SELECT to 404 (`secrets.rs:283`): a secret that exists is "not
  found" while the disk fails. `docs/API.md:35` gives 404 to "not found" and 500 to "server".
  `StoreImplementsMap` passes over it by an explicit exception, `SecretMap!Misread`; where
  statements do not fail (`Misreads` is FALSE, as in `SecretStore_core`) every 404 is true.
* A listing of an environment merges by default (`list_secrets.rs:17`, as `README.md:49`
  says); `docs/API.md:171` calls it "env-scoped only". `StoreImplementsMap` goes by `README.md`
  (`SecretStore!Asked`).

## 4. Fairness

The safety specifications assume none. Two specifications add some:

* `Boot!FairSpec`: weak fairness of the start's own steps (it is the only task, and the
  runtime polls it until it listens), and strong fairness of `StartWith(p)` for each
  passphrase. That is the operator's part: nothing in the repository restarts the
  server (`justfile` and `docker-restart` do so by hand), so whoever wants it up starts it while it is
  down and does not leave out the right passphrase for ever. Crashes are finitely many.
* `ConnLock!FairSpec`: weak fairness of `Poll(r)` for each request. tokio's workers take ready
  tasks in turn, and a statement on the local file returns. Clients owe nothing: requests may never
  arrive, bodies may never be completed, and `EveryRequestEnds` still holds for all other requests.

## 5. Proofs

Assumptions are those named in the modules (`ConstantsOK`, `InitTablesOK`, …): any
set of requests (a finite one where audit rows are counted), names, calls, any initial table that a server
could have left. TLC evaluates them in every run.

* `PrincipalsTypes!TypeCorrect`: `TypeOK`. It is not inductive alone: a request in an
  update section must have a `current` within the table, so `TypeInv` adds
  `StagesOK`, what each `pc` says about the request's snapshots.
* `PrincipalsProofs`: `TableStep` classifies what any step does to the table (nothing,
  one row added, updated, revoked, or its key replaced). From it follow
  `LookupsStayUnambiguous` (invariant `TableInv`: keys are at most `lastKey` and
  distinct), `DeadKeysNeverWork` (an action property: whoever is authenticated has a key live at that
  step; `DeadKeyInv` adds to `TableInv` that a waiting request's spent key is not live), `RevocationsAreAudited` (`AuditInv`: a request that has to log names a
  revoked row), `AuthorityNeeded` (`AuthorityInv`), `RevocationKeepsAnAdmin` and
  `ImplementsRegistry`, the refinement of `KeyRegistry` step by step.
* `SecretScopeProofs!FilteredListsAsDocumented`: LIKE never loses a row that
  `path_in_scope` would keep, and what is kept is the documented scope.
* `SecretStoreProofs`: `StoreInv` is `TypeOK`, `RowsOpen` and `Stages`, what a
  request's section says of its call, caller and rows (a `put` that got past
  admission has a valid type; a request that awaits its audit row carries rows).
  From it `RowsAlwaysOpen`; `LogStaysExact`, by counting the served requests behind
  each row (`LogInv`; the only place that needs `RequestsFinite`); and `StoreIsAMap`:
  a step is local to its request, so each action is matched with one step of
  `SecretMap` on that request's part, the filtered listings by
  `FilteredListsAsDocumented`, the 404 of a failed `get` by `Misread`. `ServesAsBootSays` joins the module to `Boot`: on the table, each
  of its steps is one of the two that `Boot` has while it serves, or none, and `Boot`'s
  `ServedRowsOpen` holds of it. `ListInv` (a found listing shows what it may) gives
  `ListingsKeepToTheLetters`.
* `BootProofs`: `BootInv` adds to `TypeOK` what the database keeps to between any two
  steps (`SoundDatabase`: one key seals every row, under its own or legacy associated
  data) and what the running start has established (`Progress`: its key is that of
  its passphrase and the stored salt, the collected rows are the table's, the rows
  it is done with open). From it `ServedRowsAlwaysOpen`, `PassphraseRemains`,
  `StartsKeepAllSecrets` and `OpeningPhrasesAreServed`, the safety half of `ComesUp`: with the
  right passphrase only a crash ends a start. Any initial database of `InitDatabases`, any
  number of crashes.
* `ConnLockProofs`: `LockInv` says that the permit is with exactly the request that is woken
  or holding (`PermitOK`) and that the queue lists each queued request once, and is empty while the
  permit is free (`QueueOK`). From it `HoldsNeverOverlap`, `QueueIsAlwaysServed` and, from how each
  action changes the queue, `NobodyOvertakes`, for any number of requests. `HoldsNeverOverlap`
  is what allows the other modules one action per hold.
* `SerialProofs`: `SerialInv` adds to `TableInv` what a request knows while nobody else runs
  (`Knows`): its caller is the row its key names and, by the clock of its arrival, may do what it
  asks, the row it found is still the row of the name it asked for, the other admin it counted is
  still there and was active at its arrival, the name it wants is still free, the expiry it planned
  starts from a second of the call. Each is false under overlap, as the runs
  with a counterexample show. From it `SerialRequestsLeaveAnAdmin` (an `UPDATE` that demotes leaves
  the admin it counted, who was active when the request arrived and may expire any time),
  `SerialRotationsKeepToThemselves` (the row found by the caller's name is the
  caller's) and `SerialRequestsImplementApi`: arrival, refusals, and the last statement of each
  handler are steps of `PrincipalApi`, all others stutter. The refinement has two hypotheses.
  `TtlsFit`: no call creates a principal with a ttl that overflows, the one place where the code
  and `PrincipalApi` part (section 3); an update with such a ttl is allowed, and refused. And no
  `SqlFaults`: the documentation says nothing of what a call that answers 500 has done.
* `ServerProofs`: every step of `Server` is a step of `Principals` or leaves it alone, and
  likewise for `SecretStore` (`ServerKeepsPrincipals`, `ServerKeepsSecrets`).
  `ServerManagesAsPrincipals` and `ServerStoresAsSecretStore` draw the conclusion: all that is
  proved of the two, both refinements included, holds of the composition (the second by
  instantiating `SecretStoreProofs`, whose assumptions `SecretsConstantsOK` discharges).
  `ServerInv` says that a request past authentication has
  a caller that may do what it asks, that a key dead at the sending is dead and its
  request nobody's, and that the caller's role is among those its key has had. From it
  `ServerTypesCorrect`, `DeadKeysOpenNothing` and `AllServedAsEntitled`. `AllKeysActAsIssued` needs
  `IssueInv` besides: the key in an answer is in no row but the one it was answered for.

The four statements that a run refutes are false as they stand. What each needs to hold is proved:

| Statement | holds | Theorem |
|---|---|---|
| the last admin is never demoted | without overlapping requests, by the clock of the request's arrival | `SerialRequestsLeaveAnAdmin` |
| non-admins rotate only themselves | without overlapping requests | `SerialRotationsKeepToThemselves` |
| listings tell `Workspace` from `workspace` | where no two segments differ in case only; with a filter, always | `ListingsKeepWithOneCase`, `ListingsKeepToTheLetters` |
| the root key was printed | where no process dies, on databases that are new or bootstrapped as a whole | `OnlyCrashesHideTheRootKey` |

Only model-checked: liveness (`ComesUp`, `EveryRequestEnds`) and everything else that
needs fairness or ENABLED, which the prover does not treat. No operator is recursive and no proof
needs induction over data. The prover takes two CASE expressions for equal if their first arms
are; no step compares two that differ, and where a CASE is opened its condition is known.

## 6. Not modelled

The algorithms and the randomness of `crypto.rs`: `HashKey`, `Seal` and the derived key are what
their users rely on. Of the configuration, only the passphrase: its length and
alphabet are checked once, by a pure function, before the database is opened; host, port and
file name decide nothing that is modelled. Error texts, the router, headers, the health check,
the container image and the recipes hold no state; the command line client is not in this repository.

Listing principals reads the table and changes nothing; it appears in `ConnLock`, for its hold.
Body size limits and content types end in the same 400 as any malformed body. Encoded slashes
within a segment depend on the HTTP library, so `path_in_scope`'s one-sided trimming (`secrets.rs:84`)
is not exercised. Requests meet one server process; two processes on one file are outside the
documentation. `Server` keeps the components' audit rows apart, and leaves the expiry of keys and failing
statements to the components' own runs. `Boot` stands for the serving phase with its own
`PutSecret` and `DeleteSecret`, which `ServesAsBootSays` justifies; that `SecretStore` starts on a table
whose rows open is an assumption there (`InitStoresOpen`), and `ServedRowsOpen` the reason it may be made.

## 7. State of the project

Every component with state is modelled, every safety property and every refinement that a
passing run checks is proved, and the two liveness properties are checked. Worth
adding:

* a `Server` that is started by `Boot`: the key a process derived as the `MasterKey` of its requests,
  so that `InitStoresOpen` becomes a conclusion;
* requests that fail (`SqlFaults`) in `PrincipalApi`, as calls that may have taken effect;
* if `get` comes to answer 500 when its SELECT fails, `SecretMap` without `Misread`;
* if demotion comes to count and write under one hold, `DemoteKeepsAnAdmin` as a passing
  property, and its theorem beside `RevocationKeepsAnAdmin`.
