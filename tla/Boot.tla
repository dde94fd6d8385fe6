-------------------------------- MODULE Boot --------------------------------
(***************************************************************************)
(* The life of one opaq database under a server that is started, killed    *)
(* and started again: run() of src/main.rs from the migration to the       *)
(* listening socket. It creates the schema, bootstraps an empty database,  *)
(* derives the master key, and rewraps row by row the ciphertexts that     *)
(* 0.1 wrote without associated data. Any two of these steps may have the  *)
(* end of the process between them; what is committed stays.               *)
(***************************************************************************)
EXTENDS Naturals

CONSTANTS
  Paths, Values,
  Phrases,        \* the values of OPAQ_MASTER_KEY that validate
  Salts,          \* values of instance_meta.kdf_salt
  NewSalt,        \* the random one a bootstrap draws
  InitDatabases,  \* databases the first start may find: see Database
  MaxCrashes,     \* bound: how often the process dies or a statement fails
  NULL

VARIABLES
  schema,         \* how many of migrate's CREATE statements have been run
  meta,           \* instance_meta's salt, or NULL
  enrolled,       \* whether `principals` has a row
  secrets,        \* the table `secrets`
  pc,             \* what run() does next; "down" without a process
  phrase,         \* the passphrase this process was started with
  key,            \* its master key, once derived
  todo,           \* the collected rows that rewrap has yet to look at
  printed,        \* whether the root key has appeared on some stdout
  crashes         \* how often the process has died

database == <<schema, meta, enrolled, secrets>>
memory == <<phrase, key, todo>>
vars == <<database, memory, pc, printed, crashes>>

-----------------------------------------------------------------------------
(* Data.                                                                   *)

Type == {"string", "json"}

\* Argon2id of a passphrase and a salt: injective.
MasterKey == Phrases \X Salts

\* NULL for the empty associated data of 0.1.
Sealed == [key : MasterKey, aad : (Paths \X Type) \union {NULL}, plain : Values]
Row == [value_type : Type, sealed : Sealed]
Table == [Paths -> Row \union {NULL}]
Empty == [path \in Paths |-> NULL]

Opens(sealed, k, aad) == sealed.key = k /\ sealed.aad = aad
Aad(path, row) == <<path, row.value_type>>
Bound(k, path, type, value) ==
  [value_type |-> type, sealed |-> [key |-> k, aad |-> <<path, type>>, plain |-> value]]

Database == [schema : Nat, meta : Salts \union {NULL}, enrolled : BOOLEAN, secrets : Table]

\* Tables and one index, in the order of the batch.
SchemaObjects == 5

\* Every secret was sealed under one passphrase and the salt beside it.
UnderOneKey(table, salt) ==
  \E p \in Phrases : \A path \in Paths :
    table[path] # NULL => table[path].sealed.key = <<p, salt>>

\* A row opens bound to its path and type, or, written by 0.1, unbound.
OwnOrLegacy(table) ==
  \A path \in Paths : table[path] # NULL =>
    table[path].sealed.aad \in {Aad(path, table[path]), NULL}

ASSUME BootConstantsOK ==
  /\ NewSalt \in Salts /\ Phrases # {}
  /\ NULL \notin Salts /\ NULL \notin Phrases /\ NULL \notin Row
  /\ NULL \notin MasterKey /\ NULL \notin Paths \X Type
  /\ MaxCrashes \in Nat
  /\ InitDatabases \subseteq Database
  /\ \A db \in InitDatabases :
       /\ db.schema <= SchemaObjects
       /\ UnderOneKey(db.secrets, db.meta) /\ OwnOrLegacy(db.secrets)
       /\ db.meta = NULL => db.secrets = Empty

Init ==
  /\ \E db \in InitDatabases :
       /\ schema = db.schema /\ meta = db.meta
       /\ enrolled = db.enrolled /\ secrets = db.secrets
       /\ printed = db.enrolled
  /\ pc = "down" /\ crashes = 0
  /\ phrase = NULL /\ key = NULL /\ todo = Empty

-----------------------------------------------------------------------------
(* Starting: run().                                                        *)

\* The process ends and its memory is gone.
Exit == pc' = "down" /\ phrase' = NULL /\ key' = NULL /\ todo' = Empty

\* Without a valid passphrase run() returns before it opens the database.
StartWith(p) ==
  /\ pc = "down"
  /\ phrase' = p
  /\ pc' = "migrate"
  /\ UNCHANGED <<database, key, todo, printed, crashes>>

\* execute_batch commits each CREATE ... IF NOT EXISTS on its own.
Migrate ==
  /\ pc = "migrate"
  /\ IF schema < SchemaObjects
     THEN schema' = schema + 1 /\ UNCHANGED pc
     ELSE pc' = "needs_bootstrap" /\ UNCHANGED schema
  /\ UNCHANGED <<meta, enrolled, secrets, memory, printed, crashes>>

\* Mutant: is_empty alone decides whether to bootstrap.
BootstrapIfEmpty ==
  /\ pc = "needs_bootstrap"
  /\ pc' = IF enrolled THEN "load_meta" ELSE "is_empty"
  /\ UNCHANGED <<database, memory, printed, crashes>>

NeedsBootstrap ==
  /\ pc = "needs_bootstrap"
  /\ pc' = IF meta = NULL THEN "is_empty" ELSE "load_meta"
  /\ UNCHANGED <<database, memory, printed, crashes>>

\* Principals without instance_meta: run() refuses to bootstrap.
IsEmpty ==
  /\ pc = "is_empty"
  /\ IF enrolled THEN Exit ELSE pc' = "bootstrap" /\ UNCHANGED memory
  /\ UNCHANGED <<database, printed, crashes>>

\* One transaction: instance_meta and the root admin.
Bootstrap ==
  /\ pc = "bootstrap"
  /\ meta' = NewSalt /\ enrolled' = TRUE
  /\ pc' = "print"
  /\ UNCHANGED <<schema, secrets, memory, printed, crashes>>

PrintRootKey ==
  /\ pc = "print"
  /\ printed' = TRUE
  /\ pc' = "load_meta"
  /\ UNCHANGED <<database, memory, crashes>>

\* get_instance_meta and derive_master_key.
LoadMeta ==
  /\ pc = "load_meta"
  /\ key' = <<phrase, meta>>
  /\ pc' = "collect"
  /\ UNCHANGED <<database, phrase, todo, printed, crashes>>

\* rewrap_legacy_secret_values reads the whole table first,
CollectRows ==
  /\ pc = "collect"
  /\ todo' = secrets
  /\ pc' = "rewrap"
  /\ UNCHANGED <<database, phrase, key, printed, crashes>>

\* Mutant: a row that does not open is skipped.
SkipUnreadable(path) ==
  LET row == todo[path]
  IN  /\ pc = "rewrap" /\ row # NULL
      /\ todo' = [todo EXCEPT ![path] = NULL]
      /\ secrets' = IF Opens(row.sealed, key, NULL)
                    THEN [secrets EXCEPT ![path] =
                            Bound(key, path, row.value_type, row.sealed.plain)]
                    ELSE secrets
      /\ UNCHANGED <<schema, meta, enrolled, phrase, key, pc, printed, crashes>>

\* Mutant: the UPDATE has no WHERE clause.
RewrapEveryRow(path) ==
  LET row == todo[path]
      sealed == Bound(key, path, row.value_type, row.sealed.plain).sealed
  IN  /\ pc = "rewrap" /\ row # NULL
      /\ Opens(row.sealed, key, Aad(path, row)) \/ Opens(row.sealed, key, NULL)
      /\ todo' = [todo EXCEPT ![path] = NULL]
      /\ secrets' = [q \in Paths |-> IF secrets[q] = NULL THEN NULL
                                    ELSE [secrets[q] EXCEPT !.sealed = sealed]]
      /\ UNCHANGED <<schema, meta, enrolled, phrase, key, pc, printed, crashes>>

\* Mutant: a row that was bound already is taken for unreadable.
RewrapLegacyOnly(path) ==
  LET row == todo[path]
      legacy == Opens(row.sealed, key, NULL)
  IN  /\ pc = "rewrap" /\ row # NULL
      /\ \/ ~legacy /\ Exit /\ UNCHANGED secrets
         \/ /\ legacy
            /\ todo' = [todo EXCEPT ![path] = NULL]
            /\ secrets' = [secrets EXCEPT ![path] =
                             Bound(key, path, row.value_type, row.sealed.plain)]
            /\ UNCHANGED <<phrase, key, pc>>
      /\ UNCHANGED <<schema, meta, enrolled, printed, crashes>>

\* then opens each row in turn, and binds those that open only unbound. A row
\* that opens neither way ends the process.
Rewrap(path) ==
  LET row == todo[path]
      bound == Opens(row.sealed, key, Aad(path, row))
      legacy == Opens(row.sealed, key, NULL)
  IN  /\ pc = "rewrap" /\ row # NULL
      /\ \/ ~bound /\ ~legacy /\ Exit /\ UNCHANGED secrets
         \/ /\ bound \/ legacy
            /\ todo' = [todo EXCEPT ![path] = NULL]
            /\ secrets' = IF bound THEN secrets
                          ELSE [secrets EXCEPT ![path] =
                                  Bound(key, path, row.value_type, row.sealed.plain)]
            /\ UNCHANGED <<phrase, key, pc>>
      /\ UNCHANGED <<schema, meta, enrolled, printed, crashes>>

Listen ==
  /\ pc = "rewrap" /\ todo = Empty
  /\ pc' = "serving"
  /\ UNCHANGED <<database, memory, printed, crashes>>

-----------------------------------------------------------------------------
(* Serving: what the requests of SecretStore do to the table.              *)

PutSecret(path, type, value) ==
  /\ pc = "serving"
  /\ secrets' = [secrets EXCEPT ![path] = Bound(key, path, type, value)]
  /\ UNCHANGED <<schema, meta, enrolled, memory, pc, printed, crashes>>

DeleteSecret(path) ==
  /\ pc = "serving"
  /\ secrets' = [secrets EXCEPT ![path] = NULL]
  /\ UNCHANGED <<schema, meta, enrolled, memory, pc, printed, crashes>>

\* The process is killed, or panics, or a statement fails during the start.
Crash ==
  /\ pc # "down" /\ crashes < MaxCrashes
  /\ crashes' = crashes + 1
  /\ Exit
  /\ UNCHANGED <<database, printed>>

Booting ==
  \/ Migrate \/ NeedsBootstrap \/ IsEmpty \/ Bootstrap \/ PrintRootKey
  \/ LoadMeta \/ CollectRows \/ (\E path \in Paths : Rewrap(path)) \/ Listen

Serving ==
  \E path \in Paths :
    \/ \E type \in Type, value \in Values : PutSecret(path, type, value)
    \/ DeleteSecret(path)

Start == \E p \in Phrases : StartWith(p)

Next == Start \/ Booting \/ Serving \/ Crash

Spec == Init /\ [][Next]_vars

\* run() is the only task until the socket listens, so the runtime keeps
\* polling it; whoever operates the server starts it again while it is down,
\* and does not try one passphrase for ever and leave out another.
FairSpec == Spec /\ WF_vars(Booting) /\ \A p \in Phrases : SF_vars(StartWith(p))

-----------------------------------------------------------------------------
(* Properties.                                                             *)

TypeOK ==
  /\ schema \in 0..SchemaObjects
  /\ meta \in Salts \union {NULL}
  /\ enrolled \in BOOLEAN
  /\ secrets \in Table
  /\ pc \in {"down", "migrate", "needs_bootstrap", "is_empty", "bootstrap", "print",
             "load_meta", "collect", "rewrap", "serving"}
  /\ phrase \in Phrases \union {NULL}
  /\ key \in MasterKey \union {NULL}
  /\ todo \in Table
  /\ printed \in BOOLEAN
  /\ crashes \in 0..MaxCrashes

(***************************************************************************)
(* The boot-time migration leaves nothing behind: whatever crashes cut it  *)
(* short before, and whichever passphrase the server was started with, a   *)
(* server that listens can open every row, bound to its path and type.     *)
(***************************************************************************)
ServedRowsOpen ==
  pc = "serving" =>
    \A path \in Paths : secrets[path] # NULL =>
      Opens(secrets[path].sealed, key, Aad(path, secrets[path]))

(***************************************************************************)
(* No sequence of starts, crashes, migrations and writes, with whatever    *)
(* passphrases, leaves secrets that no single passphrase opens any more,   *)
(* or that need a salt other than the one stored.                          *)
(***************************************************************************)
OnePassphraseOpensAll == UnderOneKey(secrets, meta)

Plaintexts(table) ==
  [path \in Paths |-> IF table[path] = NULL THEN NULL
                      ELSE <<table[path].value_type, table[path].sealed.plain>>]

(***************************************************************************)
(* Starting, failing to start, crashing and rewrapping never change, lose  *)
(* or move a secret: only a request to a listening server does.            *)
(***************************************************************************)
StartsKeepSecrets ==
  [][pc # "serving" => Plaintexts(secrets') = Plaintexts(secrets)]_vars

(***************************************************************************)
(* "The first admin is auto-created on first server start and printed      *)
(* once" (README.md): whenever the server listens, somebody was shown the  *)
(* root key. The key is printed after the transaction that creates it.     *)
(***************************************************************************)
RootKeyWasPrinted == pc = "serving" => printed

\* Principals without instance_meta are the one database run() refuses.
Startable == enrolled => meta # NULL

\* The passphrase of the running process opens every secret.
PhraseOpensAll ==
  \A path \in Paths : secrets[path] # NULL => secrets[path].sealed.key = <<phrase, meta>>

(***************************************************************************)
(* A start with the passphrase that the secrets are under is never turned  *)
(* away: whatever was interrupted, half migrated or tried with other       *)
(* passphrases before, only a crash or a failing statement ends it.        *)
(***************************************************************************)
OpeningPhraseIsServed ==
  [][pc # "down" /\ Startable /\ PhraseOpensAll /\ crashes' = crashes => pc' # "down"]_vars

(***************************************************************************)
(* A server that crashes finitely often comes up for good with one of the  *)
(* passphrases tried: neither a half-created schema, nor a half-done       *)
(* migration, nor what starts with other passphrases did or stored before  *)
(* they failed stops every later start.                                    *)
(***************************************************************************)
ComesUp == Startable => <>[](pc = "serving")
=============================================================================
