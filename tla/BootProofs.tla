----------------------------- MODULE BootProofs -----------------------------
(***************************************************************************)
(* Proofs about Boot, for every set of paths, values and passphrases,      *)
(* every initial database and any number of crashes.                       *)
(***************************************************************************)
EXTENDS Boot, TLAPS

Bootstrapping == {"is_empty", "bootstrap"}
Bootstrapped == {"print", "load_meta", "collect", "rewrap", "serving"}

\* What a start relies on at each of its steps: the master key is the one of
\* its passphrase and the stored salt, the collected rows are still the
\* table's, and every row it has dealt with opens, bound.
Progress ==
  /\ pc \in Bootstrapping => meta = NULL
  /\ pc \in Bootstrapped => meta \in Salts
  /\ pc # "down" => phrase \in Phrases
  /\ pc \in {"collect", "rewrap", "serving"} => key = <<phrase, meta>>
  /\ pc = "rewrap" =>
       \A path \in Paths : todo[path] # NULL => todo[path] = secrets[path]
  /\ pc \in {"rewrap", "serving"} =>
       \A path \in Paths : (pc = "serving" \/ todo[path] = NULL) /\ secrets[path] # NULL =>
         Opens(secrets[path].sealed, key, Aad(path, secrets[path]))

\* What the database keeps to between any two steps.
SoundDatabase ==
  /\ UnderOneKey(secrets, meta)
  /\ OwnOrLegacy(secrets)
  /\ meta = NULL => secrets = Empty

BootInv == TypeOK /\ Progress /\ SoundDatabase

\* A row sealed by put or by the rewrap is a row of the table and opens.
LEMMA BoundIsRow ==
  ASSUME NEW k \in MasterKey, NEW path \in Paths, NEW type \in Type, NEW value \in Values
  PROVE  /\ Bound(k, path, type, value) \in Row
         /\ Bound(k, path, type, value) # NULL
         /\ Bound(k, path, type, value).value_type = type
         /\ Bound(k, path, type, value).sealed.key = k
         /\ Bound(k, path, type, value).sealed.aad = <<path, type>>
         /\ Bound(k, path, type, value).sealed.plain = value
<1>1. [key |-> k, aad |-> <<path, type>>, plain |-> value] \in Sealed
  BY DEF Sealed
<1>2. Bound(k, path, type, value) \in Row
  BY <1>1 DEF Bound, Row
<1>3. QED  BY <1>1, <1>2, BootConstantsOK DEF Bound

\* The empty table satisfies everything asked of one.
LEMMA EmptyIsSound ==
  ASSUME NEW salt
  PROVE  Empty \in Table /\ UnderOneKey(Empty, salt) /\ OwnOrLegacy(Empty)
BY BootConstantsOK DEF Empty, Table, UnderOneKey, OwnOrLegacy

\* Every database an earlier version may leave satisfies the invariant.
LEMMA InitEstablishes == Init => BootInv
<1> SUFFICES ASSUME Init PROVE BootInv
  OBVIOUS
<1>1. PICK db \in InitDatabases :
        /\ schema = db.schema /\ meta = db.meta
        /\ enrolled = db.enrolled /\ secrets = db.secrets /\ printed = db.enrolled
  BY DEF Init
<1>2. db \in Database /\ db.schema <= SchemaObjects
      /\ UnderOneKey(db.secrets, db.meta) /\ OwnOrLegacy(db.secrets)
      /\ (db.meta = NULL => db.secrets = Empty)
  BY BootConstantsOK
<1>3. SoundDatabase
  BY <1>1, <1>2 DEF SoundDatabase
<1>4. TypeOK
  <2>1. schema \in 0..SchemaObjects
    BY <1>1, <1>2 DEF Database, SchemaObjects
  <2>2. QED  BY <1>1, <1>2, <2>1, EmptyIsSound, BootConstantsOK DEF Init, TypeOK, Database
<1>5. Progress
  BY DEF Init, Progress, Bootstrapping, Bootstrapped
<1>6. QED  BY <1>3, <1>4, <1>5 DEF BootInv

\* Ending the process forgets the memory and keeps the database.
LEMMA ExitKeeps ==
  ASSUME BootInv, Exit, UNCHANGED <<database, printed>>, crashes' \in 0..MaxCrashes
  PROVE  BootInv'
<1>1. TypeOK'
  BY EmptyIsSound DEF BootInv, TypeOK, Exit, database
<1>2. Progress'
  BY DEF Progress, Exit, Bootstrapping, Bootstrapped
<1>3. SoundDatabase'
  BY DEF BootInv, SoundDatabase, database, UnderOneKey, OwnOrLegacy, Aad
<1>4. QED  BY <1>1, <1>2, <1>3 DEF BootInv

\* The steps that leave the database and the collected rows alone.
LEMMA QuietStepKeeps ==
  ASSUME BootInv,
         Start \/ NeedsBootstrap \/ PrintRootKey \/ LoadMeta \/ CollectRows \/ Listen
  PROVE  BootInv'
<1> USE DEF BootInv
<1>1. TypeOK'
  <2>1. LoadMeta => <<phrase, meta>> \in MasterKey
    BY DEF LoadMeta, Progress, Bootstrapped, MasterKey
  <2>2. QED  BY <2>1 DEF TypeOK, Start, StartWith, NeedsBootstrap, PrintRootKey, LoadMeta, CollectRows,
                         Listen, database, memory
<1>2. SoundDatabase'
  <2>1. UNCHANGED database
    BY DEF Start, StartWith, NeedsBootstrap, PrintRootKey, LoadMeta, CollectRows, Listen
  <2>2. QED  BY <2>1 DEF SoundDatabase, database, UnderOneKey, OwnOrLegacy, Aad
<1>3. CASE Start
  BY <1>1, <1>2, <1>3 DEF Start, StartWith, Progress, Bootstrapping, Bootstrapped
<1>4. CASE NeedsBootstrap
  BY <1>1, <1>2, <1>4 DEF NeedsBootstrap, Progress, TypeOK, Bootstrapping, Bootstrapped, database, memory
<1>5. CASE PrintRootKey
  BY <1>1, <1>2, <1>5 DEF PrintRootKey, Progress, Bootstrapping, Bootstrapped, database, memory
<1>6. CASE LoadMeta
  BY <1>1, <1>2, <1>6 DEF LoadMeta, Progress, Bootstrapping, Bootstrapped, database
<1>7. CASE CollectRows
  BY <1>1, <1>2, <1>7 DEF CollectRows, Progress, Bootstrapping, Bootstrapped, database
<1>8. CASE Listen
  <2>1. \A path \in Paths : todo[path] = NULL
    BY <1>8 DEF Listen, Empty
  <2>2. QED  BY <1>1, <1>2, <1>8, <2>1 DEF Listen, Progress, Bootstrapping, Bootstrapped, database, memory,
                                Opens, Aad
<1>9. QED  BY <1>1, <1>2, <1>3, <1>4, <1>5, <1>6, <1>7, <1>8

\* Migration touches the schema only.
LEMMA MigrateKeeps ==
  ASSUME BootInv, Migrate
  PROVE  BootInv'
<1>1. TypeOK'
  BY DEF BootInv, Migrate, TypeOK, SchemaObjects, memory
<1>2. Progress'
  BY DEF BootInv, Migrate, Progress, Bootstrapping, Bootstrapped, memory
<1>3. SoundDatabase'
  BY DEF BootInv, Migrate, SoundDatabase, UnderOneKey, OwnOrLegacy, Aad
<1>4. QED  BY <1>1, <1>2, <1>3 DEF BootInv

\* The check for a used database goes on to the bootstrap or ends the process.
LEMMA IsEmptyKeeps ==
  ASSUME BootInv, IsEmpty
  PROVE  BootInv'
<1>1. CASE enrolled
  BY <1>1, ExitKeeps DEF IsEmpty, BootInv, TypeOK
<1>2. CASE ~enrolled
  <2>1. pc = "is_empty" /\ pc' = "bootstrap" /\ UNCHANGED <<database, memory, printed, crashes>>
    BY <1>2 DEF IsEmpty
  <2>2. TypeOK'
    BY <2>1 DEF BootInv, TypeOK, database, memory
  <2>3. Progress'
    BY <2>1 DEF BootInv, Progress, database, memory, Bootstrapping, Bootstrapped
  <2>4. SoundDatabase'
    BY <2>1 DEF BootInv, SoundDatabase, database, UnderOneKey, OwnOrLegacy, Aad
  <2>5. QED  BY <2>2, <2>3, <2>4 DEF BootInv
<1>3. QED  BY <1>1, <1>2

\* A bootstrap finds no secrets: no row depends on the salt it replaces.
LEMMA BootstrapKeeps ==
  ASSUME BootInv, Bootstrap
  PROVE  BootInv'
<1>1. secrets = Empty /\ secrets' = Empty
  BY DEF BootInv, Bootstrap, Progress, Bootstrapping, SoundDatabase
<1>2. TypeOK'
  BY BootConstantsOK DEF BootInv, Bootstrap, TypeOK, memory
<1>3. Progress'
  BY BootConstantsOK DEF BootInv, Bootstrap, Progress, Bootstrapping, Bootstrapped, memory
<1>4. SoundDatabase'
  BY <1>1, EmptyIsSound, BootConstantsOK DEF SoundDatabase, Bootstrap
<1>5. QED  BY <1>2, <1>3, <1>4 DEF BootInv

\* Rows that open under one key are under one key.
LEMMA OpenRowsUnderOneKey ==
  ASSUME NEW p \in Phrases, NEW salt, NEW table,
         \A path \in Paths : table[path] # NULL => table[path].sealed.key = <<p, salt>>
  PROVE  UnderOneKey(table, salt)
BY DEF UnderOneKey

\* A turn of the loop: the row at hand opens, and is bound afterwards.
LEMMA RewrapKeeps ==
  ASSUME BootInv, NEW path \in Paths, Rewrap(path)
  PROVE  BootInv' /\ Plaintexts(secrets') = Plaintexts(secrets)
<1> DEFINE row == todo[path]
           bound == Opens(row.sealed, key, Aad(path, row))
           legacy == Opens(row.sealed, key, NULL)
           new == Bound(key, path, row.value_type, row.sealed.plain)
<1>1. /\ pc = "rewrap" /\ row # NULL /\ row = secrets[path] /\ row \in Row
      /\ key \in MasterKey /\ key = <<phrase, meta>> /\ phrase \in Phrases /\ meta \in Salts
      /\ secrets \in Table /\ todo \in Table
  BY DEF Rewrap, BootInv, TypeOK, Progress, Table, Bootstrapped, MasterKey
<1>2. CASE ~bound /\ ~legacy
  <2>1. Exit /\ UNCHANGED <<secrets, schema, meta, enrolled, printed, crashes>>
    BY <1>2 DEF Rewrap
  <2>2. BootInv'
    BY <2>1, ExitKeeps DEF BootInv, TypeOK, database
  <2>3. QED  BY <2>1, <2>2
<1>3. CASE bound \/ legacy
  <2>1. /\ todo' = [todo EXCEPT ![path] = NULL]
        /\ secrets' = IF bound THEN secrets ELSE [secrets EXCEPT ![path] = new]
        /\ UNCHANGED <<phrase, key, pc, schema, meta, enrolled, printed, crashes>>
    BY <1>3 DEF Rewrap
  <2>2. row.value_type \in Type /\ row.sealed.plain \in Values /\ row.sealed.key = key
    BY <1>1, <1>3 DEF Row, Sealed, Opens
  <2>3. /\ new \in Row /\ new # NULL /\ new.value_type = row.value_type
        /\ new.sealed.key = key /\ new.sealed.aad = Aad(path, row)
        /\ new.sealed.plain = row.sealed.plain
    BY <1>1, <2>2, BoundIsRow DEF Aad
  <2> HIDE DEF new
  <2>4. /\ secrets' \in Table /\ todo' \in Table /\ todo'[path] = NULL
        /\ \A q \in Paths \ {path} : secrets'[q] = secrets[q] /\ todo'[q] = todo[q]
        /\ secrets'[path] # NULL /\ secrets'[path].value_type = row.value_type
        /\ secrets'[path].sealed.plain = row.sealed.plain
        /\ Opens(secrets'[path].sealed, key, Aad(path, row))
    <3>1. CASE bound
      BY <1>1, <2>1, <3>1, BootConstantsOK DEF Table
    <3>2. CASE ~bound
      BY <1>1, <2>1, <2>3, <3>2 DEF Table, Opens
    <3>3. QED  BY <3>1, <3>2
  <2>5. TypeOK'
    BY <2>1, <2>4 DEF BootInv, TypeOK
  <2>6. Progress'
    <3>1. pc' = "rewrap" /\ meta' = meta /\ key' = key /\ phrase' = phrase
      BY <1>1, <2>1
    <3>2. \A q \in Paths : todo'[q] # NULL => todo'[q] = secrets'[q]
      BY <1>1, <2>4 DEF BootInv, Progress
    <3>3. ASSUME NEW q \in Paths, todo'[q] = NULL, secrets'[q] # NULL
          PROVE  Opens(secrets'[q].sealed, key, Aad(q, secrets'[q]))
      <4>1. CASE q = path
        BY <2>4, <4>1 DEF Aad
      <4>2. CASE q # path
        BY <1>1, <2>4, <3>3, <4>2 DEF BootInv, Progress
      <4>3. QED  BY <4>1, <4>2
    <3>4. QED  BY <1>1, <3>1, <3>2, <3>3 DEF Progress, Bootstrapping, Bootstrapped, Opens, Aad
  <2>7. SoundDatabase'
    <3>1. \A q \in Paths : secrets'[q] # NULL => secrets'[q].sealed.key = key
      <4>1. PICK p \in Phrases : \A q \in Paths :
              secrets[q] # NULL => secrets[q].sealed.key = <<p, meta>>
        BY DEF BootInv, SoundDatabase, UnderOneKey
      <4>2. key = <<p, meta>>
        BY <1>1, <2>2, <4>1
      <4>3. QED  BY <2>4, <4>1, <4>2 DEF Opens
    <3>2. UnderOneKey(secrets', meta')
      BY <1>1, <2>1, <3>1 DEF UnderOneKey
    <3>3. OwnOrLegacy(secrets')
      BY <2>4 DEF BootInv, SoundDatabase, OwnOrLegacy, Opens, Aad
    <3>4. meta' # NULL
      BY <1>1, <2>1, BootConstantsOK
    <3>5. QED  BY <3>2, <3>3, <3>4 DEF SoundDatabase
  <2>8. Plaintexts(secrets') = Plaintexts(secrets)
    BY <1>1, <2>4 DEF Plaintexts
  <2>9. QED  BY <2>5, <2>6, <2>7, <2>8 DEF BootInv
<1>4. QED  BY <1>2, <1>3

\* put and delete keep the served rows open under the server's key.
LEMMA ServingKeeps ==
  ASSUME BootInv, Serving
  PROVE  BootInv'
<1>1. /\ pc = "serving" /\ pc' = "serving"
      /\ UNCHANGED <<schema, meta, enrolled, memory, printed, crashes>>
  BY DEF Serving, PutSecret, DeleteSecret
<1>2. /\ key \in MasterKey /\ key = <<phrase, meta>> /\ phrase \in Phrases /\ meta \in Salts
      /\ secrets \in Table
      /\ \A q \in Paths : secrets[q] # NULL =>
           Opens(secrets[q].sealed, key, Aad(q, secrets[q]))
  BY <1>1 DEF BootInv, TypeOK, Progress, Bootstrapped, MasterKey
<1>3. /\ secrets' \in Table
      /\ \A q \in Paths : secrets'[q] # NULL =>
           Opens(secrets'[q].sealed, key, Aad(q, secrets'[q]))
  <2>1. CASE \E path \in Paths, type \in Type, value \in Values : PutSecret(path, type, value)
    <3>1. PICK path \in Paths, type \in Type, value \in Values :
            secrets' = [secrets EXCEPT ![path] = Bound(key, path, type, value)]
      BY <2>1 DEF PutSecret
    <3> DEFINE new == Bound(key, path, type, value)
    <3>2. /\ secrets' = [secrets EXCEPT ![path] = new]
          /\ new \in Row /\ new.value_type = type /\ Opens(new.sealed, key, <<path, type>>)
      BY <1>2, <3>1, BoundIsRow DEF Opens
    <3> HIDE DEF new
    <3>3. secrets' \in Table
      BY <1>2, <3>2 DEF Table
    <3>4. ASSUME NEW q \in Paths, secrets'[q] # NULL
          PROVE  Opens(secrets'[q].sealed, key, Aad(q, secrets'[q]))
      <4>1. CASE q = path
        BY <1>2, <3>2, <4>1 DEF Table, Aad
      <4>2. CASE q # path
        BY <1>2, <3>2, <3>4, <4>2 DEF Table
      <4>3. QED  BY <4>1, <4>2
    <3>5. key' = key
      BY <1>1 DEF memory
    <3>6. QED  BY <3>3, <3>4, <3>5 DEF Opens, Aad
  <2>2. CASE \E path \in Paths : DeleteSecret(path)
    BY <1>2, <2>2 DEF DeleteSecret, Table, Aad
  <2>3. QED  BY <2>1, <2>2 DEF Serving
<1>4. TypeOK'
  BY <1>1, <1>3 DEF BootInv, TypeOK, memory
<1>5. Progress'
  BY <1>1, <1>2, <1>3 DEF Progress, Bootstrapping, Bootstrapped, memory, Opens, Aad
<1>6. SoundDatabase'
  <2>1. UnderOneKey(secrets', meta')
    BY <1>1, <1>2, <1>3 DEF UnderOneKey, Opens
  <2>2. OwnOrLegacy(secrets')
    BY <1>3 DEF OwnOrLegacy, Opens
  <2>3. meta' # NULL
    BY <1>1, <1>2, BootConstantsOK
  <2>4. QED  BY <2>1, <2>2, <2>3 DEF SoundDatabase
<1>7. QED  BY <1>4, <1>5, <1>6 DEF BootInv

\* A crash at any point leaves a sound database.
LEMMA CrashKeeps ==
  ASSUME BootInv, Crash
  PROVE  BootInv'
<1>1. crashes' \in 0..MaxCrashes
  BY BootConstantsOK DEF BootInv, TypeOK, Crash
<1>2. QED  BY <1>1, ExitKeeps DEF Crash

\* A stuttering step keeps the invariant.
LEMMA StutterKeeps ==
  ASSUME BootInv, UNCHANGED vars
  PROVE  BootInv'
<1>1. TypeOK'
  BY DEF BootInv, TypeOK, vars, database, memory
<1>2. Progress'
  BY DEF BootInv, Progress, vars, database, memory, Opens, Aad
<1>3. SoundDatabase'
  BY DEF BootInv, SoundDatabase, vars, database, UnderOneKey, OwnOrLegacy, Aad
<1>4. QED  BY <1>1, <1>2, <1>3 DEF BootInv

\* The invariant is inductive.
LEMMA StepKeeps == BootInv /\ [Next]_vars => BootInv'
<1> SUFFICES ASSUME BootInv, [Next]_vars PROVE BootInv'
  OBVIOUS
<1>1. CASE Start \/ NeedsBootstrap \/ PrintRootKey \/ LoadMeta \/ CollectRows \/ Listen
  BY <1>1, QuietStepKeeps
<1>2. CASE Migrate
  BY <1>2, MigrateKeeps
<1>3. CASE IsEmpty
  BY <1>3, IsEmptyKeeps
<1>4. CASE Bootstrap
  BY <1>4, BootstrapKeeps
<1>5. CASE \E path \in Paths : Rewrap(path)
  BY <1>5, RewrapKeeps
<1>6. CASE Serving
  BY <1>6, ServingKeeps
<1>7. CASE Crash
  BY <1>7, CrashKeeps
<1>8. CASE UNCHANGED vars
  BY <1>8, StutterKeeps
<1>9. QED  BY <1>1, <1>2, <1>3, <1>4, <1>5, <1>6, <1>7, <1>8 DEF Next, Booting

\* It holds in every reachable state.
LEMMA BootInvariant == Spec => []BootInv
<1>1. QED  BY InitEstablishes, StepKeeps, PTL DEF Spec

\* Every variable keeps its type, for any databases, phrases and crashes.
THEOREM BootTypesCorrect == Spec => []TypeOK
<1>1. BootInv => TypeOK
  BY DEF BootInv
<1>2. QED  BY <1>1, BootInvariant, PTL

(***************************************************************************)
(* What a listening server has in its table opens, bound to its place,     *)
(* whatever crashes and passphrases came before.                           *)
(***************************************************************************)
THEOREM ServedRowsAlwaysOpen == Spec => []ServedRowsOpen
<1>1. BootInv => ServedRowsOpen
  BY DEF BootInv, Progress, ServedRowsOpen
<1>2. QED  BY <1>1, BootInvariant, PTL

(***************************************************************************)
(* There is always a passphrase that, with the stored salt, opens all of   *)
(* the secrets: no start under another one splits them.                    *)
(***************************************************************************)
THEOREM PassphraseRemains == Spec => []OnePassphraseOpensAll
<1>1. BootInv => OnePassphraseOpensAll
  BY DEF BootInv, SoundDatabase, OnePassphraseOpensAll
<1>2. QED  BY <1>1, BootInvariant, PTL

(***************************************************************************)
(* No step outside of serving changes what the table says.                 *)
(***************************************************************************)
THEOREM StartsKeepAllSecrets == Spec => StartsKeepSecrets
<1>1. BootInv /\ [Next]_vars =>
        (pc # "serving" => Plaintexts(secrets') = Plaintexts(secrets))
  <2> SUFFICES ASSUME BootInv, [Next]_vars, pc # "serving"
               PROVE  Plaintexts(secrets') = Plaintexts(secrets)
    OBVIOUS
  <2>1. CASE \E path \in Paths : Rewrap(path)
    BY <2>1, RewrapKeeps
  <2>2. CASE UNCHANGED secrets
    BY <2>2
  <2>3. (\E path \in Paths : Rewrap(path)) \/ UNCHANGED secrets
    BY DEF Next, Booting, Start, StartWith, Migrate, NeedsBootstrap, IsEmpty, Bootstrap, PrintRootKey,
           LoadMeta, CollectRows, Listen, Serving, PutSecret, DeleteSecret, Crash, vars, database
  <2>4. QED  BY <2>1, <2>2, <2>3
<1>2. QED  BY <1>1, BootInvariant, PTL DEF Spec, StartsKeepSecrets

\* A collected row of a table under the start's key opens, one way or other.
LEMMA OpeningRewrapGoesOn ==
  ASSUME BootInv, PhraseOpensAll, NEW path \in Paths, Rewrap(path)
  PROVE  pc' = pc
<1> DEFINE row == todo[path]
<1>1. /\ row # NULL /\ row = secrets[path] /\ key = <<phrase, meta>>
      /\ pc = "rewrap"
  BY DEF Rewrap, BootInv, Progress
<1>2. row.sealed.key = key
  BY <1>1 DEF PhraseOpensAll
<1>3. row.sealed.aad \in {Aad(path, row), NULL}
  BY <1>1 DEF BootInv, SoundDatabase, OwnOrLegacy
<1>4. Opens(row.sealed, key, Aad(path, row)) \/ Opens(row.sealed, key, NULL)
  BY <1>2, <1>3 DEF Opens
<1> QED BY <1>4 DEF Rewrap

(***************************************************************************)
(* A start with the passphrase that the secrets are under ends by a crash  *)
(* or not at all, whatever was done to the database before.                *)
(***************************************************************************)
THEOREM OpeningPhrasesAreServed == Spec => OpeningPhraseIsServed
<1>1. BootInv /\ [Next]_vars =>
        (pc # "down" /\ Startable /\ PhraseOpensAll /\ crashes' = crashes => pc' # "down")
  <2> SUFFICES ASSUME BootInv, [Next]_vars,
                      pc # "down", Startable, PhraseOpensAll, crashes' = crashes
               PROVE  pc' # "down"
    OBVIOUS
  <2>1. CASE \E path \in Paths : Rewrap(path)
    BY <2>1, OpeningRewrapGoesOn
  <2>2. CASE IsEmpty
    <3>1. ~enrolled
      BY <2>2 DEF IsEmpty, Startable, BootInv, Progress, Bootstrapping
    <3> QED BY <2>2, <3>1 DEF IsEmpty
  <2>3. CASE Crash
    BY <2>3 DEF Crash, BootInv, TypeOK
  <2>4. CASE Start
    BY <2>4 DEF Start, StartWith
  <2>5. CASE \/ Migrate \/ NeedsBootstrap \/ Bootstrap \/ PrintRootKey
             \/ LoadMeta \/ CollectRows \/ Listen \/ Serving
    BY <2>5 DEF Migrate, NeedsBootstrap, Bootstrap, PrintRootKey, LoadMeta, CollectRows,
                Listen, Serving, PutSecret, DeleteSecret
  <2>6. CASE UNCHANGED vars
    BY <2>6 DEF vars
  <2> QED BY <2>1, <2>2, <2>3, <2>4, <2>5, <2>6 DEF Next, Booting
<1> QED BY <1>1, BootInvariant, PTL DEF Spec, OpeningPhraseIsServed

\* Where no process dies, what has a salt has shown its root key, but for the
\* moment between the transaction and the println.
PrintInv == meta # NULL /\ pc # "print" => printed

(***************************************************************************)
(* A crash is all that can keep the root key from being seen: without one, *)
(* the documented statement holds for every start on every database that   *)
(* is new or was bootstrapped as a whole.                                  *)
(***************************************************************************)
THEOREM OnlyCrashesHideTheRootKey ==
  MaxCrashes = 0 /\ (\A db \in InitDatabases : db.meta # NULL => db.enrolled)
  => (Spec => []RootKeyWasPrinted)
<1> SUFFICES ASSUME MaxCrashes = 0, \A db \in InitDatabases : db.meta # NULL => db.enrolled
             PROVE  Spec => []RootKeyWasPrinted
  OBVIOUS
<1>1. Init => PrintInv
  BY DEF Init, PrintInv
<1>2. BootInv /\ PrintInv /\ [Next]_vars => PrintInv'
  <2> SUFFICES ASSUME BootInv, PrintInv, [Next]_vars PROVE PrintInv'
    OBVIOUS
  <2>1. ~Crash
    BY DEF Crash, BootInv, TypeOK
  <2>2. CASE Bootstrap
    BY <2>2 DEF Bootstrap, PrintInv
  <2>3. CASE PrintRootKey
    BY <2>3 DEF PrintRootKey, PrintInv
  <2>4. CASE ~Bootstrap /\ ~PrintRootKey
    <3>1. UNCHANGED <<meta, printed>> /\ (pc = "print" => pc' = "print")
      BY <2>1, <2>4 DEF Next, Booting, Start, StartWith, Migrate, NeedsBootstrap, IsEmpty,
         LoadMeta, CollectRows, Rewrap, Listen, Serving, PutSecret, DeleteSecret, vars, database
    <3> QED BY <3>1 DEF PrintInv
  <2> QED BY <2>2, <2>3, <2>4
<1>3. BootInv /\ PrintInv => RootKeyWasPrinted
  BY BootConstantsOK DEF BootInv, Progress, Bootstrapped, PrintInv, RootKeyWasPrinted
<1> QED BY <1>1, <1>2, <1>3, BootInvariant, PTL DEF Spec
=============================================================================
