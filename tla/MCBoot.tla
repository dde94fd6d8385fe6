------------------------------- MODULE MCBoot -------------------------------
(***************************************************************************)
(* Small instances of Boot: a new database, one that 0.1 left behind with  *)
(* a migration begun, and one whose principals have lost instance_meta.    *)
(***************************************************************************)
EXTENDS Boot

CONSTANTS p1, p2, v1, v2, right, wrong, oldSalt, newSalt

LegacyRow == [value_type |-> "json",
              sealed |-> [key |-> <<right, oldSalt>>, aad |-> NULL, plain |-> v1]]
BoundRow == Bound(<<right, oldSalt>>, p2, "string", v2)

Fresh == [schema |-> 0, meta |-> NULL, enrolled |-> FALSE, secrets |-> Empty]
Legacy == [schema |-> 5, meta |-> oldSalt, enrolled |-> TRUE,
           secrets |-> [path \in Paths |-> LegacyRow]]
HalfDone == [Legacy EXCEPT !.secrets[p2] = BoundRow]
NoMeta == [schema |-> 5, meta |-> NULL, enrolled |-> TRUE, secrets |-> Empty]

AnyDatabase == {Fresh, Legacy, HalfDone, NoMeta}
SoundDatabases == {Fresh, Legacy, HalfDone}
NewDatabase == {Fresh}
=============================================================================
