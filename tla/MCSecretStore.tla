--------------------------- MODULE MCSecretStore ----------------------------
(***************************************************************************)
(* Small instances of SecretStore: two workspaces whose names differ in    *)
(* case, a project with two environments, and the calls of its clients.    *)
(***************************************************************************)
EXTENDS SecretStore, TLC

CONSTANTS text, json, mk

Symmetry == Permutations(Requests)

\* "a b" has a space, so no regex match.
MCSegments == {"acme", "Acme", "api", "prod", "dev", "KEY", "a b"}
MCValid == MCSegments \ {"a b"}
MCLower == [s \in MCSegments |-> IF s = "Acme" THEN "acme" ELSE s]

ProjKey == <<"acme", "api", "KEY">>
ProdKey == <<"acme", "api", "prod", "KEY">>
DevKey == <<"acme", "api", "dev", "KEY">>
OtherKey == <<"Acme", "api", "KEY">>
BadKey == <<"acme", "a b", "KEY">>
MCPaths == {ProjKey, ProdKey, DevKey, OtherKey, BadKey}

Reader == [id |-> 1, role |-> "reader"]
Writer == [id |-> 2, role |-> "writer"]
MCCallers == {Reader, Writer}

\* A project-wide default, a secret of one environment, and a namesake
\* workspace.
TextRow(path) ==
  [value_type |-> "string",
   sealed |-> [key |-> MasterKey, aad |-> <<path, "string">>, plain |-> text]]
Filled == [path \in Paths |-> IF path \in {ProjKey, DevKey, OtherKey}
                              THEN TextRow(path) ELSE NULL]
StoresFilled == {Filled}
StoresBoth == {Filled, [path \in Paths |-> NULL]}

Plain == [op |-> "list", path |-> NULL, type |-> NULL, value |-> NULL,
          ws |-> "acme", proj |-> "api", env |-> NULL, merge |-> NULL]
Put(path, type, value) ==
  [Plain EXCEPT !.op = "put", !.path = path, !.type = type, !.value = value]
Get(path) == [Plain EXCEPT !.op = "get", !.path = path]
Delete(path) == [Plain EXCEPT !.op = "delete", !.path = path]
List(env, merge) == [Plain EXCEPT !.env = env, !.merge = merge]
Read(env, merge) == [List(env, merge) EXCEPT !.op = "values"]

\* Requests that meet on the same secrets.
CallsCore == {Put(ProjKey, "json", json), Put(ProjKey, "other", text),
              Put(ProdKey, NULL, text), Get(ProjKey), Delete(ProjKey),
              List("prod", NULL), Read(NULL, NULL), Read("prod", NULL)}

\* Every way to be refused or to fail, and every kind of listing.
CallsFaults ==
  {Put(ProjKey, "json", json), Put(ProjKey, NULL, json), Put(ProdKey, NULL, text),
   Put(ProjKey, "json", text), Put(ProjKey, "other", text), Put(ProjKey, NULL, NULL),
   Put(BadKey, NULL, text), Get(ProjKey), Get(ProdKey), Get(BadKey),
   Delete(ProjKey), Delete(ProdKey), List(NULL, NULL), List("dev", FALSE),
   List("prod", TRUE), List("a b", NULL), Read(NULL, NULL), Read("dev", FALSE),
   Read("dev", TRUE), [Read(NULL, NULL) EXCEPT !.ws = "Acme"],
   [Read(NULL, NULL) EXCEPT !.ws = "a b"]}
=============================================================================
