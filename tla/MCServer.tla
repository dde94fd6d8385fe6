------------------------------ MODULE MCServer ------------------------------
(***************************************************************************)
(* A small instance of Server: two admins and a writer that are renamed,   *)
(* demoted, rotated and revoked while one secret is written and read.      *)
(***************************************************************************)
EXTENDS Server, MCPrincipals

CONSTANTS text, mk

\* Two admins, a writer that was rotated once: key 3 is dead.
TablesServer == {<<Entry(root, 1, "admin"), Entry(ops, 2, "admin"),
                   Entry(ci, 4, "writer")>>}
CallsServer == {Upsert(ci, "reader"), Upsert(bot, "writer"), Rename(ci, bot),
                Rotate(ci), Revoke(3), Revoke(4)}
MCCallers == [id : 1..5, role : Role]

MCSegments == {"acme", "api", "KEY"}
MCLower == [s \in MCSegments |-> s]
Key == <<"acme", "api", "KEY">>

Ask == [op |-> "get", path |-> Key, type |-> NULL, value |-> NULL,
        ws |-> "acme", proj |-> "api", env |-> NULL, merge |-> NULL]
CallsOnSecret == {Ask, [Ask EXCEPT !.op = "put", !.value = text],
                  [Ask EXCEPT !.op = "delete"]}

TextRow == [value_type |-> "string",
            sealed |-> [key |-> mk, aad |-> <<Key, "string">>, plain |-> text]]
StoreWithKey == {[path \in Paths |-> TextRow]}
ThePath == {Key}
=============================================================================
