---------------------------- MODULE MCPrincipals ----------------------------
(***************************************************************************)
(* Small instances of Principals: the tables a server finds when it starts *)
(* and the calls its clients make.                                         *)
(***************************************************************************)
EXTENDS Principals, TLC

CONSTANTS root, ops, ci, bot, pepper

MCNames == {root, ops, ci, bot}

Symmetry == Permutations(Requests)

Entry(name, key, role) ==
  [name |-> name, key_hash |-> <<pepper, key>>, role |-> role,
   revoked |-> FALSE, expires_at |-> NULL]

\* Two admins and a reader that was rotated once: key 3 is dead.
TwoAdmins == <<Entry(root, 1, "admin"), Entry(ops, 2, "admin"),
               Entry(ci, 4, "reader")>>

\* What bootstrap_atomic left, and a time-boxed second admin.
Bootstrapped == <<Entry(root, 1, "admin")>>
TimeBoxedAdmin ==
  <<Entry(root, 1, "admin"),
    [Entry(ops, 2, "admin") EXCEPT !.expires_at = 2]>>

Plain == [op |-> "me", name |-> NULL, role |-> NULL, ttl |-> NULL,
          clear_ttl |-> FALSE, rename |-> NULL, id |-> 0]
Upsert(name, role) == [Plain EXCEPT !.op = "upsert", !.name = name, !.role = role]
Rename(name, new) == [Upsert(name, NULL) EXCEPT !.rename = new]
TimeBox(name, role, ttl) == [Upsert(name, role) EXCEPT !.ttl = ttl]
ClearTtl(name) == [Upsert(name, NULL) EXCEPT !.clear_ttl = TRUE]
Rotate(name) == [Plain EXCEPT !.op = "rotate", !.name = name]
Revoke(id) == [Plain EXCEPT !.op = "revoke", !.id = id]

TablesCore == {TwoAdmins}
CallsCore == {Plain, Upsert(ops, "reader"), Upsert(root, "reader"),
              Upsert(bot, "admin"), Rename(ci, bot), Rotate(ci),
              Revoke(2), Revoke(3)}

\* Expiry, faults and refusals, two requests at a time.
TablesExpiry == {Bootstrapped, TimeBoxedAdmin}
CallsExpiry == {Plain, Rotate(ops), Rotate(NULL), Revoke(1), Revoke(2), Revoke(3),
                Upsert(root, "writer"), Upsert(ops, "writer"),
                TimeBox(ops, "admin", 1), TimeBox(root, NULL, 2),
                TimeBox(ci, NULL, 8), TimeBox(root, NULL, 0),
                ClearTtl(ops), [ClearTtl(ops) EXCEPT !.ttl = 1],
                Rename(ops, root), Rename(bot, root),
                [Rename(ops, bot) EXCEPT !.role = "writer"]}

\* Calls that meet each other between a check and the write it was made for.
CallsRaces == {Upsert(root, "reader"), Upsert(ops, "reader"), Upsert(ci, "writer"),
               Rename(ci, bot), Rename(ops, bot), Rename(ops, ci), Rotate(ci),
               Revoke(3)}
=============================================================================
