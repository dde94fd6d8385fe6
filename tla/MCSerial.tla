------------------------------ MODULE MCSerial ------------------------------
(***************************************************************************)
(* A small instance of PrincipalsSerial. One call at a time is the step of *)
(* an induction over tables, so the tables vary more than the requests: a  *)
(* lone admin (whose expiry is beyond an i64), two, one of them about to   *)
(* expire (while it counts, too), a name that a revoked principal had      *)
(* before.                                                                 *)
(***************************************************************************)
EXTENDS PrincipalsSerial, MCPrincipals

ThreePrincipals == <<Entry(root, 1, "admin"), Entry(ops, 2, "admin"), Entry(ci, 3, "reader")>>
TablesSerial ==
  {ThreePrincipals,
   [ThreePrincipals EXCEPT ![2].expires_at = 2],
   [ThreePrincipals EXCEPT ![1].expires_at = I64Max + 3, ![2].role = "writer"],
   [ThreePrincipals EXCEPT ![2].name = root, ![2].revoked = TRUE]}

\* A ttl that overflows, of a principal that must exist to be renamed. (One
\* that does not exist is created without the ttl, which is not documented.)
TooLong == [TimeBox(root, NULL, 9) EXCEPT !.rename = root]

CallsSerial ==
  {Plain, Rotate(root), Rotate(ci), Rotate(NULL), Revoke(1), Revoke(2), Revoke(3), Revoke(4),
   Upsert(root, "reader"), Upsert(ops, "reader"), Upsert(ci, NULL), Upsert(bot, "admin"),
   Upsert(NULL, "admin"), Rename(root, root), Rename(ops, ci), Rename(ci, bot),
   Rename(bot, ops), [Rename(root, bot) EXCEPT !.role = "writer"],
   TimeBox(root, NULL, 1), TooLong, TimeBox(ops, "admin", 1), TimeBox(ci, "writer", 0),
   [ClearTtl(ops) EXCEPT !.rename = bot]}

\* The hypothesis of SerialProofs.
ASSUME CallsFit == TtlsFit
=============================================================================
