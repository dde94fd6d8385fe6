---------------------------- MODULE SecretScope ----------------------------
(***************************************************************************)
(* Secret paths and what a listing shows (src/secrets.rs). A path          *)
(* "/acme/api/prod/KEY" is the sequence of its segments; the strings       *)
(* between slashes are atoms, and Lower folds the case of one as SQLite's  *)
(* LIKE does.                                                              *)
(***************************************************************************)
EXTENDS Naturals, Sequences

CONSTANTS
  Segments,     \* what may stand between two slashes
  Valid,        \* the segments that match [a-zA-Z0-9_-]{1,64}
  Lower,        \* the ASCII case folding of each segment
  NULL          \* Rust None: no env

ASSUME ScopeConstantsOK ==
  /\ Valid \subseteq Segments
  /\ Lower \in [Segments -> Segments]
  /\ NULL \notin Segments

\* The routes carry three or four segments.
Path == [1..3 -> Segments] \union [1..4 -> Segments]

\* The query of a list request; the project's list has no env.
Scope == [ws : Segments, proj : Segments, env : Segments \union {NULL}, merge : BOOLEAN]

\* parse_path and validate_parsed, of a path a route built.
ValidPath(path) == \A i \in DOMAIN path : path[i] \in Valid

\* validate_segment on each part of a query.
ValidScope(s) == {s.ws, s.proj} \subseteq Valid /\ s.env \in Valid \union {NULL}

\* path LIKE '/<prefix>/%': the prefix is escaped, letters match in either case.
Like(path, prefix) ==
  /\ Len(path) > Len(prefix)
  /\ \A i \in 1..Len(prefix) : Lower[path[i]] = Lower[prefix[i]]

QueryPrefix(s) ==
  IF s.env # NULL /\ ~s.merge THEN <<s.ws, s.proj, s.env>> ELSE <<s.ws, s.proj>>

\* Mutant: the secrets of every environment.
PathInAnyEnv(path, s) ==
  /\ Len(path) >= 3 /\ path[1] = s.ws /\ path[2] = s.proj
  /\ Len(path) = 3 => s.env = NULL \/ s.merge

PathInScope(path, s) ==
  /\ Len(path) >= 3 /\ path[1] = s.ws /\ path[2] = s.proj
  /\ \/ Len(path) = 3 /\ (s.env = NULL \/ s.merge)
     \/ Len(path) = 4 /\ (s.env = NULL \/ path[3] = s.env)

\* The rows list_project's SELECT returns, and those list and list_with_values
\* keep of theirs.
InProjectList(path, s) == Like(path, <<s.ws, s.proj>>)
InList(path, s) == Like(path, QueryPrefix(s)) /\ PathInScope(path, s)

-----------------------------------------------------------------------------
(* What the documentation promises (README.md, "Paths").                   *)

\* 3 segments are project-scoped, 4 are env-scoped; segments are compared
\* case by case.
ProjectScoped(ws, proj) == {path \in Path : Len(path) = 3 /\ path[1] = ws /\ path[2] = proj}
EnvScoped(ws, proj) == {path \in Path : Len(path) = 4 /\ path[1] = ws /\ path[2] = proj}

\* A project's listing has all its rows, an env's the env's own rows and,
\* unless merging is off, the project's.
Documented(s) ==
  IF s.env = NULL THEN ProjectScoped(s.ws, s.proj) \union EnvScoped(s.ws, s.proj)
  ELSE {path \in EnvScoped(s.ws, s.proj) : path[3] = s.env}
       \union (IF s.merge THEN ProjectScoped(s.ws, s.proj) ELSE {})
=============================================================================
