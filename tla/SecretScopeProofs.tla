------------------------- MODULE SecretScopeProofs --------------------------
(***************************************************************************)
(* The two steps of a filtered listing, LIKE on a prefix and then          *)
(* path_in_scope, together pick what the documentation says, whatever the  *)
(* segments, their case and the query.                                     *)
(***************************************************************************)
EXTENDS SecretScope, SequenceTheorems, TLAPS

\* A path is a sequence of three or four segments.
LEMMA PathIsSeq ==
  ASSUME NEW path \in Path
  PROVE  path \in Seq(Segments) /\ Len(path) \in {3, 4}
<1>1. PICK n \in {3, 4} : path \in [1..n -> Segments]
  BY DEF Path
<1>2. n \in Nat /\ path \in Seq(Segments) /\ DOMAIN path = 1..n
  <2>1. n \in Nat
    OBVIOUS
  <2>2. path \in Seq(Segments)
    BY <1>1, <2>1, SeqDef
  <2>3. QED  BY <1>1, <2>1, <2>2
<1>3. Len(path) \in Nat /\ DOMAIN path = 1..Len(path)
  BY <1>2, LenProperties
<1>4. Len(path) = n
  <2>1. \A k \in Int : 1 <= k /\ k <= n <=> 1 <= k /\ k <= Len(path)
    BY <1>2, <1>3
  <2>2. n \in Int /\ 1 <= n /\ Len(path) \in Int
    BY <1>3
  <2>3. 1 <= n /\ n <= Len(path)
    BY <2>1, <2>2
  <2>4. Len(path) <= n
    BY <2>1, <2>2, <2>3
  <2>5. QED  BY <2>2, <2>3, <2>4
<1>5. QED  BY <1>2, <1>4

\* The prefix of a query matches at least the paths that are in its scope:
\* filtering after LIKE loses nothing.
LEMMA LikeAdmitsScope ==
  ASSUME NEW s \in Scope, NEW path \in Path, PathInScope(path, s)
  PROVE  Like(path, QueryPrefix(s))
<1>1. /\ Len(path) \in {3, 4} /\ path[1] = s.ws /\ path[2] = s.proj
      /\ s.env # NULL /\ ~s.merge => Len(path) = 4 /\ path[3] = s.env
  BY PathIsSeq DEF PathInScope
<1>2. CASE s.env # NULL /\ ~s.merge
  <2>1. QueryPrefix(s) = <<s.ws, s.proj, s.env>>
    BY <1>2 DEF QueryPrefix
  <2>2. Len(QueryPrefix(s)) = 3
    BY <2>1
  <2>3. \A i \in 1..3 : path[i] = QueryPrefix(s)[i]
    BY <1>1, <1>2, <2>1
  <2>4. QED  BY <1>1, <1>2, <2>2, <2>3 DEF Like
<1>3. CASE ~(s.env # NULL /\ ~s.merge)
  <2>1. QueryPrefix(s) = <<s.ws, s.proj>>
    BY <1>3 DEF QueryPrefix
  <2>2. Len(QueryPrefix(s)) = 2
    BY <2>1
  <2>3. \A i \in 1..2 : path[i] = QueryPrefix(s)[i]
    BY <1>1, <2>1
  <2>4. QED  BY <1>1, <2>2, <2>3 DEF Like
<1>4. QED  BY <1>2, <1>3

(***************************************************************************)
(* list and list_with_values show exactly the documented scope of a query: *)
(* the escaped, case-folding LIKE of secrets.rs admits too much, never too *)
(* little, and path_in_scope removes what it admits too much.              *)
(***************************************************************************)
THEOREM FilteredListsAsDocumented ==
  ASSUME NEW s \in Scope, NEW path \in Path
  PROVE  InList(path, s) <=> path \in Documented(s)
<1>1. InList(path, s) <=> PathInScope(path, s)
  BY LikeAdmitsScope DEF InList
<1>2. Len(path) \in {3, 4}
  BY PathIsSeq
<1>3. PathInScope(path, s) <=> path \in Documented(s)
  BY <1>2 DEF PathInScope, Documented, ProjectScoped, EnvScoped
<1>4. QED  BY <1>1, <1>3
=============================================================================
