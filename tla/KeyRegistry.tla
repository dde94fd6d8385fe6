---------------------------- MODULE KeyRegistry ----------------------------
(***************************************************************************)
(* What the server promises about API keys, with no requests, roles, names *)
(* or clocks in sight: a principal holds at most one live key, a new key   *)
(* is one nobody ever held, replacing a key kills the old one in the same  *)
(* step, and a principal that was retired never comes back.                *)
(*                                                                         *)
(* Principals.tla implements this registry (see KeysImplementRegistry).    *)
(***************************************************************************)
EXTENDS Naturals

CONSTANTS
  FirstIssued,    \* keys 1..FirstIssued were issued before the process starts
  FirstHolders    \* what it may find then: [enrolled |-> n, live |-> pairs]

VARIABLES
  enrolled,       \* principals 1..enrolled have been created
  issued,         \* keys 1..issued have been handed out
  live            \* the pairs <<principal, key>> that authenticate

registry == <<enrolled, issued, live>>

Init ==
  /\ issued = FirstIssued
  /\ \E found \in FirstHolders : enrolled = found.enrolled /\ live = found.live

\* A new principal gets a number and a key that were never used.
Enroll ==
  /\ enrolled' = enrolled + 1
  /\ issued' = issued + 1
  /\ live' = live \union {<<enrolled + 1, issued + 1>>}

\* A live principal's key is replaced by a fresh one.
Replace(pair) ==
  /\ issued' = issued + 1
  /\ live' = (live \ {pair}) \union {<<pair[1], issued + 1>>}
  /\ UNCHANGED enrolled

\* A principal stops being one, for good.
Retire(pair) ==
  /\ live' = live \ {pair}
  /\ UNCHANGED <<enrolled, issued>>

Next ==
  \/ Enroll
  \/ \E pair \in live : Replace(pair) \/ Retire(pair)

Spec == Init /\ [][Next]_registry
=============================================================================
