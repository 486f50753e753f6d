------------------------------ MODULE SearchLock ------------------------------
(***************************************************************************)
(* search_mutex_counter of the ikd-Tree: searches for the nearest step it  *)
(* up and down, the rebuild thread sets it to -1 when it is 0, to keep     *)
(* them out.  It does not say who holds it: a search that waits only looks *)
(* for -1, and 0 is written back whatever the counter was.                 *)
(***************************************************************************)
EXTENDS Integers, FiniteSets

CONSTANT Searchers   \* threads of the OpenMP loop

ASSUME SearchersAssumption == IsFiniteSet(Searchers)

VARIABLES
  counter,           \* search_mutex_counter
  search,            \* per searcher, its place
  tPc                \* the place of the rebuild thread

\* Variant: the search does not wait for the end of the copying.
JoinAnyway(s) ==
  /\ search[s] = "wait"
  /\ counter' = counter + 1
  /\ search' = [search EXCEPT ![s] = "in"]

Join(s) ==
  /\ search[s] = "wait" /\ counter # -1
  /\ counter' = counter + 1
  /\ search' = [search EXCEPT ![s] = "in"]

\* Variant: the search stays counted.
QuitCounted(s) ==
  /\ search[s] = "in"
  /\ search' = [search EXCEPT ![s] = "off"]
  /\ UNCHANGED counter

Quit(s) ==
  /\ search[s] = "in"
  /\ counter' = counter - 1
  /\ search' = [search EXCEPT ![s] = "off"]

Exclude == counter = 0 /\ counter' = -1

Readmit == counter' = 0

Inside == {s \in Searchers : search[s] = "in"}

\* No search that is counted is inside the subtree while its deletions are pushed down or it
\* is replaced, and otherwise the counter, which several threads step, counts those inside.
CountedExcluded ==
  IF tPc \in {"flatten", "replace"} THEN Inside = {}
  ELSE tPc # "crashed" => counter = Cardinality(Inside)
===============================================================================
