----------------------------- MODULE TreeContents -----------------------------
(***************************************************************************)
(* What the ikd-Tree is there for, between two calls: to hold the points   *)
(* that it was given and not told to delete.  And what its threads keep to *)
(* meanwhile: no search in a subtree that is being exchanged.              *)
(***************************************************************************)
EXTENDS TreeOps, SearchLock

CONSTANT Collected(_)   \* what flatten yields: the points of a tree that are not deleted

VARIABLES
  root,            \* Root_Node and what hangs from it
  mPc,             \* the place of the mapping thread
  points,          \* history: how often each point should be there
  logged           \* history: nothing has passed by the log, see Replace, StartRebuild, ApplyFree

Contents(t) == Occurs(Collected(t))

\* Between two calls the tree holds exactly the points that were added and not
\* deleted, each as often as it was added: a subtree swapped for one built from
\* older points, the log repeated on that one, deletions that were only marked
\* and pushed down later lose no point and bring none back.
ContentsKept == (mPc \in {"idle", "search"} /\ logged) => Contents(root) = points

\* No search is inside the subtree while it is flattened or replaced, except one by range
\* for Add_Points, which is not counted; that one is out again before the old subtree is
\* freed if it came to it under search_flag_mutex.
SearchesExcluded == CountedExcluded /\ ~(mPc = "rangeIn" /\ tPc = "finish")
===============================================================================
