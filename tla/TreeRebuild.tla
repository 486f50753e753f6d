----------------------------- MODULE TreeRebuild -----------------------------
(***************************************************************************)
(* The two threads of the ikd-Tree.  The mapping thread inserts, deletes   *)
(* and, with the threads of an OpenMP loop, searches; when a large subtree *)
(* is out of balance it points Rebuild_Ptr at it.  The rebuild thread      *)
(* copies the points of that subtree, builds a new one while the old one   *)
(* stays in use, repeats on the new one the operations logged meanwhile    *)
(* and puts it in the old one's place.                                     *)
(*                                                                         *)
(* A step of a thread runs from one lock to the next.  What the mapping    *)
(* thread does outside the locks touches nodes that the rebuild thread     *)
(* reads or writes only where it looks at working_flag, and is one step.   *)
(***************************************************************************)
EXTENDS TreeLaws

CONSTANTS
  Clouds,          \* the points of a first scan
  Added,           \* points added as they are
  Sampled,         \* points added with downsampling
  Removed,         \* boxes deleted
  NoPtr,           \* Rebuild_Ptr is nullptr
  MaxOps           \* bound: insertions and deletions

TreeAssumption ==
  /\ Point \subseteq Nat /\ Added \cup Sampled \subseteq Point
  /\ Removed \subseteq [lo : Int, hi : Int]
  /\ NoPtr \notin Seq(Side)
  /\ Clouds \subseteq Seq(Point) /\ MaxOps \in Nat

VARIABLES
  rebuildPtr,      \* Rebuild_Ptr, as a position
  ptrLocked,       \* rebuild_ptr_mutex_lock is held by the rebuild thread
  working,         \* the rebuild thread holds working_flag_mutex
  rebuildFlag,     \* rebuild_flag
  logger,          \* Rebuild_Logger
  fresh,           \* the rebuild thread: new_root_node
  todo,            \* mapping thread: operations of this call
  atRoot,          \* it saw that the whole tree is being rebuilt
  edge,            \* it waits at, or comes back from, the subtree there
  ops              \* calls made

treeVars   == <<root, rebuildPtr>>
threadVars == <<ptrLocked, working, rebuildFlag, tPc, fresh>>
callVars   == <<mPc, todo, atRoot, edge, ops, points>>
searchVars == <<counter, search>>
vars == <<treeVars, threadVars, logger, callVars, searchVars, logged>>

Init ==
  /\ root = Nil /\ points = Occurs(<<>>)
  /\ rebuildPtr = NoPtr /\ ptrLocked = FALSE
  /\ working = FALSE /\ rebuildFlag = FALSE
  /\ logger = <<>>
  /\ counter = 0
  /\ tPc = "poll" /\ fresh = Nil
  /\ mPc = "idle" /\ todo = <<>> /\ atRoot = FALSE /\ edge = <<>>
  /\ search = [s \in Searchers |-> "off"]
  /\ ops = 0
  /\ logged = TRUE

-----------------------------------------------------------------------------
(* The mapping thread.                                                     *)

callKeeps == <<threadVars, searchVars, logged>>

\* The subtree that wants to be rebuilt is pointed at, unless the rebuild
\* thread holds the lock, if only to look at Rebuild_Ptr.  A tree that has become
\* small is no longer pointed at, whatever the rebuild thread does.
Request(t, requests) ==
  LET larger == {x \in requests : rebuildPtr = NoPtr \/ At(t, x).size > At(t, rebuildPtr).size}
      small  == rebuildPtr = <<>> /\ Small(t)
  IN rebuildPtr' \in IF small THEN {NoPtr}
                     ELSE {rebuildPtr} \cup (IF ptrLocked THEN {} ELSE larger)

\* The operations to do, and whether they are done under the lock.
Settle(operations) ==
  /\ todo' = operations
  /\ atRoot' = (rebuildPtr = <<>>)
  /\ mPc' = IF operations = <<>> THEN "idle" ELSE "op"
  /\ UNCHANGED <<callKeeps, treeVars, logger, edge, points>>

\* Add_Points and Delete_Point_Boxes, with one point or box.
Begin == mPc = "idle" /\ ops < MaxOps /\ root # Nil /\ ops' = ops + 1
Call(operations) == Begin /\ Settle(operations)

AddPoint(p)  == Call(<<Add(p)>>)
DeleteBox(b) == Call(<<Delete(b)>>)

\* With downsampling the cell is searched first, beside the rebuild thread.
AddSample(p) ==
  /\ Begin
  /\ todo' = <<Add(p)>> /\ mPc' = "range"
  /\ UNCHANGED <<callKeeps, treeVars, logger, atRoot, edge, points>>

Ranging == {"range", "rangeIn", "rangeOld", "rangeFreed"}

Route == SearchWay(root, Head(todo).point, rebuildPtr)

\* Search_by_range comes to the subtree and holds search_flag_mutex while it is inside; it
\* does not ask for the counter.
EnterRange ==
  /\ mPc = "range" /\ rebuildPtr # NoPtr /\ Route = "locked"
  /\ mPc' = "rangeIn"
  /\ UNCHANGED <<callKeeps, treeVars, logger, todo, atRoot, edge, ops, points>>

EndRange ==
  /\ mPc \in Ranging
  /\ Settle(Downsampled(root, Head(todo).point))
  /\ UNCHANGED ops

\* The process ends, by a null or a freed pointer.
Crash ==
  /\ tPc' = "crashed" /\ mPc' = "crashed"
  /\ search' = [s \in Searchers |-> "off"]
  /\ UNCHANGED <<treeVars, counter, working, fresh, ptrLocked, rebuildFlag, logger, logged>>
  /\ UNCHANGED <<todo, atRoot, edge, ops, points>>

\* The search is still in a subtree that was replaced and freed meanwhile.
ReadFreed == mPc = "rangeFreed" /\ Crash

\* timer_callback builds the tree when there is none.
BuildFirst ==
  /\ mPc = "idle" /\ root = Nil
  /\ \E c \in Clouds : root' = Build(c) /\ points' = Occurs(c)
  /\ UNCHANGED <<callKeeps, rebuildPtr, logger, mPc, todo, atRoot, edge, ops>>

NextOp ==
  /\ todo' = Tail(todo)
  /\ mPc' = IF Tail(todo) = <<>> THEN "idle" ELSE "op"
  /\ points' = Effect(Head(todo), points)
  /\ UNCHANGED <<atRoot, ops>>

AtEdge == rebuildPtr \notin {NoPtr, <<>>} /\ Reaches(root, Head(todo), rebuildPtr)

\* What an operation pushes to the subtree under rebuild, under the lock and logged.
Pushes(op) == IF rebuildPtr \in {NoPtr, <<>>} THEN <<>> ELSE PushTo(root, op, rebuildPtr)

PushUnderLock ==
  LET pushes == Pushes(Head(todo)) IN
  /\ pushes # <<>> => ~working
  /\ logger' = IF rebuildFlag THEN logger \o pushes ELSE logger

\* The operation does not go into the subtree under rebuild.  Nor is it noticed
\* that Rebuild_Ptr came to point at the root after the call began.
ApplyFree ==
  LET result == Apply(root, Head(todo), TRUE) IN
  /\ mPc = "op" /\ ~atRoot /\ ~AtEdge
  /\ PushUnderLock
  /\ root' = result.tree
  /\ Request(result.tree, result.requests)
  /\ NextOp
  /\ logged' = (logged /\ ~(rebuildPtr = <<>> /\ rebuildFlag))
  /\ UNCHANGED <<threadVars, searchVars, edge>>

Descend ==
  /\ mPc = "op" /\ ~atRoot /\ AtEdge
  /\ PushUnderLock
  /\ root' = Descended(root, Head(todo), rebuildPtr)
  /\ edge' = rebuildPtr
  /\ mPc' = "edge"
  /\ UNCHANGED <<callKeeps, rebuildPtr, todo, atRoot, ops, points>>

\* Variant: what is done under the lock is not logged.
ApplyUnlogged ==
  LET new == Apply(At(root, edge), Head(todo), FALSE).tree IN
  /\ mPc = "edge" /\ ~working
  /\ root' = Put(root, edge, new)
  /\ rebuildPtr' = IF Small(new) THEN NoPtr ELSE rebuildPtr
  /\ mPc' = "up"
  /\ UNCHANGED <<callKeeps, logger, todo, atRoot, edge, ops, points>>

\* Under the lock: the subtree, which may have been replaced during the wait.  If
\* its size was out of date it may turn out small, and is no longer pointed at.
ApplyAtEdge ==
  LET new == Apply(At(root, edge), Head(todo), FALSE).tree IN
  /\ mPc = "edge" /\ ~working
  /\ root' = Put(root, edge, new)
  /\ rebuildPtr' = IF Small(new) THEN NoPtr ELSE rebuildPtr
  /\ logger' = IF rebuildFlag THEN Append(logger, Head(todo)) ELSE logger
  /\ mPc' = "up"
  /\ UNCHANGED <<callKeeps, todo, atRoot, edge, ops, points>>

Ascend ==
  LET result == Ascended(root, Head(todo), edge) IN
  /\ mPc = "up"
  /\ root' = result.tree
  /\ Request(result.tree, result.requests)
  /\ NextOp
  /\ edge' = <<>>
  /\ UNCHANGED <<callKeeps, logger>>

\* One operation after the other, on a tree and on what it should hold.
Applied(operations, t) ==
  LET after[n \in 0 .. Len(operations)] == IF n = 0 THEN t ELSE Apply(after[n - 1], operations[n], FALSE).tree
  IN after[Len(operations)]
Gained(operations, ps) ==
  LET after[n \in 0 .. Len(operations)] == IF n = 0 THEN ps ELSE Effect(operations[n], after[n - 1])
  IN after[Len(operations)]

\* The whole tree is being rebuilt: all operations of the call under one lock.
ApplyAtRoot ==
  /\ mPc = "op" /\ atRoot /\ ~working
  /\ root' = Applied(todo, root)
  /\ points' = Gained(todo, points)
  /\ logger' = IF rebuildFlag THEN logger \o todo ELSE logger
  /\ rebuildPtr' = IF \E n \in 1 .. Len(todo) : Small(Applied(SubSeq(todo, 1, n), root)) THEN NoPtr ELSE rebuildPtr
  /\ mPc' = "idle" /\ todo' = <<>>
  /\ UNCHANGED <<callKeeps, atRoot, edge, ops>>

-----------------------------------------------------------------------------
(* The searches for nearest neighbours.  One that meets no subtree under   *)
(* rebuild takes part in nothing here.                                     *)

searchKeeps == <<treeVars, threadVars, logger, todo, atRoot, edge, ops, points, logged>>

StartSearch ==
  /\ mPc = "idle" /\ rebuildPtr # NoPtr
  /\ search' = [s \in Searchers |-> "look"]
  /\ mPc' = "search"
  /\ UNCHANGED <<searchKeeps, counter>>

\* The search comes to the subtree, or leaves it aside.
Look(s) ==
  /\ search[s] = "look"
  /\ search' \in {[search EXCEPT ![s] = w] : w \in {"off"} \cup (IF rebuildPtr = NoPtr THEN {} ELSE {"wait"})}
  /\ UNCHANGED <<searchKeeps, mPc, counter>>

Enter(s) == Join(s) /\ UNCHANGED <<searchKeeps, mPc>>

Leave(s) == Quit(s) /\ UNCHANGED <<searchKeeps, mPc>>

EndSearch ==
  /\ mPc = "search" /\ \A s \in Searchers : search[s] = "off"
  /\ mPc' = "idle"
  /\ UNCHANGED <<searchKeeps, counter, search>>

-----------------------------------------------------------------------------
(* The rebuild thread.                                                     *)

rebuildKeeps == <<search, todo, atRoot, edge, ops, points>>
MutexIsFree  == mPc # "rangeIn"   \* search_flag_mutex

\* It holds both locks from here on.
StartRebuild ==
  /\ tPc = "poll" /\ rebuildPtr # NoPtr
  /\ ptrLocked' = TRUE /\ working' = TRUE /\ rebuildFlag' = TRUE
  /\ logged' = (logged /\ logger = <<>>)
  /\ tPc' = "lockSearch"
  /\ UNCHANGED <<rebuildKeeps, mPc, treeVars, logger, counter, fresh>>

LockSearch ==
  /\ tPc \in {"lockSearch", "lockAgain"}
  /\ MutexIsFree /\ Exclude
  /\ tPc' = IF tPc = "lockSearch" THEN "flatten" ELSE "replace"
  /\ UNCHANGED <<rebuildKeeps, mPc, treeVars, ptrLocked, working, rebuildFlag, logger, fresh, logged>>

\* The points are copied and the new subtree is built.  Without points there
\* is none, and the lock is not taken again.
FlattenSubtree ==
  LET s == Collected(At(root, rebuildPtr)) IN
  /\ tPc = "flatten" /\ rebuildPtr # NoPtr
  /\ root' = Put(root, rebuildPtr, Flattened(At(root, rebuildPtr)))
  /\ fresh' = Build(s)
  /\ MutexIsFree /\ Readmit
  /\ working' = FALSE
  /\ tPc' = IF s = <<>> THEN "lockAgain" ELSE "repeat"
  /\ UNCHANGED <<rebuildKeeps, mPc, rebuildPtr, ptrLocked, rebuildFlag, logger, logged>>

\* run_operation.
RunOperation(t, op) ==
  IF op.kind = "push" THEN Pushed(op, t) ELSE Apply(t, op, FALSE).tree

Repeat ==
  /\ tPc = "repeat" /\ ~working
  /\ IF logger = <<>>
     THEN working' = TRUE /\ tPc' = "lockAgain" /\ UNCHANGED <<logger, fresh>>
     ELSE /\ fresh' = RunOperation(fresh, Head(logger))
          /\ logger' = Tail(logger)
          /\ UNCHANGED <<working, tPc>>
  /\ UNCHANGED <<rebuildKeeps, mPc, treeVars, ptrLocked, rebuildFlag, counter, logged>>

\* The new subtree replaces the old one, in which a search by range may be left.  The father
\* is updated even if it has not told the subtree of a deletion, which is forgotten then.
Replace ==
  /\ tPc = "replace" /\ fresh # Nil /\ rebuildPtr # NoPtr
  /\ root' = Climbed(Put(root, rebuildPtr, fresh), rebuildPtr, FALSE).tree
  /\ tPc' = "finish"
  /\ rebuildPtr' = NoPtr
  /\ MutexIsFree /\ Readmit
  /\ mPc' = IF mPc = "range" /\ Route = "free" THEN "rangeOld" ELSE mPc
  /\ working' = FALSE
  /\ fresh' = Nil
  /\ logged' = (logged /\ ~Untold(root, rebuildPtr))
  /\ UNCHANGED <<rebuildKeeps, ptrLocked, rebuildFlag, logger>>

\* An empty subtree is read like another, as is Rebuild_Ptr if the mapping thread
\* has reset it: the process ends.
ReadNull ==
  /\ \/ tPc = "replace" /\ fresh = Nil
     \/ tPc \in {"flatten", "replace"} /\ rebuildPtr = NoPtr
  /\ Crash

\* The flag falls after the lock is free again, and the old subtree is freed.
FinishRebuild ==
  /\ tPc = "finish"
  /\ mPc' = IF mPc = "rangeOld" THEN "rangeFreed" ELSE mPc
  /\ rebuildFlag' = FALSE
  /\ ptrLocked' = FALSE
  /\ tPc' = "poll"
  /\ UNCHANGED <<rebuildKeeps, treeVars, working, logger, counter, fresh, logged>>

-----------------------------------------------------------------------------
Mapping ==
  \/ \E p \in Added : AddPoint(p)
  \/ \E p \in Sampled : AddSample(p)
  \/ \E b \in Removed : DeleteBox(b)
  \/ BuildFirst
  \/ StartSearch

Operating ==
  \/ EnterRange \/ EndRange \/ ReadFreed
  \/ ApplyFree \/ Descend \/ ApplyAtEdge \/ Ascend \/ ApplyAtRoot
  \/ EndSearch

Searching(s) == Look(s) \/ Enter(s) \/ Leave(s)

MultiThreadRebuild ==
  StartRebuild \/ LockSearch \/ FlattenSubtree \/ Repeat \/ Replace \/ ReadNull \/ FinishRebuild

Next ==
  \/ Mapping
  \/ Operating
  \/ \E s \in Searchers : Searching(s)
  \/ MultiThreadRebuild

Spec == Init /\ [][Next]_vars

\* When the threads are able to take a step (TLC is spared computing what the
\* step would do to the tree).
CanOperate ==
  \/ mPc \in {"op", "edge"} /\ ~working
  \/ mPc \in Ranging \cup {"up"}
  \/ mPc = "search" /\ \A s \in Searchers : search[s] = "off"

CanRebuild ==
  CASE tPc = "poll"                       -> rebuildPtr # NoPtr
    [] tPc \in {"lockSearch", "lockAgain"} -> counter = 0 /\ MutexIsFree
    [] tPc \in {"flatten", "replace"}      -> MutexIsFree
    [] tPc = "repeat"                     -> ~working
    [] OTHER                              -> tPc # "crashed"

\* Weak fairness of the mapping thread and of the searches, strong fairness of
\* the rebuild thread: the searches of a scan end before the next begin, and it
\* tries again every microsecond, so it meets a moment without a search.
FairSpec ==
  /\ Spec
  /\ []<>(~CanOperate) \/ []<><<Operating>>_vars
  /\ \A s \in Searchers : WF_vars(Searching(s))
  /\ <>[](~CanRebuild) \/ []<><<MultiThreadRebuild>>_vars

-----------------------------------------------------------------------------
(* Properties.                                                             *)

\* When a rebuild starts the log is empty, or else the rebuild thread prints
\* ERROR: nothing is left of the rebuild before, to be repeated on another subtree.
LogStartsEmpty == tPc = "lockSearch" => logger = <<>>

\* A subtree that was pointed at is rebuilt although scans keep searching: the
\* counter of the searches comes to zero and the thread gets hold of it.
RebuildIsDone == (rebuildPtr # NoPtr) ~> (rebuildPtr = NoPtr \/ tPc = "crashed")
=============================================================================
