-------------------------------- MODULE MCMap --------------------------------
(***************************************************************************)
(* The map of FAST-LIO for TLC: the window of space it covers, and the     *)
(* tree that holds it.  The tree is told boxes to delete whatever the      *)
(* window does, so every behaviour runs one of them.                       *)
(***************************************************************************)
EXTENDS MapWindow, SearchLock, TreeContents

CONSTANTS
  Nil, NoPtr, MinUnbalanced, MultiThread, Clouds, Added, Sampled, Removed, Cell, MaxOps

VARIABLES
  part,                                                        \* the one that runs
  rebuildPtr, ptrLocked, working, rebuildFlag, logger, fresh,
  todo, atRoot, edge, ops                                      \* TreeRebuild

Data == INSTANCE IkdTree

Tree == INSTANCE TreeRebuild WITH
  Build <- Data!Build, Collected <- Data!Flatten, Flattened <- Data!Flattened, Apply <- Data!Apply,
  Pushed <- Data!Pushed, Gone <- Data!Gone, Downsampled <- Data!Downsampled, At <- Data!At, Put <- Data!Put,
  Reaches <- Data!Reaches, Descended <- Data!Descended, Ascended <- Data!Ascended, Climbed <- Data!Climbed,
  SearchWay <- Data!SearchWay, Sound <- Data!Sound, Firm <- Data!Firm, Open <- Data!Open

ASSUME Data!SizeAssumption /\ Tree!TreeAssumption

-----------------------------------------------------------------------------
(* The laws of TreeLaws, for trees that were built and then changed.       *)

LawClouds     == {<<>>, <<2>>, <<1, 2, 3>>, <<1, 2, 3, 4, 5>>}
LawOperations == {Add(5), Add(1), Down(Box(2, 4)), Delete(Box(1, 3)), Delete(Box(4, 9)), Delete(Box(0, 9))}
Positions     == UNION {[1 .. n -> Side] : n \in 0 .. 2}
Places(t)     == {x \in Positions : Data!Firm(t, x)}

\* After an operation, a copying, or the replacement of a subtree.
Swapped(t) == {Data!Climbed(Data!Put(t, x, Data!Build(Data!Flatten(Data!At(t, x)))), x, FALSE).tree :
                 x \in {y \in Places(t) : ~Tree!Untold(t, y) /\ Data!Flatten(Data!At(t, y)) # <<>>}}
Changed(T) == {Data!Apply(t, op, allow).tree : t \in T, op \in LawOperations, allow \in BOOLEAN}
              \cup {Data!Flattened(t) : t \in T} \cup UNION {Swapped(t) : t \in T}

Built    == {Data!Build(c) : c \in LawClouds}
LawTrees == Built \cup Changed(Built) \cup Changed(Changed({Data!Build(<<1, 2, 3, 4, 5>>)}))

\* Subtrees that may come in the place of one.
Others(s) == {Data!Flattened(s), Data!Build(Data!Flatten(s))}

\* A tree an operation is half way in, at a position.
Opened == UNION {{[tree |-> Data!Descended(t, op, x), op |-> op, at |-> x] :
                    x \in {y \in Places(t) \ {<<>>} : Data!Reaches(t, op, y)}} : t \in LawTrees, op \in LawOperations}

ASSUME LawsOfOneTree ==
  /\ \A c \in LawClouds : Tree!BuildLaw(c)
  /\ \A t \in LawTrees :
       /\ Data!Sound(t) /\ Tree!FlattenLaw(t)
       /\ \A p \in Point : Tree!SampleLaw(t, p)
       /\ \A op \in LawOperations, allow \in BOOLEAN : Tree!ApplyLaw(t, op, allow)
       /\ \A x \in Positions : Tree!TreeLaw(t, x)

ASSUME LawsOfPlaces ==
  \A t \in LawTrees : \A x \in Places(t) :
    /\ \A op \in LawOperations : Tree!PassLaw(t, op, x) /\ Tree!DescendLaw(t, op, x)
    /\ \A op \in LawOperations, s \in Built : Tree!PushLaw(t, op, x, s)
    /\ \A s \in Others(Data!At(t, x)) : Tree!PutLaw(t, x, s) /\ Tree!SwapLaw(t, x, s)

ASSUME LawsOfOpenTrees ==
  \A o \in Opened :
    LET here == Others(Data!At(o.tree, o.at)) IN
    /\ \A s \in here \cup Built : Tree!AscendLaw(Data!Put(o.tree, o.at, s), o.op, o.at)
    /\ \A s, s2 \in here \cup Built : Tree!OpenLaw(o.tree, o.at, s, s2)
    /\ \A s, s2 \in here : Tree!SameLaw(o.tree, o.op, o.at, s, s2)

-----------------------------------------------------------------------------
treeVars == <<root, rebuildPtr, ptrLocked, working, rebuildFlag, logger, counter, tPc, fresh,
              mPc, todo, atRoot, edge, search, ops, points, logged>>

FivePoints == {<<1, 2, 3, 4, 5>>}
Flat(t)    == Data!Flatten(t)
MapBoxes   == {[lo |-> 1, hi |-> 3], [lo |-> 0, hi |-> 9]}

At(x, y)   == [a \in Axes |-> IF a = "x" THEN x ELSE y]
Square     == [Axes -> -8 .. 8]
ThreeMarks == {At(-5, 0), At(1, -5), At(5, 4)}

AllInit == part \in {"window", "tree"} /\ WindowInit /\ Tree!Init

AllNext ==
  /\ UNCHANGED part
  /\ \/ part = "window" /\ WindowNext /\ UNCHANGED treeVars
     \/ part = "tree" /\ Tree!Next /\ UNCHANGED windowVars

\* The fairness of TreeRebuild, whose threads run in its own behaviours.
AllSpec ==
  /\ AllInit /\ [][AllNext]_<<part, windowVars, treeVars>>
  /\ []<>(part # "tree" \/ ~Tree!CanOperate) \/ []<><<Tree!Operating>>_treeVars
  /\ \A s \in Searchers : WF_treeVars(part = "tree" /\ Tree!Searching(s))
  /\ <>[](part # "tree" \/ ~Tree!CanRebuild) \/ []<><<Tree!MultiThreadRebuild>>_treeVars

-----------------------------------------------------------------------------
\* A search by range finds what the whole tree holds in the range, and a search for the
\* nearest finds none farther than the nearest of all: the ranges kept at the nodes, by
\* which they leave out subtrees, are never too narrow, nor do they cover what is marked
\* deleted above.
SearchIsComplete ==
  mPc \in {"idle", "search"} =>
    LET there == Occurs(Data!Flatten(root)) IN
    /\ \A b \in Removed : Occurs(Data!SearchByRange(root, b)) = [p \in Point |-> IF In(b, p) THEN there[p] ELSE 0]
    /\ \A p \in Point :
         LET found    == Data!NearestSearch(root, 2, p)
             times    == Occurs(found)
             farthest == Data!Max({0} \cup {Data!Squared(p - found[n]) : n \in DOMAIN found})
         IN \A x \in Point :
              /\ times[x] <= there[x]
              /\ times[x] < there[x] => Len(found) = 2 /\ farthest <= Data!Squared(p - x)

\* The log is empty when a rebuild starts.
LogStartsEmpty == Tree!LogStartsEmpty

\* A subtree that was pointed at is rebuilt.
RebuildIsDone == Tree!RebuildIsDone
=============================================================================
