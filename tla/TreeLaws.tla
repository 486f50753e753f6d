------------------------------- MODULE TreeLaws -------------------------------
(***************************************************************************)
(* What the two threads of the ikd-Tree ask of the tree.  The operations   *)
(* are constants here; IkdTree defines them.  A law says what a call does  *)
(* when nothing else happens meanwhile: to the points of a tree, to the    *)
(* subtree at the position that Rebuild_Ptr points at, to a tree that has  *)
(* been visited down to there and not yet been updated on the way back.    *)
(***************************************************************************)
EXTENDS TreeContents, SequencesExt

CONSTANTS
  Nil,             \* nullptr
  MultiThread,     \* Multi_Thread_Rebuild_Point_Num
  Build(_), Flattened(_), Apply(_, _, _), Pushed(_, _), Gone(_, _), Downsampled(_, _),
  At(_, _), Put(_, _, _), Reaches(_, _, _), Descended(_, _, _), Ascended(_, _, _), Climbed(_, _, _),
  SearchWay(_, _, _),
                   \* what the tree does: IkdTree
  Sound(_),        \* no operation is half way in the tree
  Firm(_, _),      \* there is a subtree, and it will not be rebuilt but by the rebuild thread
  Open(_, _)       \* an operation has visited the tree down to there

\* The rebuild thread is not needed.
Small(t) == t = Nil \/ t.size < MultiThread

\* What an operation is to do to the points.
Effect(op, ps) ==
  IF op.kind = "add" THEN [ps EXCEPT ![op.point] = @ + 1]
  ELSE [p \in Point |-> IF In(op.box, p) THEN 0 ELSE ps[p]]

\* A deletion pending at the father of the subtree at x is pushed to it by every
\* operation that visits the father.
PushTo(t, op, x) ==
  LET f    == At(Descended(t, op, Front(x)), Front(x))
      push == /\ Reaches(t, op, Front(x))
              /\ ~Gone(f, op)
              /\ IF Last(x) = "left" THEN f.pushLeft ELSE f.pushRight
  IN IF push THEN <<[kind |-> "push", treeDel |-> f.treeDel, treeDown |-> f.treeDown]>> ELSE <<>>

\* A deletion waits at the father for somebody to push it to the subtree.
Untold(t, x) ==
  /\ x # <<>>
  /\ LET f == At(t, Front(x)) IN IF Last(x) = "left" THEN f.pushLeft ELSE f.pushRight

\* The subtree at x after the push.
Told(t, op, x) ==
  LET pushes == PushTo(t, op, x) IN IF pushes = <<>> THEN At(t, x) ELSE Pushed(pushes[1], At(t, x))

\* An operation that has come to x is done there, and the way back up.
Completed(t, op, x) == Ascended(Put(t, x, Apply(At(t, x), op, FALSE).tree), op, x).tree

-----------------------------------------------------------------------------
(* The laws.  Of a tree that is built, and of what is below a position.    *)

BuildLaw(c) ==
  /\ Sound(Build(c)) /\ Contents(Build(c)) = Occurs(c)
  /\ Build(c) = Nil <=> c = <<>>

TreeLaw(t, x) ==
  /\ At(t, <<>>) = t
  /\ Firm(t, <<>>) <=> t # Nil
  /\ Firm(t, x) => t # Nil /\ At(t, x) # Nil
  /\ Sound(t) /\ Firm(t, x) => Sound(At(t, x))

\* Collecting the points pushes all deletions down, and changes nothing else.
FlattenLaw(t) ==
  Sound(t) =>
    /\ Collected(t) \in Seq(Point)
    /\ Sound(Flattened(t)) /\ Contents(Flattened(t)) = Contents(t)
    /\ t # Nil => Flattened(t) # Nil /\ Flattened(t).size = t.size

(* Of an operation that is done at once.                                   *)

ApplyLaw(t, op, allow) ==
  LET r == Apply(t, op, allow) IN
  Sound(t) =>
    /\ Sound(r.tree) /\ Contents(r.tree) = Effect(op, Contents(t))
    /\ ~allow /\ t # Nil => r.tree # Nil
    /\ \A x \in r.requests : x \in Seq(Side) /\ Firm(r.tree, x)

\* A subtree that is not come to stays, but for what is pushed to it.
PassLaw(t, op, x) ==
  LET r == Apply(t, op, TRUE).tree IN
  Sound(t) /\ Firm(t, x) /\ ~Reaches(t, op, x) => Firm(r, x) /\ At(r, x) = Told(t, op, x)

\* Only deletions of everything are ever pushed to a subtree that large.
PushLaw(t, op, x, s) ==
  Sound(t) /\ Firm(t, x) /\ x # <<>> /\ PushTo(t, op, x) # <<>> /\ Sound(s) /\ s # Nil =>
    LET r == Pushed(PushTo(t, op, x)[1], s) IN Sound(r) /\ r # Nil /\ Contents(r) = Occurs(<<>>)

SampleLaw(t, p) == Sound(t) => Downsampled(t, p) \in Seq(Operation)

(* Of a subtree that is put in the place of one with the same points.      *)

PutLaw(t, x, s) ==
  LET r == Put(t, x, s) IN
  Sound(t) /\ Firm(t, x) /\ Sound(s) /\ s # Nil /\ s.size = At(t, x).size /\ Contents(s) = Contents(At(t, x)) =>
    Sound(r) /\ Contents(r) = Contents(t) /\ At(r, x) = s /\ Firm(r, x)

SwapLaw(t, x, s) ==
  LET r == Climbed(Put(t, x, s), x, FALSE).tree IN
  Sound(t) /\ Firm(t, x) /\ ~Untold(t, x) /\ Sound(s) /\ s # Nil /\ Contents(s) = Contents(At(t, x)) =>
    Sound(r) /\ Contents(r) = Contents(t)

(* Of an operation that waits at a position.                               *)

\* If nothing happens while it waits, it does what it would have done at once.
DescendLaw(t, op, x) ==
  LET r == Descended(t, op, x) IN
  Sound(t) /\ Firm(t, x) /\ x # <<>> /\ Reaches(t, op, x) =>
    /\ Open(r, x) /\ Firm(r, x) /\ At(r, x) = Told(t, op, x)
    /\ Contents(Completed(r, op, x)) = Effect(op, Contents(t))

\* Subtrees may be replaced, and the nodes above are left alone then.
OpenLaw(t, x, s, s2) ==
  LET r == Put(t, x, s) IN
  Open(t, x) /\ Sound(s) =>
    /\ Sound(At(t, x)) /\ Put(t, x, At(t, x)) = t
    /\ Open(r, x) /\ At(r, x) = s
    /\ Sound(s2) => Put(r, x, s2) = Put(t, x, s2)
    /\ Firm(t, x) /\ s # Nil /\ s.size = At(t, x).size => Firm(r, x)
    /\ Firm(t, x) /\ ~Small(s) => Firm(r, x)
    /\ Climbed(t, x, FALSE).tree = t

\* Which tree holds the points of the subtree makes no difference for what is above.
SameLaw(t, op, x, s, s2) ==
  Open(t, x) /\ Sound(s) /\ Sound(s2) /\ Contents(s) = Contents(s2) =>
    Contents(Ascended(Put(t, x, s), op, x).tree) = Contents(Ascended(Put(t, x, s2), op, x).tree)

AscendLaw(t, op, x) ==
  LET r == Ascended(t, op, x) IN
  Open(t, x) =>
    /\ Sound(r.tree)
    /\ Firm(t, x) => Firm(r.tree, x) /\ At(r.tree, x) = At(t, x)
    /\ \A y \in r.requests : y \in Seq(Side) /\ Firm(r.tree, y)

Laws ==
  /\ \A c \in Seq(Point) : BuildLaw(c)
  /\ \A t : FlattenLaw(t) /\ (\A p \in Point : SampleLaw(t, p))
  /\ \A t : \A op \in Operation, allow \in BOOLEAN : ApplyLaw(t, op, allow)
  /\ \A t : \A x \in Seq(Side) : TreeLaw(t, x)
  /\ \A t : \A x \in Seq(Side), op \in Operation : PassLaw(t, op, x) /\ DescendLaw(t, op, x) /\ AscendLaw(t, op, x)
  /\ \A t, s : \A x \in Seq(Side) : PutLaw(t, x, s) /\ SwapLaw(t, x, s)
  /\ \A t, s : \A x \in Seq(Side), op \in Operation : PushLaw(t, op, x, s)
  /\ \A t, s, s2 : \A x \in Seq(Side) : OpenLaw(t, x, s, s2)
  /\ \A t, s, s2 : \A x \in Seq(Side), op \in Operation : SameLaw(t, op, x, s, s2)
=============================================================================
