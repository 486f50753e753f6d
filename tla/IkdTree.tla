------------------------------- MODULE IkdTree -------------------------------
(***************************************************************************)
(* The k-d tree that holds the map of FAST-LIO (ikd_Tree.cpp): insertion,  *)
(* deletion by box that only marks a subtree and is pushed down when it is *)
(* next visited, search, and the rebuilding of unbalanced subtrees.        *)
(*                                                                         *)
(* A tree is Nil or a node that holds its sons; points lie on one axis, so *)
(* every node divides by it.  A position in a tree is the sequence of      *)
(* sides from the root.  A call returns the tree it leaves and the         *)
(* positions of the subtrees that it wants rebuilt by the other thread.    *)
(***************************************************************************)
EXTENDS TreeOps, Sequences, FiniteSetsExt, Functions

LOCAL INSTANCE TLC

CONSTANTS
  Nil,             \* nullptr
  MinUnbalanced,   \* Minimal_Unbalanced_Tree_Size
  MultiThread,     \* Multi_Thread_Rebuild_Point_Num
  Cell             \* downsample_size

SizeAssumption == {MinUnbalanced, Cell} \subseteq Nat \ {0} /\ MultiThread \in Nat \ {0, 1}

Sons(t) == {t.left, t.right} \ {Nil}

Of(t, field) == IF t = Nil THEN 0 ELSE t[field]

-----------------------------------------------------------------------------
(* Nodes: what they know of their subtree.                                 *)

\* Sizes and flags of the sons are gathered; the range leaves out deleted
\* parts, unless all is deleted.
Update(t) ==
  LET dead   == t.pointDel /\ \A s \in Sons(t) : s.treeDel
      shown  == IF dead THEN Sons(t) ELSE {s \in Sons(t) : ~s.treeDel}
      itself == IF dead \/ ~t.pointDel THEN {t.point} ELSE {}
  IN [t EXCEPT
        !.size     = 1 + Of(t.left, "size") + Of(t.right, "size"),
        !.invalid  = (IF t.pointDel THEN 1 ELSE 0) + Of(t.left, "invalid") + Of(t.right, "invalid"),
        !.downDel  = (IF t.pointDown THEN 1 ELSE 0) + Of(t.left, "downDel") + Of(t.right, "downDel"),
        !.treeDel  = dead,
        !.treeDown = t.pointDown /\ \A s \in Sons(t) : s.treeDown,
        !.lo       = Min(itself \cup {s.lo : s \in shown}),
        !.hi       = Max(itself \cup {s.hi : s \in shown})]

NewNode(p, l, r) ==
  Update([point |-> p, left |-> l, right |-> r, size |-> 1, invalid |-> 0, downDel |-> 0,
          pointDel |-> FALSE, treeDel |-> FALSE, pointDown |-> FALSE, treeDown |-> FALSE,
          pushLeft |-> FALSE, pushRight |-> FALSE, working |-> FALSE, lo |-> p, hi |-> p])

\* What a pending deletion of its father makes of a son.
Pushed(f, s) ==
  LET down == s.treeDown \/ f.treeDown
      del  == f.treeDel \/ down
      dd   == IF f.treeDown THEN s.size ELSE s.downDel
  IN [s EXCEPT
        !.treeDown  = down,
        !.pointDown = @ \/ f.treeDown,
        !.treeDel   = del,
        !.pointDel  = del \/ s.pointDown \/ f.treeDown,
        !.downDel   = dd,
        !.invalid   = IF f.treeDel THEN s.size ELSE dd,
        !.pushLeft  = TRUE,
        !.pushRight = TRUE]

\* A flag towards a missing son stays.
PushDown(t) ==
  [t EXCEPT !.left      = IF t.pushLeft /\ @ # Nil THEN Pushed(t, @) ELSE @,
            !.right     = IF t.pushRight /\ @ # Nil THEN Pushed(t, @) ELSE @,
            !.pushLeft  = @ /\ t.left = Nil,
            !.pushRight = @ /\ t.right = Nil]

-----------------------------------------------------------------------------
(* Whole subtrees.                                                         *)

RECURSIVE Flatten(_), Flattened(_), BuildTree(_)

\* The points that are not deleted, as flatten collects them.
Flatten(t) ==
  IF t = Nil THEN <<>>
  ELSE LET u == PushDown(t)
       IN (IF u.pointDel THEN <<>> ELSE <<u.point>>) \o Flatten(u.left) \o Flatten(u.right)

\* What flatten leaves behind: everything is pushed down.
Flattened(t) ==
  IF t = Nil THEN Nil
  ELSE [PushDown(t) EXCEPT !.left = Flattened(@), !.right = Flattened(@)]

\* The median of sorted points becomes the root.
BuildTree(s) ==
  IF s = <<>> THEN Nil
  ELSE LET mid == (Len(s) + 1) \div 2
       IN NewNode(s[mid], BuildTree(SubSeq(s, 1, mid - 1)), BuildTree(SubSeq(s, mid + 1, Len(s))))

Build(points) == BuildTree(SortSeq(points, <))

\* More than half deleted, or a son with more than 0.6 or less than 0.4 of the rest.
CriterionCheck(t) ==
  LET son == IF t.left = Nil THEN t.right ELSE t.left IN
  /\ t.size > MinUnbalanced
  /\ \/ 2 * t.invalid > t.size
     \/ 10 * son.size > 6 * (t.size - 1)
     \/ 10 * son.size < 4 * (t.size - 1)

\* Rebuild: at once if small, else the other thread is asked to.
Rebuild(t, requests) ==
  IF t.size >= MultiThread
  THEN [tree |-> t, requests |-> requests \cup {<<>>}]
  ELSE [tree |-> Build(Flatten(t)), requests |-> {}]

-----------------------------------------------------------------------------
(* Operations.                                                             *)

Misses(b, t) == b.hi <= t.lo \/ b.lo > t.hi
Covers(b, t) == b.lo <= t.lo /\ b.hi > t.hi

\* A node on the way, before its sons.
Visit(t, op) ==
  LET u == PushDown(t)
      hit == op.kind # "add" /\ In(op.box, u.point) /\ ~u.pointDel
  IN [u EXCEPT !.working   = TRUE,
               !.pointDel  = @ \/ hit,
               !.pointDown = @ \/ (hit /\ op.kind = "down")]

\* The subtree is out of the box, or within it and then only marked.  It
\* stays marked as being worked on.
Stops(t, op) == op.kind # "add" /\ (Misses(op.box, t) \/ Covers(op.box, t))

Stopped(t, op) ==
  LET u    == [PushDown(t) EXCEPT !.working = TRUE]
      down == op.kind = "down"
  IN IF Misses(op.box, t) THEN u
     ELSE [u EXCEPT !.treeDel = TRUE, !.pointDel = TRUE, !.pushLeft = TRUE, !.pushRight = TRUE,
                    !.invalid = u.size, !.treeDown = @ \/ down, !.pointDown = @ \/ down,
                    !.downDel = IF down THEN u.size ELSE @]

Gone(t, op) == op.kind # "add" /\ (t = Nil \/ t.treeDel)

Sides(t, op) ==
  IF op.kind # "add" THEN Side
  ELSE IF op.point < t.point THEN {"left"} ELSE {"right"}

Below(d, requests) == {<<d>> \o r : r \in requests}

\* After the sons: the node is updated and perhaps rebuilt.
Finish(t, allow, requests) ==
  LET u == [Update(t) EXCEPT !.working = FALSE]
  IN IF allow /\ CriterionCheck(u) THEN Rebuild(u, requests)
     ELSE [tree |-> u, requests |-> requests]

RECURSIVE Apply(_, _, _)

\* Add_by_point and Delete_by_range.
Apply(t, op, allow) ==
  IF Gone(t, op) THEN [tree |-> t, requests |-> {}]
  ELSE IF t = Nil THEN [tree |-> NewNode(op.point, Nil, Nil), requests |-> {}]
  ELSE IF Stops(t, op) THEN [tree |-> Stopped(t, op), requests |-> {}]
  ELSE LET u == Visit(t, op)
           son == [d \in Side |-> IF d \in Sides(u, op) THEN Apply(u[d], op, allow)
                                  ELSE [tree |-> u[d], requests |-> {}]]
       IN Finish([u EXCEPT !.left = son["left"].tree, !.right = son["right"].tree], allow,
                 UNION {Below(d, son[d].requests) : d \in Side})

RECURSIVE SearchByRange(_, _)

SearchByRange(t, b) ==
  IF t = Nil THEN <<>>
  ELSE LET u == PushDown(t)
       IN IF Misses(b, u) THEN <<>>
          ELSE IF Covers(b, u) THEN Flatten(u)
          ELSE (IF In(b, u.point) /\ ~u.pointDel THEN <<u.point>> ELSE <<>>)
               \o SearchByRange(u.left, b) \o SearchByRange(u.right, b)

\* What Search keeps in the heap: the nearest to p so far, k at most, nearest first.
Squared(d) == d * d
Offer(q, k, p, x) ==
  LET Nearer(a, b) == Squared(p - a) < Squared(p - b) \/ (Squared(p - a) = Squared(p - b) /\ a < b)
  IN IF Len(q) < k THEN SortSeq(Append(q, x), Nearer)
     ELSE IF Squared(p - x) < Squared(p - q[k]) THEN SortSeq([q EXCEPT ![k] = x], Nearer)
     ELSE q

\* Variant: a node is as near as its point.
PointDist(t, p) == Squared(t.point - p)

\* calc_box_dist: how near the range of a node comes.
BoxDist(t, p) == Squared(Max({t.lo - p, 0, p - t.hi}))

RECURSIVE Search(_, _, _, _)

\* The nearer son first, the other only if it may hold a nearer point than those found.
Search(t, k, p, q) ==
  IF t = Nil \/ t.treeDel THEN q
  ELSE LET u == PushDown(t)
           own == IF u.pointDel THEN q ELSE Offer(q, k, p, u.point)
           Into(s, r) == IF s # Nil /\ (Len(r) < k \/ BoxDist(s, p) < Squared(p - r[k]))
                           THEN Search(s, k, p, r) ELSE r
           leftFirst == u.right = Nil \/ (u.left # Nil /\ BoxDist(u.left, p) <= BoxDist(u.right, p))
       IN IF leftFirst THEN Into(u.right, Into(u.left, own)) ELSE Into(u.left, Into(u.right, own))

NearestSearch(t, k, p) == Search(t, k, p, <<>>)

-----------------------------------------------------------------------------
(* Positions.                                                              *)

RECURSIVE At(_, _), Put(_, _, _)

At(t, x) == IF x = <<>> THEN t ELSE At(t[Head(x)], Tail(x))

Put(t, x, s) == IF x = <<>> THEN s ELSE [t EXCEPT ![Head(x)] = Put(@, Tail(x), s)]

RECURSIVE Reaches(_, _, _), Descended(_, _, _), Ascended(_, _, _)

\* The operation comes to the edge above x.
Reaches(t, op, x) ==
  IF x = <<>> THEN TRUE
  ELSE /\ ~Gone(t, op) /\ t # Nil /\ ~Stops(t, op)
       /\ Head(x) \in Sides(t, op)
       /\ Reaches(PushDown(t)[Head(x)], op, Tail(x))

Descended(t, op, x) ==
  IF x = <<>> THEN t ELSE [Visit(t, op) EXCEPT ![Head(x)] = Descended(@, op, Tail(x))]

\* The way back up, with the sons beside the way.
Ascended(t, op, x) ==
  IF x = <<>> THEN [tree |-> t, requests |-> {}]
  ELSE LET son == [d \in Side |->
                     IF d = Head(x) THEN Ascended(t[d], op, Tail(x))
                     ELSE IF d \in Sides(t, op) THEN Apply(t[d], op, TRUE)
                     ELSE [tree |-> t[d], requests |-> {}]]
       IN Finish([t EXCEPT !.left = son["left"].tree, !.right = son["right"].tree], TRUE,
                 UNION {Below(d, son[d].requests) : d \in Side})

RECURSIVE Climbed(_, _, _)

\* The nodes above the new subtree are updated, up to one that is worked on
\* or that has not been told of a deletion.
Climbed(t, x, pending) ==
  IF x = <<>> THEN [tree |-> t, go |-> TRUE]
  ELSE LET d  == Head(x)
           r  == Climbed(t[d], Tail(x), IF d = "left" THEN t.pushLeft ELSE t.pushRight)
           u  == [t EXCEPT ![d] = r.tree]
           go == r.go /\ ~t.working /\ ~pending
       IN [tree |-> IF go THEN Update(u) ELSE u, go |-> go]

-----------------------------------------------------------------------------
(* Add_Points with downsampling.                                           *)

CellOf(p) == Box((p \div Cell) * Cell, (p \div Cell) * Cell + Cell)

RECURSIVE WayDown(_, _, _)

WayDown(t, b, x) ==
  IF x = <<>> THEN "locked"
  ELSE IF t = Nil \/ Misses(b, t) THEN "aside"
  ELSE IF Covers(b, t) THEN "free"
  ELSE WayDown(t[Head(x)], b, Tail(x))

\* How its search comes to the subtree at x, to which Rebuild_Ptr points: "free" of the
\* mutex if it begins there or copies all points of a node above.
SearchWay(t, p, x) == IF x = <<>> THEN "free" ELSE WayDown(t, CellOf(p), x)

\* The point nearest to the middle of its cell stands for the cell.
Downsampled(t, p) ==
  LET b     == CellOf(p)
      far(q) == IF 2 * q >= b.lo + b.hi THEN 2 * q - b.lo - b.hi ELSE b.lo + b.hi - 2 * q
      near  == SearchByRange(t, b)
      best  == Min({far(q) : q \in {p} \cup Range(near)})
      keep  == IF far(p) = best THEN p ELSE CHOOSE q \in Range(near) : far(q) = best
  IN IF Len(near) > 1 \/ keep = p
     THEN (IF near = <<>> THEN <<>> ELSE <<Down(b)>>) \o <<Add(keep)>>
     ELSE <<>>

-----------------------------------------------------------------------------
(* What the laws of TreeLaws speak of.                                     *)

RECURSIVE Sound(_), Large(_, _), Open(_, _)

IsNode(t) ==
  t \in [point : Point, left : {t.left}, right : {t.right}, size : Nat, invalid : Nat, downDel : Nat,
         pointDel : BOOLEAN, treeDel : BOOLEAN, pointDown : BOOLEAN, treeDown : BOOLEAN,
         pushLeft : BOOLEAN, pushRight : BOOLEAN, working : BOOLEAN, lo : Int, hi : Int]

\* A deletion is pending below a node that is deleted, on both sides, or else it comes too
\* late: to a node made after it.  A size may be out of date, but not that of a leaf.
NodeIsSound(t) ==
  /\ IsNode(t)
  /\ Sons(t) = {} => t.size = 1
  /\ t.pointDown => t.pointDel
  /\ t.treeDown => t.treeDel
  /\ \A s \in (IF t.pushLeft THEN {t.left} ELSE {}) \cup (IF t.pushRight THEN {t.right} ELSE {}) :
       s = Nil \/ IF t.treeDel THEN t.pushLeft /\ t.pushRight ELSE Sons(s) = {} /\ ~s.pointDel

\* What is not deleted lies in the range of the node.
Sound(t) ==
  t # Nil =>
    /\ NodeIsSound(t) /\ Sound(t.left) /\ Sound(t.right)
    /\ \A p \in Range(Flatten(t)) : ~t.treeDel /\ t.lo <= p /\ p <= t.hi

Large(t, x) == t # Nil /\ t.size >= MultiThread /\ (x # <<>> => Large(t[Head(x)], Tail(x)))

\* What is large is not rebuilt at once, and the root stays whatever its size.
Firm(t, x) == t # Nil /\ (x # <<>> => Large(t, x))

\* The nodes on the way are marked and have told their sons.
Open(t, x) ==
  IF x = <<>> THEN Sound(t)
  ELSE /\ t # Nil /\ IsNode(t) /\ t.working /\ (t.pointDown => t.pointDel)
       /\ t.pushLeft => t.left = Nil
       /\ t.pushRight => t.right = Nil
       /\ \A d \in Side : IF d = Head(x) THEN Open(t[d], Tail(x)) ELSE Sound(t[d])
=============================================================================
