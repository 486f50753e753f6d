------------------------------- MODULE TreeOps -------------------------------
(***************************************************************************)
(* The operations on the ikd-Tree that are logged during a rebuild: "add"  *)
(* a point, "delete" the points of a box, or delete them with "down",      *)
(* because a better point stands for them.  A box includes its lower end   *)
(* only.                                                                   *)
(***************************************************************************)
EXTENDS Integers, Sequences, FiniteSets

CONSTANT Point    \* points

Box(l, h)  == [lo |-> l, hi |-> h]
In(b, p)   == b.lo <= p /\ p < b.hi

Add(p)     == [kind |-> "add", point |-> p]
Delete(b)  == [kind |-> "delete", box |-> b]
Down(b)    == [kind |-> "down", box |-> b]
Operation  == [kind : {"add"}, point : Point] \cup [kind : {"delete", "down"}, box : [lo : Int, hi : Int]]

Side == {"left", "right"}

\* How often each point is among some.
Occurs(s)  == [p \in Point |-> Cardinality({i \in 1 .. Len(s) : s[i] = p})]
=============================================================================
