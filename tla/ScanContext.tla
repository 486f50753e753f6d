---------------------------- MODULE ScanContext ----------------------------
(***************************************************************************)
(* SCManager: the place a scan was taken at is recognised by its scan      *)
(* context, the highest point of each bin of rings and sectors, whatever   *)
(* way the drone was facing.  Candidates are looked up by ring keys, then  *)
(* aligned by sector keys and compared sector by sector.                   *)
(*                                                                         *)
(* A point is its grid coordinates, its ring and its height in whole steps *)
(* above the floor.  The similarity of two sectors counts in whole Units,  *)
(* toward zero, so that it is all of a Unit only for sectors that are      *)
(* alike; angles count in sixteenths of a turn.  Rings, sectors and        *)
(* candidates count from 0, as in the code.                                *)
(***************************************************************************)
EXTENDS Integers, Sequences, FiniteSets, FiniteSetsExt

CONSTANTS
  Rings,           \* PC_NUM_RING
  Sectors,         \* PC_NUM_SECTOR
  SearchRadius,    \* the shifts tried on either side of the aligned one
  Candidates,      \* NUM_CANDIDATES_FROM_TREE
  Scans,           \* scans of the place that is come back to
  Elsewhere        \* scans of another place

VARIABLES
  scan,            \* the scan of the newest keyframe, until its context is made
  contexts,        \* polarcontexts_
  home,            \* the index of the one taken at the same place, a quarter turn off
  found            \* what detectLoopClosureID returned: index and shift

vars == <<scan, contexts, home, found>>

Unit       == 25
Pending    == [id |-> -1, shift |-> -1]
Rows       == 0..Rings - 1
Cols       == 0..Sectors - 1
Squared(a) == a * a

\* The sum of the first n values of a function, from 0 on.
Sum(f, n) ==
  LET sum[k \in 0..n] == IF k = 0 THEN 0 ELSE sum[k - 1] + f[k - 1]
  IN sum[n]

\* The points: off the axes, where the sectors of a cloud and of its turn differ.
IsPoint(p) == p \in [x : Int \ {0}, y : Int \ {0}, ring : Rows, height : Int]

PlaceAssumption ==
  /\ Rings \in Nat \ {0} /\ Sectors \in Nat \ {0} /\ Sectors % 4 = 0
  /\ SearchRadius \in 0..Sectors /\ Candidates \in Nat /\ Candidates >= 2
  /\ {} \notin Scans /\ \A s \in Scans \cup Elsewhere : IsFiniteSet(s) /\ \A p \in s : IsPoint(p)

-----------------------------------------------------------------------------
\* atan of the ratio of two coordinates, in sixteenths of a turn.
Atan(y, x) == IF x = 0 THEN 4 ELSE IF y = 0 THEN 0 ELSE IF y < x THEN 1 ELSE IF y = x THEN 2 ELSE 3

\* xy2theta: the angle of a point, quadrant by quadrant; the one opposite to the first
\* counts on, not back.
OppositeBack(x, y) == 8 - Atan(-y, -x)
Opposite(x, y)     == 8 + Atan(-y, -x)
Theta(x, y) ==
  CASE x >= 0 /\ y >= 0 -> Atan(y, x)
    [] x < 0 /\ y >= 0  -> 8 - Atan(y, -x)
    [] x < 0 /\ y < 0   -> Opposite(x, y)
    [] x >= 0 /\ y < 0  -> 16 - Atan(-y, x)

\* The sector of an angle: its ceiling, and the first for the angle zero.
Sector(p) == Max({(Theta(p.x, p.y) * Sectors + 15) \div 16, 1}) - 1

\* makeScancontext: the highest point of each bin, zero where there is none.
MakeScancontext(s) ==
  [r \in Rows |-> [c \in Cols |->
     LET bin == {p \in s : p.ring = r /\ Sector(p) = c}
     IN IF bin = {} THEN 0 ELSE Max({p.height : p \in bin})]]

\* circshift: the columns moved to the right.
Source(c, k)    == (c + Sectors - k) % Sectors
CircShift(m, k) == [r \in Rows |-> [c \in Cols |-> m[r][Source(c, k)]]]

\* The keys: the means of the rows and of the columns, times their number.
RingKey(m)   == [r \in Rows |-> Sum(m[r], Sectors)]
SectorKey(m) == [c \in Cols |-> Sum([r \in Rows |-> m[r][c]], Rings)]

\* fastAlignUsingVkey: the first of the shifts that bring the sector keys closest.
Off(k1, k2, k) == Sum([c \in Cols |-> Squared(k1[c] - k2[Source(c, k)])], Sectors)
FastAlign(m1, m2) ==
  LET k1    == SectorKey(m1)
      k2    == SectorKey(m2)
      tried == {[shift |-> k, off |-> Off(k1, k2, k)] : k \in Cols}
  IN (CHOOSE a \in tried : \A b \in tried : a.off < b.off \/ (a.off = b.off /\ a.shift <= b.shift)).shift

\* distDirectSC: one less the mean similarity of the sectors both have points in, as a
\* fraction; not a number, a fraction of nothing, if there are none.
Dot(m1, m2, c) == Sum([r \in Rows |-> m1[r][c] * m2[r][c]], Rings)

\* d over the root of p, in whole Units toward zero.
Alike(d, p) ==
  LET size == Max({n \in 0..Unit : n * n * p <= Squared(Unit * d)})
  IN IF d >= 0 THEN size ELSE -size
DistDirect(m1, m2) ==
  LET common(c) == Dot(m1, m1, c) # 0 /\ Dot(m2, m2, c) # 0
      unlike(c) == Unit - Alike(Dot(m1, m2, c), Dot(m1, m1, c) * Dot(m2, m2, c))
  IN [num |-> Sum([c \in Cols |-> IF common(c) THEN unlike(c) ELSE 0], Sectors),
      den |-> Unit * Sum([c \in Cols |-> IF common(c) THEN 1 ELSE 0], Sectors)]

\* The loops over results, the first n of which may be there: the closest, the first of equals,
\* or where they start if none has a common sector.
Start        == [id |-> 0, shift |-> 0, num |-> 1000, den |-> 1]
Closer(a, b) == a.den # 0 /\ a.num * b.den < b.num * a.den
Closest(results, n) ==
  LET best[k \in 0..n] ==
        IF k = 0 THEN Start
        ELSE LET b == best[k - 1]
             IN IF k - 1 \in DOMAIN results /\ Closer(results[k - 1], b) THEN results[k - 1] ELSE b
  IN best[n]

\* distanceBtnScanContext: the closest of the shifts around the aligned one.
Tried(m1, m2) == {(FastAlign(m1, m2) + k + Sectors) % Sectors : k \in -SearchRadius..SearchRadius}
Distance(n, m1, m2) ==
  LET result(d, k) == [id |-> n, shift |-> k, num |-> d.num, den |-> d.den]
  IN Closest([k \in Tried(m1, m2) |-> result(DistDirect(m1, CircShift(m2, k)), k)], Sectors)

-----------------------------------------------------------------------------
\* makeAndSaveScancontextAndKeys.
MakeAndSave ==
  /\ scan # {}
  /\ contexts' = Append(contexts, MakeScancontext(scan))
  /\ scan' = {}
  /\ UNCHANGED <<home, found>>

\* What findNeighbors may leave in the slots: the nearest ring keys, the nearest first, and
\* the first index of all where there are too few.
KeyOff(m1, m2) == Sum([r \in Rows |-> Squared(RingKey(m1)[r] - RingKey(m2)[r])], Rings)
Neighbours(m, older) ==
  LET filled       == 0..Min({Candidates, Cardinality(older)}) - 1
      nearer(n, o) == KeyOff(m, contexts[n]) <= KeyOff(m, contexts[o])
  IN {q \in [0..Candidates - 1 -> older] :
        /\ \A i, j \in filled : i < j => q[i] # q[j] /\ nearer(q[i], q[j])
        /\ \A i \in filled, o \in older \ {q[j] : j \in filled} : nearer(q[i], o)
        /\ \A i \in DOMAIN q \ filled : q[i] = 1}

\* detectLoopClosureID: the closest candidate, if it is closer than SC_DIST_THRES.
DetectLoopClosureID ==
  /\ scan = {} /\ found = Pending
  /\ LET m == contexts[Len(contexts)]
     IN \E q \in Neighbours(m, 1..Len(contexts) - 1) :
          LET best == Closest([i \in DOMAIN q |-> Distance(q[i], m, contexts[q[i]])], Candidates)
          IN found' = [id |-> IF 5 * best.num < best.den THEN best.id ELSE -1, shift |-> best.shift]
  /\ UNCHANGED <<scan, contexts, home>>

QuarterTurn(s) == {[p EXCEPT !.x = -p.y, !.y = p.x] : p \in s}

Init ==
  \E s \in Scans, other \in Elsewhere :
    /\ scan = QuarterTurn(s)
    /\ home \in {1, 2}
    /\ contexts = [n \in 1..2 |-> MakeScancontext(IF n = home THEN s ELSE other)]
    /\ found = Pending

Next == MakeAndSave \/ DetectLoopClosureID

Spec == Init /\ [][Next]_vars

-----------------------------------------------------------------------------
\* A scan taken at a known place after a quarter turn finds that place and the turn, or
\* one that looks the same in some direction: bins, keys, alignment and comparison agree
\* about which way the sectors go.  It may only fail if the sector keys fit several ways,
\* since only the shifts around the first of them are tried.
PlaceIsRecognised ==
  found # Pending =>
    LET m    == contexts[Len(contexts)]
        fits == {k \in Cols : Off(SectorKey(m), SectorKey(contexts[home]), k) = 0}
        same(n, k) == LET d == DistDirect(m, CircShift(contexts[n], k)) IN d.num = 0 /\ d.den # 0
    IN /\ Sectors \div 4 \in fits
       /\ Cardinality(fits) = 1 => found.id # -1 /\ same(found.id, found.shift)
=============================================================================
