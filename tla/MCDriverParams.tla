--------------------------- MODULE MCDriverParams ---------------------------
(* A config file for TLC with the smallest and the largest blind spot. *)
EXTENDS DriverParams

Line(ip, spot) == [ip |-> ip, keys |-> [k \in {"pcl_data_type", "blind_spot_set"} |->
                                          IF k = "blind_spot_set" THEN spot ELSE 1]]

BothEnds == [opened |-> TRUE, array |-> TRUE, lines |-> <<Line("a", 50), Line("b", 200)>>]

ListedIps == {"a", "b"}
FileSet == {BothEnds}
=============================================================================
