------------------------------ MODULE MCSerial ------------------------------
(***************************************************************************)
(* Both ends of the serial link for TLC: the parser of the bytes from the  *)
(* flight controller, and what the node does with rings and commands.  The *)
(* bridge takes any command at any time, so the two need not run together: *)
(* every behaviour runs one of them.                                       *)
(***************************************************************************)
EXTENDS SerialBridge, SerialParser

VARIABLE part    \* the one that runs

TwoRings == {<<550, -20, 150>>, <<690, -60, 200>>}   \* in the world bounds, one an outlier to the other

AllInit == part \in {"bridge", "parser"} /\ Init /\ ParserInit

AllNext ==
  /\ UNCHANGED part
  /\ \/ part = "bridge" /\ Next /\ UNCHANGED parserVars
     \/ part = "parser" /\ ParserNext /\ UNCHANGED vars

\* The fairness of SerialBridge, whose threads run in its own behaviours.
AllSpec ==
  /\ AllInit /\ [][AllNext]_<<part, vars, parserVars>>
  /\ WF_vars(part = "bridge" /\ Callback)
  /\ WF_vars(part = "bridge" /\ Receiver)
  /\ WF_vars(part = "bridge" /\ Sender)
=============================================================================
