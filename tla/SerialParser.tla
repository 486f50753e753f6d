----------------------------- MODULE SerialParser -----------------------------
(***************************************************************************)
(* The receiving loop of ros_to_serial.py: commands of the flight          *)
(* controller are frames <<CMD_HEAD, command, CMD_TAIL>> in a byte stream  *)
(* in which bytes may be lost, changed or made up.  The loop keeps a       *)
(* buffer, drops what comes before a head, and looks at the buffer once    *)
(* per byte.  The line is any sequence of bytes.                           *)
(***************************************************************************)
EXTENDS Integers, Sequences

CONSTANTS
  Byte,          \* the bytes
  CmdHead, CmdTail,    \* CMD_HEAD (0xAA) and CMD_TAIL (0xFF)
  NoByte         \* nothing

ASSUME ByteAssumption == CmdHead \in Byte /\ CmdTail \in Byte /\ CmdHead # CmdTail /\ NoByte \notin Byte

VARIABLES
  buf,           \* buf
  command,       \* the command the last byte completed, or NoByte
  last           \* history: the last three bytes received, oldest first

parserVars == <<buf, command, last>>

ParserInit ==
  /\ buf = <<>>
  /\ command = NoByte
  /\ last = <<NoByte, NoByte, NoByte>>

\* What stays of the buffer after the look at it: a frame is cleared, a buffer
\* that is no frame loses its first byte.
Look(b) ==
  IF Len(b) < 3 THEN b
  ELSE IF b[1] = CmdHead /\ b[3] = CmdTail THEN <<>>
  ELSE <<b[2], b[3]>>

\* The buffer without the bytes before the first head.
FromHead(b) ==
  IF \E i \in 1 .. Len(b) : b[i] = CmdHead
  THEN LET i == CHOOSE i \in 1 .. Len(b) : b[i] = CmdHead /\ \A j \in 1 .. i - 1 : b[j] # CmdHead
       IN SubSeq(b, i, Len(b))
  ELSE <<>>

\* Variant: the tail is taken for granted.
ReceiveAnyTail(x) ==
  LET b == FromHead(Append(buf, x)) IN
  /\ buf' = Look(b)
  /\ command' = IF Len(b) >= 3 /\ b[1] = CmdHead THEN b[2] ELSE NoByte
  /\ last' = <<last[2], last[3], x>>

\* One byte arrives.
Receive(x) ==
  LET b == FromHead(Append(buf, x)) IN
  /\ buf' = Look(b)
  /\ command' = IF Len(b) >= 3 /\ b[1] = CmdHead /\ b[3] = CmdTail THEN b[2] ELSE NoByte
  /\ last' = <<last[2], last[3], x>>

ParserNext == \E x \in Byte : Receive(x)

ParserSpec == ParserInit /\ [][ParserNext]_parserVars

-----------------------------------------------------------------------------
(* Properties.                                                             *)

\* Every variable has its type; between two bytes the buffer never holds a
\* whole frame's length, however long the noise.
ParserTypeOK ==
  /\ buf \in {<<>>} \cup {<<x>> : x \in Byte} \cup {<<x, y>> : x, y \in Byte}
  /\ command \in Byte \cup {NoByte}
  /\ last \in {<<x, y, z>> : x, y, z \in Byte \cup {NoByte}}

\* A command is only acted upon if its three bytes were received in a row: the
\* bytes of two frames are never put together to a third.
NoPhantomCommand ==
  command # NoByte => last = <<CmdHead, command, CmdTail>>

\* Whatever noise came before, a command whose three bytes arrive intact is
\* acted upon at its last byte; only a command byte equal to the tail could be
\* mistaken for the end of a frame the noise began.
NoCommandLost ==
  \A c \in Byte \ {CmdTail} : last = <<CmdHead, c, CmdTail>> => command = c

\* Noise and lost bytes neither make up a command nor hide one: the link acts on
\* exactly the commands whose bytes arrive in a row.
CommandsAreExact == NoPhantomCommand /\ NoCommandLost
=============================================================================
