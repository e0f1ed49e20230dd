-------------------------------- MODULE WsFrame --------------------------------
(***************************************************************************)
(* The bytes of WebSocket frames as server_ws.hpp writes them (send,       *)
(* send_close) and reads them (read_message, read_message_content).        *)
(*                                                                         *)
(* Widths are scaled: a byte has Byte values where the code has 256, so    *)
(* that a length of one byte ends at Half - 3 (125 in the code), the marks *)
(* of longer ones are Half - 2 and Half - 1 (126 and 127), two bytes end   *)
(* at Byte ^ 2 - 1, and an int has IntBytes bytes, the sign among them.    *)
(* Of the first byte of a frame the opcode is left.                        *)
(***************************************************************************)
EXTENDS Integers, SequencesExt, Bitwise

Byte == 8
IntBytes == 4
Half == Byte \div 2    \* the bit of the second byte that says "masked"
Mark2 == Half - 2
Mark8 == Half - 1

Text == 1
Close == 5
Ping == 6
Pong == Ping + 1

ProtocolError == 2 * Byte - 1    \* the status 1002

\* The n bytes of a length, the first one first.
LengthBytes(length, n) == [i \in 1 .. n |-> (length \div (Byte ^ (n - i))) % Byte]

\* Mutant of Length: a length of the mark itself is written in one byte.
LengthTight(length) ==
  IF length <= Mark2 THEN <<length>>
  ELSE IF length >= Byte ^ 2 THEN <<Mark8>> \o LengthBytes(length, 8)
  ELSE <<Mark2>> \o LengthBytes(length, 2)

\* send(): a length in one byte, or in 2 or 8 after a mark.
Length(length) ==
  IF length < Mark2 THEN <<length>>
  ELSE IF length >= Byte ^ 2 THEN <<Mark8>> \o LengthBytes(length, 8)
  ELSE <<Mark2>> \o LengthBytes(length, 2)

Frame(opcode, content) == <<opcode>> \o Length(Len(content)) \o content

\* send_close(): two bytes of status, and the reason.
CloseFrame(status, reason) == Frame(Close, <<status \div Byte, status % Byte>> \o reason)

\* The values of length_bytes[c] << (8 * k), an int, as a size_t: beyond the
\* sign bit it is extended, and a shift by the int's width or more is undefined,
\* the result being nothing or that of a shift by so much less.
Shifted(byte, k) ==
  IF k < IntBytes - 1 \/ byte = 0 THEN {byte * Byte ^ k}
  ELSE IF k = IntBytes - 1
       THEN {byte * Byte ^ k + (IF byte < Half THEN 0 ELSE Byte ^ 8 - Byte ^ IntBytes)}
  ELSE {0, (byte * (Byte ^ (k - IntBytes))) % (Byte ^ IntBytes)}

\* Mutant of Lengths: the bytes are taken in the other order.
LengthsReversed(bytes) ==
  FoldLeft(LAMBDA sums, c :
             {(s + t) % (Byte ^ 8) : s \in sums, t \in Shifted(bytes[c], c - 1)},
           {0}, [c \in 1 .. Len(bytes) |-> c])

\* What read_message may make of the bytes of a length.
Lengths(bytes) ==
  FoldLeft(LAMBDA sums, c :
             {(s + t) % (Byte ^ 8) : s \in sums, t \in Shifted(bytes[c], Len(bytes) - c)},
           {0}, [c \in 1 .. Len(bytes) |-> c])

\* A mask is taken off as it is put on.
Masked(content, mask) ==
  [i \in DOMAIN content |-> content[i] ^^ mask[((i - 1) % 4) + 1]]
================================================================================
