-------------------------------- MODULE MCHex --------------------------------
(* Words of two bytes; the first and last character of each range of hex   *)
(* digits, the characters next to them, and the carriage return; heights   *)
(* of two bytes around every carry, and orders of one.                     *)
EXTENDS Hex

MCCharacter == {13, 47, 48, 57, 58, 64, 65, 70, 71, 96, 97, 102, 103}

MCHeights == 0 .. 3 \cup 254 .. 258 \cup 510 .. 513 \cup 65279 .. 65281 \cup 65534 .. 65535

MCOrders == {0, 1, 2, 254, 255}

===============================================================================
