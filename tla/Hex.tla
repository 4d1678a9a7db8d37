--------------------------------- MODULE Hex ---------------------------------
(***************************************************************************)
(* Conversions: between 32-byte words and their hex (util.go), which the   *)
(* control interface, the wallet file and the REST client depend on, and   *)
(* between a block's height, a commit's order and the bytes of their keys  *)
(* in the database (db.go), whose order every scan of it depends on.       *)
(* BlockStore takes that order, and what each scan covers, for granted.    *)
(* A character is its ASCII code.  (Init, Next and Spec have names of      *)
(* their own, as BytesProofs extends BtcParse too.)                        *)
(***************************************************************************)
EXTENDS Integers, Sequences, SequencesExt

CONSTANTS
  Size,          \* the bytes of a word (32 in the code)
  Character,     \* the characters a user types
  Width,         \* the bytes of a height in a key (8 in the code)
  OrderWidth,    \* those of a commit's order (4)
  PadWidth,      \* those left zero after it (4)
  VersionWidth,  \* those of the version's key (2)
  HeightsStored, \* heights of blocks
  OrdersStored   \* orders of commits

(* 256 ^ k, for up to Width bytes.                                         *)
Power[k \in 0 .. Width] == IF k = 0 THEN 1 ELSE 256 * Power[k - 1]

ASSUME HexAssumption ==
  /\ Size \in Nat \ {0}
  /\ Character \subseteq 0 .. 127
  /\ Width \in Nat \ {0}
  /\ OrderWidth \in 1 .. Width
  /\ PadWidth \in Nat
  /\ VersionWidth \in 1 .. Width - 1
  /\ HeightsStored \subseteq 0 .. Power[Width] - 1
  /\ OrdersStored \subseteq 0 .. Power[OrderWidth] - 1

VARIABLES
  text,     \* what the user has typed
  asked     \* the height an operation of the database is asked for, if any

hexVars == <<text, asked>>

-------------------------------------------------------------------------------
(* Hex.                                                                    *)

Digit == 48 .. 57
Upper == 65 .. 70
Lower == 97 .. 102

checkHEX(s, length) ==
  /\ Len(s) = 2 * length
  /\ \A i \in DOMAIN s : s[i] \in Digit \cup Upper

(* Fault variant: letters are not told from digits.                        *)
x2b_digit(c) == c % 16

(* (hex & 15) + 9*(hex>>6), in a byte.                                     *)
x2b(c) == ((c % 16) + 9 * (c \div 64)) % 256

(* The operator | of two bytes.                                            *)
Or(x, y) ==
  LET Bit(k) == IF (x \div k) % 2 = 1 \/ (y \div k) % 2 = 1 THEN k ELSE 0
  IN  Bit(1) + Bit(2) + Bit(4) + Bit(8) + Bit(16) + Bit(32) + Bit(64) + Bit(128)

(* Fault variant: an odd character counts as a byte.                       *)
hex2byte_rounds_up(s) ==
  [i \in 1 .. (Len(s) + 1) \div 2 |->
     Or((x2b(s[2 * i - 1]) * 16) % 256,
        IF 2 * i <= Len(s) THEN x2b(s[2 * i]) ELSE 0)]

(* hex2byte: nothing is checked, an odd last character is left out.        *)
hex2byte(s) ==
  [i \in 1 .. Len(s) \div 2 |-> Or((x2b(s[2 * i - 1]) * 16) % 256, x2b(s[2 * i]))]

hex2byte32(s) == hex2byte(SubSeq(s, 1, 2 * Size))

ToUpper(s) == [i \in DOMAIN s |-> IF s[i] \in 97 .. 122 THEN s[i] - 32 ELSE s[i]]

Error == <<>>

(* parse_hex: too short, too long, upper case, checked, converted.         *)
parse_hex(s) ==
  IF Len(s) # 2 * Size THEN Error
  ELSE IF checkHEX(ToUpper(s), Size) THEN hex2byte32(ToUpper(s)) ELSE Error

HexDigit(v) == IF v < 10 THEN 48 + v ELSE 55 + v

(* fmt.Sprintf("%X", ...).                                                 *)
stringify_hex(w) ==
  [i \in 1 .. 2 * Len(w) |->
     HexDigit(IF i % 2 = 1 THEN w[(i + 1) \div 2] \div 16 ELSE w[i \div 2] % 16)]

-------------------------------------------------------------------------------
(* Keys.  As in BlockStore, <<h, 0>> stands for the metadata of height h,  *)
(* <<h, i>> for its commit of order i - 1.                                 *)

Place == {0} \cup {o + 1 : o \in OrdersStored}

Earlier(k, l) == k[1] < l[1] \/ (k[1] = l[1] /\ k[2] < l[2])

(* n without its last k bytes (n >> 8*k).                                  *)
Shifted(n) ==
  LET out[k \in 0 .. Width] == IF k = 0 THEN n ELSE out[k - 1] \div 256 IN out

(* binary.BigEndian.PutUint64 and PutUint32: w bytes.                      *)
PutUint(n, w) == [i \in 1 .. w |-> Shifted(n)[w - i] % 256]

(* binary.BigEndian.Uint64.                                                *)
Uint(b) ==
  LET out[k \in 0 .. Width] == IF k = 0 THEN 0 ELSE 256 * out[k - 1] + b[k]
  IN  out[Width]

(* The version's key, in db_new and db_get_version.                        *)
version_key == [i \in 1 .. VersionWidth |-> 0]

encode_block_metadata(h) == PutUint(h, Width)

(* Fault variant: the order is written before the height.                  *)
encode_tag_swapped(h, o) ==
  PutUint(o, OrderWidth) \o PutUint(h, Width) \o [i \in 1 .. PadWidth |-> 0]

encode_tag(h, o) ==
  PutUint(h, Width) \o PutUint(o, OrderWidth) \o [i \in 1 .. PadWidth |-> 0]

Encoded(k) ==
  IF k[2] = 0 THEN encode_block_metadata(k[1]) ELSE encode_tag(k[1], k[2] - 1)

(* decode_block_metadata takes the height from the first bytes of a key.   *)
decode_height(key) == Uint(SubSeq(key, 1, Width))

(* LevelDB's order of keys: bytewise, a key before those it is the         *)
(* beginning of.                                                           *)
KeyBefore(a, b) ==
  \/ Len(a) < Len(b) /\ \A j \in 1 .. Len(a) : a[j] = b[j]
  \/ \E i \in 1 .. Len(a) :
       /\ i <= Len(b) /\ a[i] < b[i]
       /\ \A j \in 1 .. i - 1 : a[j] = b[j]

LastBelow255(prefix, i) ==
  prefix[i] # 255 /\ \A j \in i + 1 .. Len(prefix) : prefix[j] = 255

Raised(prefix, i) ==
  [j \in 1 .. i |-> IF j = i THEN prefix[i] + 1 ELSE prefix[j]]

(* util.BytesPrefix: the keys from prefix up to the limit, which is the    *)
(* prefix with its last byte that is not 255 one higher and those after    *)
(* it cut off; without a limit if every byte is 255.                       *)
InPrefix(key, prefix) ==
  /\ ~KeyBefore(key, prefix)
  /\ \A i \in 1 .. Len(prefix) :
       LastBelow255(prefix, i) => KeyBefore(key, Raised(prefix, i))

(* The keys db_remove_block lists for height h.                            *)
OfHeight(key, h) == InPrefix(key, PutUint(h, Width))

(* Those from iter.Seek for height h on (db_remove_blocks_after, the reads *)
(* by height).                                                             *)
FromHeight(key, h) == ~KeyBefore(key, PutUint(h, Width))

(* Fault variant: the last height is asked for too.                        *)
last_height_max == Power[Width] - 1

(* db_load asks db_load_blocks for the heights up to this one.             *)
last_height == Power[Width] - 2

(* What db_load_blocks iterates over; end + 1 wraps at the width.          *)
InLoad(key) ==
  /\ ~KeyBefore(key, PutUint(0, Width))
  /\ KeyBefore(key, PutUint((last_height + 1) % Power[Width], Width))

-------------------------------------------------------------------------------
HexInit == text = <<>> /\ asked = {}

Type ==
  /\ asked = {}
  /\ Len(text) <= 2 * Size
  /\ \E c \in Character : text' = Append(text, c)
  /\ UNCHANGED asked

Ask ==
  /\ text = <<>> /\ asked = {}
  /\ \E h \in HeightsStored : asked' = {h}
  /\ UNCHANGED text

HexNext == Type \/ Ask

HexSpec == HexInit /\ [][HexNext]_hexVars

-------------------------------------------------------------------------------
(* Properties.                                                             *)

(* parse_hex accepts exactly the hex of one word, in either case, and what *)
(* it returns prints as what was typed, in upper case: an address a user   *)
(* types is that address or an error (parse_hex, stringify_hex).           *)
ParsesExactly ==
  LET w == parse_hex(text)
  IN  IF Len(text) = 2 * Size /\ Range(text) \subseteq Digit \cup Upper \cup Lower
      THEN Len(w) = Size /\ stringify_hex(w) = ToUpper(text)
      ELSE w = Error

(* A wallet line read with the carriage return another system ended it     *)
(* with gives the same bytes as without: the odd character is dropped      *)
(* (hex2byte, which wallet_load_construct calls on whatever it is given).  *)
OddCharacterDropped ==
  Len(text) % 2 = 1 => hex2byte(text) = hex2byte(Front(text))

(* LevelDB iterates over the database block by block: the version first,   *)
(* then by height, the metadata of each before its commits and those in    *)
(* their order, whatever bytes carry; and any of these keys reads back as  *)
(* its height (encode_tag, encode_block_metadata, decode_block_metadata).  *)
KeysInBlockOrder ==
  \A k \in asked \X Place :
    /\ KeyBefore(version_key, Encoded(k))
    /\ decode_height(Encoded(k)) = k[1]
    /\ \A l \in HeightsStored \X Place :
         Earlier(k, l) => KeyBefore(Encoded(k), Encoded(l))

(* Every scan of the database covers the keys it is meant to and no other, *)
(* never the version's: the removal of a block those of its height, also   *)
(* where its bytes end in 255; a seek those from its height upwards; a     *)
(* load all but those of the highest height there is, for which the limit  *)
(* would wrap (db_remove_block, db_remove_blocks_after, db_load_blocks).   *)
ScansAreExact ==
  \A h \in asked :
    /\ \A l \in HeightsStored \X Place :
         /\ OfHeight(Encoded(l), h) <=> l[1] = h
         /\ FromHeight(Encoded(l), h) <=> l[1] >= h
         /\ InLoad(Encoded(l)) <=> l[1] # Power[Width] - 1
    /\ ~OfHeight(version_key, h)
    /\ ~FromHeight(version_key, h)
    /\ ~InLoad(version_key)

===============================================================================
