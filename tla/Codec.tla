------------------------------- MODULE Codec --------------------------------
(***************************************************************************)
(* The conversions between what people and LPAs write and the bytes the    *)
(* server keeps: the hexadecimal transactionId of the ES9+ JSON binding    *)
(* (es9/wire.rs), an ICCID typed on the command line (bin/smdp.rs) or      *)
(* taken out of a StoreMetadataRequest (service.rs), a MatchingID.         *)
(*                                                                         *)
(* A String is the sequence of its characters' code points, a byte string  *)
(* a sequence of 0..255.  A conversion that may fail yields "res", which   *)
(* is "ok" with the bytes, or names the error; "panic" is an index or a    *)
(* slice that does not exist.                                              *)
(***************************************************************************)
EXTENDS Naturals, Sequences, FiniteSets

CONSTANT IccidOctets  \* Iccid is SIZE(10); a bound for TLC

ASSUME CodecAssumption == IccidOctets \in 1..127

Char == Nat
Text == Seq(Char)
Bytes == Seq(0..255)

Ok(bytes) == [res |-> "ok", bytes |-> bytes]
Err(res) == [res |-> res, bytes |-> <<>>]

-----------------------------------------------------------------------------
(* str::len counts bytes of UTF-8: one for each character, and one more    *)
(* for each size its code point outgrows.                                  *)
Width(c) == IF c < 128 THEN 1 ELSE IF c < 2048 THEN 2
            ELSE IF c < 65536 THEN 3 ELSE 4

ByteLen(s) ==
  Len(s) + Cardinality({p \in (1..Len(s)) \X (2..4) : p[2] <= Width(s[p[1]])})

-----------------------------------------------------------------------------
(* Hexadecimal.                                                            *)

IsHex(c) == c \in (48..57) \cup (65..70) \cup (97..102)

(* char::to_digit(16), of a character that is one.                         *)
HexValue(c) == IF c < 65 THEN c - 48 ELSE IF c < 97 THEN c - 55 ELSE c - 87

(* {:X} and {:x} of half a byte.                                           *)
UpperDigit(n) == IF n < 10 THEN n + 48 ELSE n + 55
LowerDigit(n) == IF n < 10 THEN n + 48 ELSE n + 87

(* The half of byte string b that digit i of its two per byte shows.       *)
Half(b, i) ==
  IF i % 2 = 1 THEN b[(i + 1) \div 2] \div 16 ELSE b[i \div 2] % 16

(* A variant the checks must reject: lower case.                           *)
ToHexUpper_Lower(b) == [i \in 1..2 * Len(b) |-> LowerDigit(Half(b, i))]

ToHexUpper(b) == [i \in 1..2 * Len(b) |-> UpperDigit(Half(b, i))]

(* bin/smdp.rs prints ICCIDs in lower case.                                *)
Hex(b) == [i \in 1..2 * Len(b) |-> LowerDigit(Half(b, i))]

(* A variant the checks must reject: the halves swapped.                   *)
Paired_Swapped(s) ==
  [k \in 1..Len(s) \div 2 |-> HexValue(s[2 * k - 1]) + 16 * HexValue(s[2 * k])]

(* The bytes of pairs of digits.                                           *)
Paired(s) ==
  [k \in 1..Len(s) \div 2 |-> 16 * HexValue(s[2 * k - 1]) + HexValue(s[2 * k])]

(* A variant the checks must reject: the length not looked at first.       *)
FromHex_AnyLength(s) ==
  IF \E i \in DOMAIN s : ~IsHex(s[i]) THEN Err("NotHex")
  ELSE IF Len(s) % 2 = 1 THEN Err("panic")
  ELSE Ok(Paired(s))

(* from_hex: the length in bytes must be even, then pairs of characters    *)
(* are read until one is not a digit; a single one left over has no p[1].  *)
FromHex(s) ==
  IF ByteLen(s) % 2 = 1 THEN Err("OddLength")
  ELSE IF \E i \in DOMAIN s : ~IsHex(s[i]) THEN Err("NotHex")
  ELSE IF Len(s) % 2 = 1 THEN Err("panic")
  ELSE Ok(Paired(s))

-----------------------------------------------------------------------------
(* ICCIDs.                                                                 *)

Plus == 43

(* u8::from_str_radix(_, 16) of the two characters from 2k - 1 on: a plus  *)
(* sign may stand before a digit.                                          *)
RadixValue(s, k) ==
  (IF s[2 * k - 1] = Plus THEN 0 ELSE 16 * HexValue(s[2 * k - 1]))
    + HexValue(s[2 * k])

IsOctet(s, k) ==
  /\ 2 * k <= Len(s)
  /\ IsHex(s[2 * k - 1]) \/ s[2 * k - 1] = Plus
  /\ IsHex(s[2 * k])

(* Whether the k-th two bytes end between characters, when all before them *)
(* are single bytes.                                                       *)
CanSlice(s, k) ==
  \/ Width(s[2 * k - 1]) = 2
  \/ Width(s[2 * k - 1]) = 1 /\ Width(s[2 * k]) = 1

(* parse_iccid: octet by octet, up to the first that is none.              *)
ParseIccid(s) ==
  LET bad == {k \in 1..IccidOctets : ~IsOctet(s, k)} IN
  IF ByteLen(s) # 2 * IccidOctets THEN Err("Length")
  ELSE IF bad = {} THEN Ok([k \in 1..IccidOctets |-> RadixValue(s, k)])
  ELSE LET first == CHOOSE k \in bad : \A j \in bad : k <= j
       IN  IF CanSlice(s, first) THEN Err("NotHex") ELSE Err("panic")

(* A variant the checks must reject: the further octets not skipped.       *)
MoreLength_None(first) == 0

(* Of a BER length's first octet, how many more length octets follow.      *)
MoreLength(first) == IF first >= 128 THEN first % 128 ELSE 0

(* iccid_from_metadata: BF 25, a length that is skipped and not compared   *)
(* with anything, then 5A, the size, and that many octets.                 *)
IccidFromMetadata(m) ==
  IF Len(m) < 4 THEN Err("NotStoreMetadata")
  ELSE LET more == MoreLength(m[3])
           tag  == 4 + more
           last == tag + 1 + IccidOctets
       IN  IF /\ m[1] = 191 /\ m[2] = 37
              /\ m[3] >= 128 => more \in 1..4
              /\ last <= Len(m)
              /\ m[tag] = 90 /\ m[tag + 1] = IccidOctets
           THEN Ok(SubSeq(m, tag + 2, last))
           ELSE Err("NotStoreMetadata")

-----------------------------------------------------------------------------
(* "ABCDEFGHJKLMNPQRSTUVWXYZ23456789"                                      *)
Alphabet ==
  [i \in 0..31 |-> IF i < 8 THEN i + 65 ELSE IF i < 13 THEN i + 66
                   ELSE IF i < 24 THEN i + 67 ELSE i + 26]

(* generate_matching_id, from the bytes it draws: a mask of five bits.     *)
MatchingId(raw) == [i \in DOMAIN raw |-> Alphabet[raw[i] % 32]]

=============================================================================
