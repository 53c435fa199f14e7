--------------------------- MODULE BoundaryProof ----------------------------
(***************************************************************************)
(* What Codec's conversions do with every text and byte string, whatever   *)
(* its length, and what Boundary promises because of it.                   *)
(***************************************************************************)
EXTENDS Boundary, FiniteSetTheorems, SequenceTheorems, TLAPS

(* An all-digits text is as many bytes long as characters: nothing is to   *)
(* be added for any of them.                                               *)
LEMMA AsciiIsBytes ==
  ASSUME NEW s \in Text, \A i \in DOMAIN s : s[i] < 128
  PROVE  ByteLen(s) = Len(s)
PROOF
<1>1. \A i \in 1..Len(s), k \in 2..4 : ~(k <= Width(s[i]))
  BY DEF Width, Text, Char
<1>2. {p \in (1..Len(s)) \X (2..4) : p[2] <= Width(s[p[1]])} = {}
  <2>1. SUFFICES ASSUME NEW p \in (1..Len(s)) \X (2..4),
                        p[2] <= Width(s[p[1]])
                 PROVE  FALSE
    OBVIOUS
  <2>2. p[1] \in 1..Len(s) /\ p[2] \in 2..4
    OBVIOUS
  <2> QED
    BY <1>1, <2>1, <2>2
<1>3. Cardinality({}) = 0
  BY FS_EmptySet
<1>4. Len(s) \in Nat
  BY DEF Text
<1>5. ByteLen(s) = Len(s) + Cardinality({})
  BY <1>2, Zenon DEF ByteLen
<1> QED
  BY <1>3, <1>4, <1>5

LEMMA HexIsAscii ==
  ASSUME NEW c \in Char, IsHex(c)
  PROVE  c < 128
PROOF
  BY DEF IsHex, Char

(* from_hex never indexes past its last pair (wire.rs:39): a text of       *)
(* digits only whose characters are odd in number is odd in bytes as well. *)
THEOREM FromHexNeverPanics ==
  ASSUME NEW s \in Text
  PROVE  FromHex(s).res # "panic"
PROOF
<1>1. CASE \E i \in DOMAIN s : ~IsHex(s[i])
  BY <1>1 DEF FromHex, Ok, Err
<1>2. CASE \A i \in DOMAIN s : IsHex(s[i])
  <2>1. \A i \in DOMAIN s : s[i] \in Char
    BY DEF Text
  <2>2. ByteLen(s) = Len(s)
    BY <1>2, <2>1, HexIsAscii, AsciiIsBytes
  <2> QED
    BY <1>2, <2>2 DEF FromHex, Ok, Err
<1> QED
  BY <1>1, <1>2

-----------------------------------------------------------------------------
(* Hexadecimal out and back in.                                            *)

LEMMA UpperDigitReads ==
  ASSUME NEW n \in 0..15
  PROVE  /\ UpperDigit(n) \in Nat
         /\ IsHex(UpperDigit(n))
         /\ IsUpperHex(UpperDigit(n))
         /\ HexValue(UpperDigit(n)) = n
PROOF
<1>1. CASE n < 10
  BY <1>1 DEF UpperDigit, IsHex, IsUpperHex, HexValue
<1>2. CASE ~(n < 10)
  BY <1>2 DEF UpperDigit, IsHex, IsUpperHex, HexValue
<1> QED
  BY <1>1, <1>2

LEMMA LowerDigitReads ==
  ASSUME NEW n \in 0..15
  PROVE  /\ LowerDigit(n) \in Nat
         /\ IsHex(LowerDigit(n))
         /\ HexValue(LowerDigit(n)) = n
PROOF
<1>1. CASE n < 10
  BY <1>1 DEF LowerDigit, IsHex, HexValue
<1>2. CASE ~(n < 10)
  BY <1>2 DEF LowerDigit, IsHex, HexValue
<1> QED
  BY <1>1, <1>2

LEMMA HalvesOf ==
  ASSUME NEW b \in Bytes, NEW k \in 1..Len(b)
  PROVE  /\ Half(b, 2 * k - 1) = b[k] \div 16
         /\ Half(b, 2 * k) = b[k] % 16
         /\ b[k] \div 16 \in 0..15
         /\ b[k] % 16 \in 0..15
         /\ b[k] = 16 * (b[k] \div 16) + (b[k] % 16)
PROOF
<1>1. b[k] \in 0..255 /\ k \in Nat
  <2>1. b \in Seq(0..255) /\ Len(b) \in Nat
    BY DEF Bytes
  <2> QED
    BY <2>1, ElementOfSeq
<1>2. (2 * k - 1) % 2 = 1 /\ ((2 * k - 1) + 1) \div 2 = k
  BY <1>1
<1>3. (2 * k) % 2 # 1 /\ (2 * k) \div 2 = k
  BY <1>1
<1>4. Half(b, 2 * k - 1) = b[k] \div 16 /\ Half(b, 2 * k) = b[k] % 16
  BY <1>2, <1>3, Zenon DEF Half
<1>5. \A x \in 0..255 : /\ x \div 16 \in 0..15
                        /\ x % 16 \in 0..15
                        /\ x = 16 * (x \div 16) + (x % 16)
  BY SMT
<1> QED
  BY <1>1, <1>4, <1>5

LEMMA HalfIsNibble ==
  ASSUME NEW b \in Bytes, NEW i \in 1..2 * Len(b)
  PROVE  Half(b, i) \in 0..15
PROOF
<1>1. Len(b) \in Nat /\ i \in Nat
  BY DEF Bytes
<1>2. PICK k \in 1..Len(b) : i = 2 * k - 1 \/ i = 2 * k
  <2>1. CASE i % 2 = 1
    <3>1. (i + 1) \div 2 \in 1..Len(b) /\ i = 2 * ((i + 1) \div 2) - 1
      BY <1>1, <2>1
    <3> QED
      BY <3>1
  <2>2. CASE i % 2 # 1
    <3>1. i \div 2 \in 1..Len(b) /\ i = 2 * (i \div 2)
      BY <1>1, <2>2
    <3> QED
      BY <3>1
  <2> QED
    BY <2>1, <2>2
<1> QED
  BY <1>2, HalvesOf

LEMMA UpperHexIsText ==
  ASSUME NEW b \in Bytes
  PROVE  /\ ToHexUpper(b) \in Text
         /\ Len(ToHexUpper(b)) = 2 * Len(b)
         /\ \A i \in DOMAIN ToHexUpper(b) :
              IsHex(ToHexUpper(b)[i]) /\ IsUpperHex(ToHexUpper(b)[i])
PROOF
<1>1. Len(b) \in Nat
  BY DEF Bytes
<1>2. \A i \in 1..2 * Len(b) : /\ UpperDigit(Half(b, i)) \in Nat
                               /\ IsHex(UpperDigit(Half(b, i)))
                               /\ IsUpperHex(UpperDigit(Half(b, i)))
  BY HalfIsNibble, UpperDigitReads
<1> QED
  BY <1>1, <1>2 DEF ToHexUpper, Text, Char

(* to_hex_upper's text is read back by from_hex as the very bytes it was   *)
(* made of (wire.rs:26-41), whatever the transactionId's length: the       *)
(* session an answer names is the one it came from.                        *)
THEOREM HexRoundTrip ==
  ASSUME NEW b \in Bytes
  PROVE  FromHex(ToHexUpper(b)) = Ok(b)
PROOF
<1> DEFINE s == ToHexUpper(b)
<1>1. /\ s \in Text
      /\ Len(s) = 2 * Len(b)
      /\ \A i \in DOMAIN s : IsHex(s[i])
  BY UpperHexIsText
<1>2. b \in Seq(0..255) /\ Len(b) \in Nat
  BY DEF Bytes
<1>3. Len(s) % 2 # 1 /\ Len(s) \div 2 = Len(b)
  BY <1>1, <1>2
<1>4. ByteLen(s) = Len(s)
  <2>1. \A i \in DOMAIN s : s[i] \in Char
    BY <1>1 DEF Text
  <2> QED
    BY <1>1, <2>1, HexIsAscii, AsciiIsBytes
<1>5. FromHex(s) = Ok(Paired(s))
  BY <1>1, <1>3, <1>4, Zenon DEF FromHex
<1>6. ASSUME NEW k \in 1..Len(b)
      PROVE  16 * HexValue(s[2 * k - 1]) + HexValue(s[2 * k]) = b[k]
  <2>1. 2 * k - 1 \in 1..2 * Len(b) /\ 2 * k \in 1..2 * Len(b)
    BY <1>2
  <2>2. /\ s[2 * k - 1] = UpperDigit(b[k] \div 16)
        /\ s[2 * k] = UpperDigit(b[k] % 16)
    BY <2>1, HalvesOf, Zenon DEF ToHexUpper
  <2>3. /\ HexValue(s[2 * k - 1]) = b[k] \div 16
        /\ HexValue(s[2 * k]) = b[k] % 16
    BY <2>2, HalvesOf, UpperDigitReads
  <2> QED
    BY <2>3, HalvesOf
<1>7. Paired(s) = [k \in 1..Len(b) |-> b[k]]
  BY <1>3, <1>6, Zenon DEF Paired
<1>8. b = [k \in 1..Len(b) |-> b[k]]
  BY <1>2
<1> HIDE DEF s
<1>9. FromHex(s) = Ok(b)
  BY <1>5, <1>7, <1>8, Zenon
<1> QED
  BY <1>9 DEF s

(* An ICCID printed by hex (bin/smdp.rs:119) is one parse_iccid takes, and *)
(* it is the same one: what `order list` shows can be typed again.         *)
THEOREM IccidRoundTrip ==
  ASSUME NEW b \in [1..IccidOctets -> 0..255]
  PROVE  ParseIccid(Hex(b)) = Ok(b)
PROOF
<1> DEFINE s == Hex(b)
<1>1. IccidOctets \in Nat
  BY CodecAssumption
<1>2. b \in Bytes /\ Len(b) = IccidOctets
  BY <1>1 DEF Bytes
<1>3. \A i \in 1..2 * IccidOctets : /\ LowerDigit(Half(b, i)) \in Nat
                                    /\ IsHex(LowerDigit(Half(b, i)))
  BY <1>2, HalfIsNibble, LowerDigitReads
<1>4. /\ s \in Text
      /\ Len(s) = 2 * IccidOctets
      /\ \A i \in 1..2 * IccidOctets : IsHex(s[i]) /\ s[i] \in Char
  BY <1>1, <1>2, <1>3 DEF Hex, Text, Char
<1>5. ByteLen(s) = 2 * IccidOctets
  BY <1>1, <1>4, HexIsAscii, AsciiIsBytes
<1>6. ASSUME NEW k \in 1..IccidOctets
      PROVE  IsOctet(s, k) /\ RadixValue(s, k) = b[k]
  <2>1. 2 * k - 1 \in 1..2 * IccidOctets /\ 2 * k \in 1..2 * IccidOctets
    BY <1>1
  <2>2. IsOctet(s, k)
    <3>1. 2 * k <= Len(s)
      BY <1>1, <1>4, <2>1
    <3> QED
      BY <1>4, <2>1, <3>1, Zenon DEF IsOctet
  <2>3. /\ s[2 * k - 1] = LowerDigit(b[k] \div 16)
        /\ s[2 * k] = LowerDigit(b[k] % 16)
    BY <1>2, <2>1, HalvesOf, Zenon DEF Hex
  <2>4. /\ HexValue(s[2 * k - 1]) = b[k] \div 16
        /\ HexValue(s[2 * k]) = b[k] % 16
    BY <1>2, <2>3, HalvesOf, LowerDigitReads
  <2>5. s[2 * k - 1] # Plus
    <3>1. IsHex(s[2 * k - 1])
      BY <1>4, <2>1
    <3>2. ~IsHex(Plus)
      BY DEF IsHex, Plus
    <3> QED
      BY <3>1, <3>2, Zenon
  <2>6. RadixValue(s, k) = 16 * (b[k] \div 16) + (b[k] % 16)
    BY <2>4, <2>5, Zenon DEF RadixValue
  <2> QED
    BY <1>2, <2>2, <2>6, HalvesOf
<1>7. {k \in 1..IccidOctets : ~IsOctet(s, k)} = {}
  BY <1>6
<1>8. [k \in 1..IccidOctets |-> RadixValue(s, k)] = [k \in 1..IccidOctets |-> b[k]]
  BY <1>6
<1>9. b = [k \in 1..IccidOctets |-> b[k]]
  OBVIOUS
<1> HIDE DEF s
<1>10. ParseIccid(s) = Ok(b)
  BY <1>5, <1>7, <1>8, <1>9, Zenon DEF ParseIccid
<1> QED
  BY <1>10 DEF s

-----------------------------------------------------------------------------
(* Every request is answered.                                              *)

LEMMA TextsAreText ==
  /\ Texts \subseteq Text
  /\ <<>> \in Text
PROOF
  BY BoundaryAssumption DEF Text

(* A call's answer has a status code other than none.                      *)
LEMMA RespondAnswers ==
  ASSUME NEW call, NEW text \in Text, NEW rc, NEW answer,
         answer.http # 0, Respond(call, text, rc, answer)
  PROVE  AlwaysAnswered'
PROOF
<1>1. io'.read = FromHex(text) /\ io'.answer = answer
  BY DEF Respond, Exchange
<1>2. FromHex(text).res # "panic"
  BY FromHexNeverPanics
<1> QED
  BY <1>1, <1>2 DEF AlwaysAnswered

(* Commands, and no call at all, are none of the four requests.            *)
LEMMA AnswersAreNumbered ==
  /\ Plain(422).http # 0 /\ Plain(204).http # 0
  /\ \A status, subject, reason, echo :
       OkJson(status, subject, reason, echo).http # 0
  /\ \A id : Success(id).http # 0
  /\ \A subject, reason : Failed(subject, reason).http # 0
  /\ \A rc, subject : FromRspError(rc, subject).http # 0
PROOF
  BY DEF Plain, OkJson, Success, Failed, FromRspError

LEMMA ServeAnswers ==
  ASSUME Serve
  PROVE  AlwaysAnswered'
PROOF
<1> USE TextsAreText, AnswersAreNumbered
<1>1. CASE InitiateMalformed
  BY <1>1, RespondAnswers DEF InitiateMalformed
<1>2. CASE InitiateFails
  BY <1>2, RespondAnswers DEF InitiateFails
<1>3. CASE InitiateUnreadable
  BY <1>3, RespondAnswers DEF InitiateUnreadable
<1>4. CASE Initiate
  BY <1>4, RespondAnswers DEF Initiate
<1>5. CASE Notify
  BY <1>5, RespondAnswers DEF Notify
<1>6. ASSUME NEW text \in Texts, NEW call \in {"authenticate", "package"},
             Undecoded(call, text)
      PROVE  AlwaysAnswered'
  BY <1>6, RespondAnswers, FromHexNeverPanics DEF Undecoded
<1>7. ASSUME NEW text \in Texts,
             \/ AuthenticateRefused(text) \/ AuthenticateFails(text)
             \/ Authenticate(text) \/ AuthenticateUnreadable(text)
      PROVE  AlwaysAnswered'
  BY <1>7, RespondAnswers DEF AuthenticateRefused, AuthenticateFails,
                              Authenticate, AuthenticateUnreadable
<1>8. ASSUME NEW text \in Texts,
             PackageRefused(text) \/ PackageFails(text) \/ Package(text)
      PROVE  AlwaysAnswered'
  BY <1>8, RespondAnswers DEF PackageRefused, PackageFails, Package
<1>9. ASSUME NEW text, AddTyped(text)
      PROVE  AlwaysAnswered'
  BY <1>9 DEF AddTyped, Exchange, AlwaysAnswered
<1>10. ASSUME NEW metadata, AddRead(metadata)
       PROVE  AlwaysAnswered'
  BY <1>10 DEF AddRead, Exchange, AlwaysAnswered
<1> QED
  BY <1>1, <1>2, <1>3, <1>4, <1>5, <1>6, <1>7, <1>8, <1>9, <1>10 DEF Serve

(* Whatever an LPA sends as transactionId, however long, with characters   *)
(* of any width: it is answered.                                           *)
THEOREM EveryRequestAnswered == Spec => []AlwaysAnswered
PROOF
<1>1. Init => AlwaysAnswered
  BY DEF Init, Nothing, Exchange, AlwaysAnswered
<1>2. AlwaysAnswered /\ [Next]_vars => AlwaysAnswered'
  <2> SUFFICES ASSUME AlwaysAnswered, [Next]_vars
               PROVE  AlwaysAnswered'
    OBVIOUS
  <2>1. CASE Serve
    BY <2>1, ServeAnswers
  <2>2. CASE Done
    BY <2>2 DEF Done, Nothing, Exchange, AlwaysAnswered
  <2>3. CASE UNCHANGED vars
    BY <2>3 DEF vars, AlwaysAnswered
  <2> QED
    BY <2>1, <2>2, <2>3 DEF Next
<1> QED
  BY <1>1, <1>2, PTL DEF Spec

-----------------------------------------------------------------------------
(* What iccid_from_metadata takes an ICCID from.                           *)

(* The length octets of a metadata file, as iccid_from_metadata and as     *)
(* BER's five forms have them.                                             *)
LEMMA LengthForms ==
  ASSUME NEW m \in Bytes, NEW l \in 1..5, 2 + l <= Len(m)
  PROVE  IsBerLength(SubSeq(m, 3, 2 + l))
           <=> /\ l = 1 + MoreLength(m[3])
               /\ m[3] >= 128 => MoreLength(m[3]) \in 1..4
PROOF
<1>1. m \in Seq(0..255) /\ Len(m) \in Nat
  BY DEF Bytes
<1>2. m[3] \in 0..255
  BY <1>1, ElementOfSeq
<1>3. Len(SubSeq(m, 3, 2 + l)) = l /\ SubSeq(m, 3, 2 + l)[1] = m[3]
  BY <1>1
<1>4. \A x \in 0..255, k \in 1..5 :
        \/ k = 1 /\ x < 128
        \/ k \in 2..5 /\ x = 127 + k
        <=> k = 1 + MoreLength(x) /\ (x >= 128 => MoreLength(x) \in 1..4)
  <2> SUFFICES ASSUME NEW x \in 0..255, NEW k \in 1..5
               PROVE  \/ k = 1 /\ x < 128
                      \/ k \in 2..5 /\ x = 127 + k
                      <=> /\ k = 1 + MoreLength(x)
                          /\ x >= 128 => MoreLength(x) \in 1..4
    OBVIOUS
  <2>1. CASE x < 128
    <3>1. MoreLength(x) = 0
      BY <2>1 DEF MoreLength
    <3> QED
      BY <2>1, <3>1
  <2>2. CASE x >= 128
    <3>1. MoreLength(x) = x - 128
      BY <2>2 DEF MoreLength
    <3> QED
      BY <2>2, <3>1
  <2> QED
    BY <2>1, <2>2
<1>5. IsBerLength(SubSeq(m, 3, 2 + l))
        <=> \/ l = 1 /\ m[3] < 128
            \/ l \in 2..5 /\ m[3] = 127 + l
  BY <1>3, Zenon DEF IsBerLength
<1> QED
  BY <1>2, <1>4, <1>5, Zenon

LEMMA MetadataRead ==
  ASSUME NEW m \in Bytes
  PROVE  IF IccidFromMetadata(m).res = "ok"
         THEN BeginsWithIccid(m, IccidFromMetadata(m).bytes)
         ELSE \A x : ~BeginsWithIccid(m, x)
PROOF
<1> DEFINE more == MoreLength(m[3])
           found == /\ m[1] = 191 /\ m[2] = 37
                    /\ m[3] >= 128 => more \in 1..4
                    /\ 4 + more + 1 + IccidOctets <= Len(m)
                    /\ m[4 + more] = 90 /\ m[4 + more + 1] = IccidOctets
           iccid == SubSeq(m, 4 + more + 2, 4 + more + 1 + IccidOctets)
<1>1. m \in Seq(0..255) /\ Len(m) \in Nat /\ IccidOctets \in 1..127
  BY CodecAssumption DEF Bytes
<1>2. IccidFromMetadata(m) = IF Len(m) < 4 \/ ~found
                             THEN Err("NotStoreMetadata") ELSE Ok(iccid)
  BY Zenon DEF IccidFromMetadata
<1>a. \A l \in 1..5, c \in 1..127, n \in Nat :
        4 + l + c <= n => n >= 4 /\ 3 \in 1..n /\ 2 + l <= n
  BY SMT
<1>b. \A x \in 0..255 : MoreLength(x) \in Nat
  BY SMT DEF MoreLength
<1>c. 3 \in 1..Len(m) => m[3] \in 0..255 /\ more \in Nat
  BY <1>1, <1>b, ElementOfSeq
<1>d. \A l, c \in Nat : /\ 4 + l = 3 + (1 + l)
                        /\ 4 + l + 1 = 4 + (1 + l)
                        /\ 4 + l + 2 = 5 + (1 + l)
                        /\ 4 + l + 1 + c = 4 + (1 + l) + c
                        /\ l \in 0..4 => 1 + l \in 1..5
                        /\ l \in 1..4 => l \in 0..4
  BY SMT
<1> HIDE DEF more
<1>3. ASSUME NEW l \in 1..5, 4 + l + IccidOctets <= Len(m),
             IsBerLength(SubSeq(m, 3, 2 + l)),
             m[1] = 191, m[2] = 37, m[3 + l] = 90, m[4 + l] = IccidOctets
      PROVE  Len(m) >= 4 /\ found
  <2>1. Len(m) >= 4 /\ 3 \in 1..Len(m) /\ 2 + l <= Len(m)
    <3>1. 4 + l + IccidOctets <= Len(m)
      BY <1>3, Zenon
    <3> QED
      BY <1>1, <1>a, <3>1, Zenon
  <2>2. l = 1 + more /\ (m[3] >= 128 => more \in 1..4)
    BY <1>3, <2>1, LengthForms DEF more
  <2>3. more \in Nat /\ IccidOctets \in Nat
    BY <1>1, <1>c, <2>1
  <2>4. 4 + more = 3 + l /\ 4 + more + 1 = 4 + l
        /\ 4 + more + 1 + IccidOctets = 4 + l + IccidOctets
    BY <1>d, <2>2, <2>3
  <2> QED
    BY <1>3, <2>1, <2>2, <2>4, Zenon
<1>4. ASSUME Len(m) >= 4, found
      PROVE  BeginsWithIccid(m, iccid)
  <2>1. 3 \in 1..Len(m)
    BY <1>1, <1>4
  <2>2. m[3] \in 0..255 /\ more \in Nat /\ IccidOctets \in Nat
    BY <1>1, <1>c, <2>1
  <2>3. more \in 0..4
    <3>1. m[3] < 128 => more = 0
      BY <2>2 DEF more, MoreLength
    <3>2. m[3] >= 128 => more \in 1..4
      BY <1>4
    <3>3. m[3] < 128 \/ m[3] >= 128
      BY <2>2
    <3> QED
      BY <3>1, <3>2, <3>3
  <2> DEFINE l == 1 + more
  <2>4. /\ l \in 1..5
        /\ 4 + more = 3 + l /\ 4 + more + 1 = 4 + l /\ 4 + more + 2 = 5 + l
        /\ 4 + more + 1 + IccidOctets = 4 + l + IccidOctets
    BY <1>d, <2>2, <2>3
  <2> HIDE DEF l
  <2>5. 4 + l + IccidOctets <= Len(m)
    BY <1>4, <2>4, Zenon
  <2>6. 2 + l <= Len(m)
    BY <1>1, <1>a, <2>4, <2>5
  <2>7. m[3] >= 128 => more \in 1..4
    BY <1>4, Zenon
  <2>8. IsBerLength(SubSeq(m, 3, 2 + l))
    BY <2>4, <2>6, <2>7, LengthForms, Zenon DEF l, more
  <2>9. /\ m[1] = 191 /\ m[2] = 37
        /\ m[3 + l] = 90 /\ m[4 + l] = IccidOctets
    BY <1>4, <2>4, Zenon
  <2>10. SubSeq(m, 5 + l, 4 + l + IccidOctets) = iccid
    BY <2>4, Zenon
  <2> QED
    BY <2>4, <2>5, <2>8, <2>9, <2>10, Zenon DEF BeginsWithIccid
<1>5. CASE Len(m) < 4 \/ ~found
  <2>1. IccidFromMetadata(m).res # "ok"
    BY <1>2, <1>5 DEF Err
  <2>2. \A x : ~BeginsWithIccid(m, x)
    <3>1. ~(Len(m) >= 4 /\ found)
      BY <1>1, <1>5
    <3> HIDE DEF found
    <3> QED
      BY <1>3, <3>1, Zenon DEF BeginsWithIccid
  <2> QED
    BY <2>1, <2>2
<1>6. CASE Len(m) >= 4 /\ found
  <2>1. ~(Len(m) < 4 \/ ~found)
    BY <1>1, <1>6
  <2> HIDE DEF found, iccid
  <2>2. IccidFromMetadata(m) = Ok(iccid)
    BY <1>2, <2>1, Zenon
  <2>3. IccidFromMetadata(m).res = "ok" /\ IccidFromMetadata(m).bytes = iccid
    BY <2>2 DEF Ok
  <2> QED
    BY <1>4, <1>6, <2>3
<1> QED
  BY <1>1, <1>5, <1>6

(* Whatever a metadata file holds, `order add` takes its ICCID from it if  *)
(* and only if it begins as a StoreMetadataRequest with one.               *)
THEOREM OnlyTheIccidIsRead == Spec => []MetadataIccidRead
PROOF
<1>1. Init => MetadataIccidRead
  BY DEF Init, Nothing, Exchange, MetadataIccidRead
<1>2. ASSUME NEW metadata \in Metadatas, AddRead(metadata)
      PROVE  MetadataIccidRead'
  <2>1. io'.text = metadata /\ io'.read = IccidFromMetadata(metadata)
    BY <1>2 DEF AddRead, Exchange
  <2>2. metadata \in Bytes
    BY BoundaryAssumption
  <2> QED
    BY <2>1, <2>2, MetadataRead, Zenon DEF MetadataIccidRead
<1>3. ASSUME NEW text, AddTyped(text)
      PROVE  MetadataIccidRead'
  BY <1>3 DEF AddTyped, Exchange, MetadataIccidRead
<1>4. ASSUME NEW call \in {"initiate", "authenticate", "package", "notify"},
             NEW text, NEW rc, NEW answer, Respond(call, text, rc, answer)
      PROVE  MetadataIccidRead'
  BY <1>4 DEF Respond, Exchange, MetadataIccidRead
<1>5. Serve => MetadataIccidRead'
  <2> SUFFICES ASSUME Serve
               PROVE  MetadataIccidRead'
    OBVIOUS
  <2>1. CASE InitiateMalformed \/ InitiateFails \/ InitiateUnreadable
             \/ Initiate \/ Notify
    BY <1>4, <2>1 DEF InitiateMalformed, InitiateFails, InitiateUnreadable,
                      Initiate, Notify
  <2>2. ASSUME NEW text \in Texts,
               \/ Undecoded("authenticate", text) \/ Undecoded("package", text)
               \/ AuthenticateRefused(text) \/ AuthenticateFails(text)
               \/ Authenticate(text) \/ AuthenticateUnreadable(text)
        PROVE  MetadataIccidRead'
    BY <1>4, <2>2 DEF Undecoded, AuthenticateRefused, AuthenticateFails,
                      Authenticate, AuthenticateUnreadable
  <2>3. ASSUME NEW text \in Texts,
               PackageRefused(text) \/ PackageFails(text) \/ Package(text)
        PROVE  MetadataIccidRead'
    BY <1>4, <2>3 DEF PackageRefused, PackageFails, Package
  <2> QED
    BY <1>2, <1>3, <2>1, <2>2, <2>3 DEF Serve
<1>6. MetadataIccidRead /\ [Next]_vars => MetadataIccidRead'
  <2>1. Done => MetadataIccidRead'
    BY DEF Done, Nothing, Exchange, MetadataIccidRead
  <2>2. MetadataIccidRead /\ UNCHANGED vars => MetadataIccidRead'
    BY DEF vars, MetadataIccidRead
  <2> QED
    BY <1>5, <2>1, <2>2 DEF Next
<1> QED
  BY <1>1, <1>6, PTL DEF Spec

-----------------------------------------------------------------------------
(* What is read is bytes.                                                  *)

LEMMA HexValues ==
  ASSUME NEW c \in Char, IsHex(c)
  PROVE  /\ HexValue(c) \in 0..15
         /\ UpperDigit(HexValue(c)) = IF c \in 97..122 THEN c - 32 ELSE c
PROOF
<1>1. CASE c \in 48..57
  BY <1>1 DEF HexValue, UpperDigit
<1>2. CASE c \in 65..70
  BY <1>2 DEF HexValue, UpperDigit
<1>3. CASE c \in 97..102
  BY <1>3 DEF HexValue, UpperDigit
<1> QED
  BY <1>1, <1>2, <1>3 DEF IsHex

(* What a text from_hex takes is like, and the bytes it is taken for.      *)
LEMMA HexTaken ==
  ASSUME NEW s \in Text, FromHex(s).res = "ok"
  PROVE  /\ FromHex(s).bytes = Paired(s)
         /\ \A i \in 1..Len(s) : s[i] \in Char /\ IsHex(s[i])
         /\ Len(s) \in Nat /\ Len(s) % 2 = 0
         /\ Paired(s) \in Bytes /\ 2 * Len(Paired(s)) = Len(s)
         /\ \A k \in 1..Len(Paired(s)) :
              /\ Paired(s)[k] \div 16 = HexValue(s[2 * k - 1])
              /\ Paired(s)[k] % 16 = HexValue(s[2 * k])
PROOF
<1>1. /\ ~(\E i \in DOMAIN s : ~IsHex(s[i]))
      /\ Len(s) % 2 # 1
      /\ FromHex(s) = Ok(Paired(s))
  BY Zenon DEF FromHex, Ok, Err
<1>2. s \in Seq(Nat) /\ Len(s) \in Nat /\ DOMAIN s = 1..Len(s)
  BY DEF Text, Char
<1>3. \A i \in 1..Len(s) : s[i] \in Char /\ IsHex(s[i])
  BY <1>1, <1>2, ElementOfSeq DEF Char
<1>a. \A l \in Nat : l % 2 # 1 =>
        l % 2 = 0 /\ l \div 2 \in Nat /\ 2 * (l \div 2) = l
  BY SMT
<1>4. Len(s) % 2 = 0 /\ Len(s) \div 2 \in Nat /\ 2 * (Len(s) \div 2) = Len(s)
  BY <1>1, <1>2, <1>a, Zenon
<1> DEFINE n == Len(s) \div 2
<1>5. ASSUME NEW k \in 1..n
      PROVE  /\ HexValue(s[2 * k - 1]) \in 0..15
             /\ HexValue(s[2 * k]) \in 0..15
  <2>1. 2 * k - 1 \in 1..Len(s) /\ 2 * k \in 1..Len(s)
    BY <1>2, <1>4
  <2> QED
    BY <1>3, <2>1, HexValues
<1>6. \A x, y \in 0..15 : /\ 16 * x + y \in 0..255
                          /\ (16 * x + y) \div 16 = x
                          /\ (16 * x + y) % 16 = y
  BY SMT
<1> HIDE DEF n
<1>7. Paired(s) = [k \in 1..n |-> 16 * HexValue(s[2 * k - 1]) + HexValue(s[2 * k])]
  BY Zenon DEF Paired, n
<1>8. n \in Nat /\ 2 * n = Len(s)
  BY <1>4 DEF n
<1>b. ASSUME NEW k \in 1..n
      PROVE  LET pair == 16 * HexValue(s[2 * k - 1]) + HexValue(s[2 * k])
             IN  /\ pair \in 0..255
                 /\ pair \div 16 = HexValue(s[2 * k - 1])
                 /\ pair % 16 = HexValue(s[2 * k])
  BY <1>5, <1>6, Zenon
<1>9. Paired(s) \in [1..n -> 0..255]
  BY <1>7, <1>b, Zenon
<1>10. Paired(s) \in Bytes /\ Len(Paired(s)) = n
  BY <1>8, <1>9 DEF Bytes
<1>11. \A k \in 1..n : /\ Paired(s)[k] \div 16 = HexValue(s[2 * k - 1])
                       /\ Paired(s)[k] % 16 = HexValue(s[2 * k])
  BY <1>7, <1>b, Zenon
<1>12. FromHex(s).bytes = Paired(s)
  BY <1>1 DEF Ok
<1> QED
  BY <1>2, <1>3, <1>4, <1>8, <1>10, <1>11, <1>12

(* A transactionId an LPA sends, and what to_hex_upper writes of it, are   *)
(* the same text up to letter case.                                        *)
THEOREM HexUpToCase ==
  ASSUME NEW s \in Text, NEW b, FromHex(s) = Ok(b)
  PROVE  b \in Bytes /\ ToHexUpper(b) = Upper(s)
PROOF
<1>1. FromHex(s).res = "ok" /\ FromHex(s).bytes = b
  BY DEF Ok
<1>2. /\ b = Paired(s) /\ b \in Bytes /\ 2 * Len(b) = Len(s) /\ Len(b) \in Nat
      /\ \A i \in 1..Len(s) : s[i] \in Char /\ IsHex(s[i])
      /\ \A k \in 1..Len(b) : /\ b[k] \div 16 = HexValue(s[2 * k - 1])
                              /\ b[k] % 16 = HexValue(s[2 * k])
  BY <1>1, HexTaken DEF Bytes
<1>a. \A l \in Nat : \A i \in 1..2 * l :
        \/ /\ i % 2 = 1
           /\ (i + 1) \div 2 \in 1..l /\ 2 * ((i + 1) \div 2) - 1 = i
        \/ /\ i % 2 = 0 /\ i % 2 # 1
           /\ i \div 2 \in 1..l /\ 2 * (i \div 2) = i
  BY SMT
<1>3. ASSUME NEW i \in 1..Len(s)
      PROVE  Half(b, i) = HexValue(s[i])
  <2>1. \/ /\ i % 2 = 1
           /\ (i + 1) \div 2 \in 1..Len(b) /\ 2 * ((i + 1) \div 2) - 1 = i
        \/ /\ i % 2 = 0 /\ i % 2 # 1
           /\ i \div 2 \in 1..Len(b) /\ 2 * (i \div 2) = i
    BY <1>2, <1>a, Zenon
  <2>2. CASE i % 2 = 1
    <3>1. /\ (i + 1) \div 2 \in 1..Len(b)
          /\ 2 * ((i + 1) \div 2) - 1 = i
      BY <2>1, <2>2
    <3>2. b[(i + 1) \div 2] \div 16 = HexValue(s[2 * ((i + 1) \div 2) - 1])
      BY <1>2, <3>1, Zenon
    <3> QED
      BY <2>2, <3>1, <3>2, Zenon DEF Half
  <2>3. CASE i % 2 = 0
    <3>1. i \div 2 \in 1..Len(b) /\ 2 * (i \div 2) = i /\ i % 2 # 1
      BY <2>1, <2>3
    <3>2. b[i \div 2] % 16 = HexValue(s[2 * (i \div 2)])
      BY <1>2, <3>1, Zenon
    <3> QED
      BY <3>1, <3>2, Zenon DEF Half
  <2> QED
    BY <2>1, <2>2, <2>3
<1>4. \A i \in 1..Len(s) :
        UpperDigit(Half(b, i)) = IF s[i] \in 97..122 THEN s[i] - 32 ELSE s[i]
  BY <1>2, <1>3, HexValues
<1>5. DOMAIN s = 1..Len(s) /\ 1..2 * Len(b) = 1..Len(s)
  BY <1>2 DEF Text
<1>6. ToHexUpper(b) = [i \in 1..Len(s) |-> UpperDigit(Half(b, i))]
  BY <1>5, Zenon DEF ToHexUpper
<1>7. Upper(s) = [i \in 1..Len(s) |->
                   IF s[i] \in 97..122 THEN s[i] - 32 ELSE s[i]]
  BY <1>5, Zenon DEF Upper
<1> QED
  BY <1>2, <1>4, <1>6, <1>7

LEMMA IccidReadIsBytes ==
  ASSUME NEW s \in Text
  PROVE  ParseIccid(s).res \in Results /\ ParseIccid(s).bytes \in Bytes
PROOF
<1> DEFINE bad == {k \in 1..IccidOctets : ~IsOctet(s, k)}
<1>1. <<>> \in Bytes
  BY DEF Bytes
<1>2. CASE bad = {}
  <2>1. \A k \in 1..IccidOctets : RadixValue(s, k) \in 0..255
    <3> SUFFICES ASSUME NEW k \in 1..IccidOctets
                 PROVE  RadixValue(s, k) \in 0..255
      OBVIOUS
    <3>1. IsOctet(s, k)
      BY <1>2
    <3>2. 2 * k - 1 \in 1..Len(s) /\ 2 * k \in 1..Len(s)
      BY <3>1, CodecAssumption DEF IsOctet, Text
    <3>3. s[2 * k - 1] \in Char /\ s[2 * k] \in Char
      BY <3>2, ElementOfSeq DEF Text
    <3>4. HexValue(s[2 * k]) \in 0..15
      BY <3>1, <3>3, HexValues DEF IsOctet
    <3>5. s[2 * k - 1] # Plus => HexValue(s[2 * k - 1]) \in 0..15
      BY <3>1, <3>3, HexValues DEF IsOctet
    <3>6. \A x, y \in 0..15 : 0 + y \in 0..255 /\ 16 * x + y \in 0..255
      BY SMT
    <3>7. CASE s[2 * k - 1] = Plus
      BY <3>4, <3>6, <3>7 DEF RadixValue
    <3>8. CASE s[2 * k - 1] # Plus
      BY <3>4, <3>5, <3>6, <3>8 DEF RadixValue
    <3> QED
      BY <3>7, <3>8
  <2> DEFINE read == [k \in 1..IccidOctets |-> RadixValue(s, k)]
  <2>2. read \in Bytes
    BY <2>1, CodecAssumption DEF Bytes
  <2> HIDE DEF read
  <2>3. ParseIccid(s) = Err("Length") \/ ParseIccid(s) = Ok(read)
    BY <1>2, Zenon DEF ParseIccid, read
  <2> QED
    BY <1>1, <2>2, <2>3 DEF Ok, Err, Results
<1>3. CASE bad # {}
  <2> HIDE DEF bad
  <2>1. \/ ParseIccid(s) = Err("Length")
        \/ ParseIccid(s) = Err("NotHex")
        \/ ParseIccid(s) = Err("panic")
    BY <1>3, Zenon DEF ParseIccid, bad
  <2> QED
    BY <1>1, <2>1 DEF Err, Results
<1> QED
  BY <1>2, <1>3

LEMMA HexReadIsBytes ==
  ASSUME NEW s \in Text
  PROVE  FromHex(s).res \in Results /\ FromHex(s).bytes \in Bytes
PROOF
<1>1. <<>> \in Bytes
  BY DEF Bytes
<1>2. \/ FromHex(s) = Err("OddLength") \/ FromHex(s) = Err("NotHex")
      \/ FromHex(s) = Err("panic") \/ FromHex(s) = Ok(Paired(s))
  BY Zenon DEF FromHex
<1>3. CASE FromHex(s) = Ok(Paired(s))
  <2>1. FromHex(s).res = "ok"
    BY <1>3 DEF Ok
  <2> QED
    BY <2>1, HexTaken DEF Results
<1> QED
  BY <1>1, <1>2, <1>3 DEF Err, Results

LEMMA MetadataReadIsBytes ==
  ASSUME NEW m \in Bytes
  PROVE  /\ IccidFromMetadata(m).res \in Results
         /\ IccidFromMetadata(m).bytes \in Bytes
PROOF
<1>1. <<>> \in Bytes /\ m \in Seq(0..255) /\ Len(m) \in Nat
  BY DEF Bytes
<1>2. \/ IccidFromMetadata(m) = Err("NotStoreMetadata")
      \/ \E x : IccidFromMetadata(m) = Ok(x)
  BY Zenon DEF IccidFromMetadata
<1>3. CASE IccidFromMetadata(m) = Err("NotStoreMetadata")
  BY <1>1, <1>3 DEF Err, Results
<1>4. ASSUME NEW x, IccidFromMetadata(m) = Ok(x)
      PROVE  x \in Bytes
  <2>1. BeginsWithIccid(m, x)
    BY <1>4, MetadataRead DEF Ok
  <2>2. PICK l \in 1..5 : /\ 4 + l + IccidOctets <= Len(m)
                          /\ SubSeq(m, 5 + l, 4 + l + IccidOctets) = x
    BY <2>1, Zenon DEF BeginsWithIccid
  <2> DEFINE first == 5 + l
             last == 4 + l + IccidOctets
  <2>3. /\ first \in Int /\ last \in Int
        /\ \A i \in first..last : i \in 1..Len(m)
    BY <1>1, <2>2, CodecAssumption
  <2>4. \A i \in first..last : m[i] \in 0..255
    BY <1>1, <2>3, ElementOfSeq
  <2>5. SubSeq(m, first, last) \in Seq(0..255)
    <3> HIDE DEF first, last
    <3> QED
      BY <2>3, <2>4, SubSeqProperties
  <2> QED
    BY <2>2, <2>5 DEF Bytes
<1> QED
  BY <1>2, <1>3, <1>4 DEF Ok, Results

-----------------------------------------------------------------------------
(* What is kept is well typed.                                             *)

LEMMA Responded ==
  ASSUME NEW call, NEW text, NEW rc, NEW answer, Respond(call, text, rc, answer)
  PROVE  /\ io'.call = call /\ io'.text = text /\ io'.read = FromHex(text)
         /\ io'.rc = rc /\ io'.answer = answer
PROOF
  BY DEF Respond, Exchange

(* What each answer is made of.                                            *)
LEMMA AnswerParts ==
  /\ \A http : /\ Plain(http).http = http /\ Plain(http).status = "none"
               /\ Plain(http).subject = "none" /\ Plain(http).reason = "none"
               /\ Plain(http).echo = <<>>
  /\ \A id : /\ Success(id).http = 200
             /\ Success(id).status = "Executed-Success"
             /\ Success(id).subject = "none" /\ Success(id).reason = "none"
             /\ Success(id).echo = ToHexUpper(id)
  /\ \A subject, reason : /\ Failed(subject, reason).http = 200
                          /\ Failed(subject, reason).status = "Failed"
                          /\ Failed(subject, reason).subject = subject
                          /\ Failed(subject, reason).reason = reason
                          /\ Failed(subject, reason).echo = <<>>
  /\ \A rc, subject :
       /\ FromRspError(rc, subject).http = 200
       /\ FromRspError(rc, subject).status = "Failed"
       /\ FromRspError(rc, subject).subject = subject
       /\ FromRspError(rc, subject).echo = <<>>
       /\ FromRspError(rc, subject).reason =
            IF rc = "-1" THEN REFUSED ELSE EXECUTION
PROOF
  BY DEF Plain, OkJson, Success, Failed, FromRspError, FromCode

WellFormed(answer) ==
  /\ answer.http \in {0, 200, 204, 422}
  /\ answer.subject \in Subjects
  /\ answer.reason \in Reasons
  /\ answer.echo = <<>> \/ \E id \in Tids : answer.echo = ToHexUpper(id)

LEMMA ExchangeTyped ==
  ASSUME TypeOK, NEW call, NEW text \in Text, NEW rc \in LibraryCodes,
         NEW answer, Respond(call, text, rc, answer), WellFormed(answer),
         entries' \in [Tids -> {"none", "open", "bound"}]
  PROVE  TypeOK'
PROOF
<1>1. /\ answer.echo \in Text /\ answer.http \in {0, 200, 204, 422}
      /\ answer.subject \in Subjects /\ answer.reason \in Reasons
  BY TextsAreText, UpperHexIsText, BoundaryAssumption DEF WellFormed
<1>2. FromHex(text).res \in Results /\ FromHex(text).bytes \in Bytes
  BY HexReadIsBytes
<1> QED
  BY <1>1, <1>2, Responded DEF TypeOK

LEMMA ServeTyped ==
  ASSUME TypeOK, Serve
  PROVE  TypeOK'
PROOF
<1>t. <<>> \in Text /\ Texts \subseteq Text
  BY TextsAreText, BoundaryAssumption
<1>e. entries \in [Tids -> {"none", "open", "bound"}]
  BY DEF TypeOK
<1>a. /\ \A http \in {0, 204, 422} : WellFormed(Plain(http))
      /\ \A id \in Tids : WellFormed(Success(id))
      /\ \A subject \in Subjects, reason \in Reasons :
           WellFormed(Failed(subject, reason))
      /\ \A rc : \A subject \in Subjects : WellFormed(FromRspError(rc, subject))
  BY AnswerParts DEF WellFormed, Subjects, Reasons
<1>s. /\ SMDP_ADDRESS \in Subjects /\ TRANSACTION_ID \in Subjects
      /\ PROFILE \in Subjects /\ EXECUTION \in Subjects
      /\ REFUSED \in Reasons /\ UNKNOWN \in Reasons /\ EXECUTION \in Reasons
  BY DEF Subjects, Reasons
<1>b. ASSUME NEW call, NEW text \in Text, NEW rc \in LibraryCodes,
             entries' \in [Tids -> {"none", "open", "bound"}],
             \/ \E http \in {0, 204, 422} : Respond(call, text, rc, Plain(http))
             \/ \E id \in Tids : Respond(call, text, rc, Success(id))
             \/ \E subject \in Subjects, reason \in Reasons :
                  Respond(call, text, rc, Failed(subject, reason))
             \/ \E code : \E subject \in Subjects :
                  Respond(call, text, rc, FromRspError(code, subject))
      PROVE  TypeOK'
  <2>1. PICK answer : Respond(call, text, rc, answer) /\ WellFormed(answer)
    BY <1>a, <1>b
  <2> QED
    BY <1>b, <2>1, ExchangeTyped
<1>1. CASE InitiateMalformed \/ InitiateFails \/ InitiateUnreadable \/ Notify
  <2>1. UNCHANGED entries
    BY <1>1 DEF InitiateMalformed, InitiateFails, InitiateUnreadable, Notify
  <2>2. PICK call \in {"initiate", "notify"}, rc \in LibraryCodes :
          \/ \E http \in {204, 422} : Respond(call, <<>>, rc, Plain(http))
          \/ Respond(call, <<>>, rc, Failed(EXECUTION, EXECUTION))
          \/ Respond(call, <<>>, rc, FromRspError(rc, SMDP_ADDRESS))
          \/ Respond(call, <<>>, rc, FromRspError(rc, EXECUTION))
    BY <1>1 DEF InitiateMalformed, InitiateFails, InitiateUnreadable, Notify,
                LibraryCodes
  <2>3. \/ \E http \in {0, 204, 422} : Respond(call, <<>>, rc, Plain(http))
        \/ \E subject \in Subjects, reason \in Reasons :
             Respond(call, <<>>, rc, Failed(subject, reason))
        \/ \E code : \E subject \in Subjects :
             Respond(call, <<>>, rc, FromRspError(code, subject))
    BY <1>s, <2>2
  <2> QED
    BY <1>b, <1>e, <1>t, <2>1, <2>3
<1>2. CASE Initiate
  <2>1. PICK id \in Tids, old \in SUBSET Tids :
          /\ entries' = [i \in Tids |-> IF i = id THEN "open"
                                        ELSE IF i \in old THEN "none"
                                        ELSE entries[i]]
          /\ Respond("initiate", <<>>, "0", Success(id))
    BY <1>2 DEF Initiate
  <2>2. entries' \in [Tids -> {"none", "open", "bound"}]
    BY <1>e, <2>1
  <2> QED
    BY <1>b, <1>t, <2>1, <2>2 DEF LibraryCodes
<1>3. ASSUME NEW text \in Texts,
             \/ Undecoded("authenticate", text) \/ Undecoded("package", text)
             \/ AuthenticateRefused(text) \/ AuthenticateFails(text)
             \/ PackageRefused(text) \/ PackageFails(text)
      PROVE  TypeOK'
  <2>1. text \in Text /\ UNCHANGED entries
    BY <1>3, <1>t DEF Undecoded, AuthenticateRefused, AuthenticateFails,
                PackageRefused, PackageFails
  <2>2. PICK call \in {"authenticate", "package"}, rc \in LibraryCodes :
          \/ \E http \in {0, 422} : Respond(call, text, rc, Plain(http))
          \/ \E subject \in Subjects, reason \in Reasons :
               Respond(call, text, rc, Failed(subject, reason))
          \/ \E code : \E subject \in Subjects :
               Respond(call, text, rc, FromRspError(code, subject))
    BY <1>3, <1>s DEF Undecoded, AuthenticateRefused, AuthenticateFails,
                      PackageRefused, PackageFails, LibraryCodes
  <2> QED
    BY <1>b, <1>e, <2>1, <2>2
<1>4. ASSUME NEW text \in Texts,
             Authenticate(text) \/ AuthenticateUnreadable(text) \/ Package(text)
      PROVE  TypeOK'
  <2>1. PICK id \in Tids, rc \in LibraryCodes :
          /\ \E state \in {"none", "bound"} :
               entries' = [entries EXCEPT ![id] = state]
          /\ \E call : \/ Respond(call, text, rc, Success(id))
                       \/ Respond(call, text, rc, FromRspError(rc, EXECUTION))
    BY <1>4 DEF Authenticate, AuthenticateUnreadable, Package, LibraryCodes
  <2>2. entries' \in [Tids -> {"none", "open", "bound"}]
    BY <1>e, <2>1
  <2>3. PICK call : \/ Respond(call, text, rc, Success(id))
                    \/ Respond(call, text, rc, FromRspError(rc, EXECUTION))
    BY <2>1
  <2>4. \/ \E i \in Tids : Respond(call, text, rc, Success(i))
        \/ \E code : \E subject \in Subjects :
             Respond(call, text, rc, FromRspError(code, subject))
    BY <1>s, <2>3
  <2> QED
    BY <1>b, <1>t, <2>2, <2>4
<1>5. ASSUME NEW text \in Texts, AddTyped(text)
      PROVE  TypeOK'
  <2>1. /\ io'.text = text /\ io'.read = ParseIccid(text)
        /\ io'.rc = "unasked" /\ io'.answer = Plain(0)
    BY <1>5 DEF AddTyped, Exchange
  <2> QED
    BY <1>5, <1>e, <1>t, <2>1, AnswerParts, IccidReadIsBytes
       DEF AddTyped, TypeOK, LibraryCodes, Subjects, Reasons
<1>6. ASSUME NEW metadata \in Metadatas, AddRead(metadata)
      PROVE  TypeOK'
  <2>1. /\ io'.text = metadata /\ io'.read = IccidFromMetadata(metadata)
        /\ io'.rc = "unasked" /\ io'.answer = Plain(0)
    BY <1>6 DEF AddRead, Exchange
  <2>2. metadata \in Bytes /\ metadata \in Text
    <3>1. metadata \in Seq(0..255)
      BY BoundaryAssumption DEF Bytes
    <3>2. 0..255 \subseteq Nat
      OBVIOUS
    <3>3. metadata \in Seq(Nat)
      BY <3>1, <3>2, SeqMonotonic
    <3> QED
      BY <3>1, <3>3 DEF Bytes, Text, Char
  <2> QED
    BY <1>6, <1>e, <1>t, <2>1, <2>2, AnswerParts, MetadataReadIsBytes
       DEF AddRead, TypeOK, LibraryCodes, Subjects, Reasons
<1> QED
  BY <1>1, <1>2, <1>3, <1>4, <1>5, <1>6 DEF Serve

LEMMA NothingTyped ==
  /\ Nothing.text \in Text /\ Nothing.read.res \in Results
  /\ Nothing.read.bytes \in Bytes /\ Nothing.rc \in LibraryCodes
  /\ Nothing.answer.http \in {0, 200, 204, 422}
  /\ Nothing.answer.subject \in Subjects /\ Nothing.answer.reason \in Reasons
  /\ Nothing.answer.echo \in Text
  /\ Nothing.call = "none" /\ Nothing.answer = Plain(0)
PROOF
<1>1. /\ Nothing.text = <<>> /\ Nothing.read = Ok(<<>>) /\ Nothing.rc = "unasked"
      /\ Nothing.answer = Plain(0) /\ Nothing.call = "none"
  BY DEF Nothing, Exchange
<1>2. Ok(<<>>).res = "ok" /\ Ok(<<>>).bytes = <<>> /\ <<>> \in Bytes
  BY DEF Ok, Bytes
<1> QED
  BY <1>1, <1>2, TextsAreText, AnswerParts
     DEF Results, LibraryCodes, Subjects, Reasons

LEMMA StepTyped == TypeOK /\ [Next]_vars => TypeOK'
PROOF
<1> SUFFICES ASSUME TypeOK, [Next]_vars
             PROVE  TypeOK'
  OBVIOUS
<1>1. CASE Done
  BY <1>1, NothingTyped DEF Done, TypeOK
<1>2. CASE UNCHANGED vars
  BY <1>2 DEF vars, TypeOK
<1> QED
  BY <1>1, <1>2, ServeTyped DEF Next

(* However a text is read, what comes of it is bytes or one of the errors  *)
(* there are, and the session map keeps its three kinds of entry.          *)
THEOREM BoundaryTypeCorrect == Spec => []TypeOK
PROOF
<1>1. Init => TypeOK
  BY NothingTyped DEF Init, TypeOK
<1> QED
  BY <1>1, StepTyped, PTL DEF Spec

-----------------------------------------------------------------------------
(* What an answer says of the session.                                     *)

(* Nonces::transaction_id draws 16 bytes; that it is not more, nor none,   *)
(* is all that matters.                                                    *)
TransactionIdSized == \A id \in Tids : Len(id) \in 1..16

(* An identifier written out has two to 32 upper-case digits and, read     *)
(* back, is the identifier.                                                *)
LEMMA EchoIsWellFormed ==
  ASSUME TransactionIdSized, NEW id \in Tids
  PROVE  /\ Len(ToHexUpper(id)) \in 2..32
         /\ \A i \in DOMAIN ToHexUpper(id) : IsUpperHex(ToHexUpper(id)[i])
         /\ FromHex(ToHexUpper(id)) = Ok(id)
PROOF
<1>1. id \in Bytes /\ Len(id) \in 1..16
  BY BoundaryAssumption DEF TransactionIdSized
<1>2. \A n \in 1..16 : 2 * n \in 2..32
  OBVIOUS
<1>3. Len(ToHexUpper(id)) \in 2..32
  BY <1>1, <1>2, UpperHexIsText
<1> QED
  BY <1>1, <1>3, UpperHexIsText, HexRoundTrip

(* What a call that succeeds has done to the session map.                  *)
Changed(call) == CASE call = "initiate" -> "open"
                   [] call = "authenticate" -> "bound"
                   [] call = "package" -> "none"

LEMMA SuccessNames ==
  ASSUME TypeOK, Serve, io'.answer.status = "Executed-Success"
  PROVE  \E id \in Tids :
           /\ io'.answer.echo = ToHexUpper(id)
           /\ entries'[id] = Changed(io'.call)
           /\ entries' \in [Tids -> {"none", "open", "bound"}]
           /\ io'.call # "initiate" =>
                io'.text \in Text /\ Reaches(io'.text, id)
PROOF
<1>e. entries \in [Tids -> {"none", "open", "bound"}]
      /\ entries' \in [Tids -> {"none", "open", "bound"}]
  BY ServeTyped DEF TypeOK
<1>c. /\ Changed("initiate") = "open" /\ Changed("authenticate") = "bound"
      /\ Changed("package") = "none"
  BY DEF Changed
<1>1. CASE Initiate
  <2>1. PICK id \in Tids : entries'[id] = "open"
                           /\ Respond("initiate", <<>>, "0", Success(id))
    BY <1>1, <1>e DEF Initiate
  <2> QED
    BY <1>c, <1>e, <2>1, Responded, AnswerParts
<1>2. ASSUME NEW text \in Texts, Authenticate(text)
      PROVE  \E id \in Tids :
               /\ entries'[id] = Changed(io'.call) /\ Reaches(io'.text, id)
               /\ io'.text \in Text /\ io'.answer.echo = ToHexUpper(id)
  <2>1. PICK id \in Tids : /\ Reaches(text, id) /\ entries'[id] = "bound"
                           /\ Respond("authenticate", text, "0", Success(id))
    BY <1>2, <1>e DEF Authenticate
  <2> QED
    BY <1>c, <2>1, Responded, AnswerParts, TextsAreText
<1>3. ASSUME NEW text \in Texts, Package(text)
      PROVE  \E id \in Tids :
               /\ entries'[id] = Changed(io'.call) /\ Reaches(io'.text, id)
               /\ io'.text \in Text /\ io'.answer.echo = ToHexUpper(id)
  <2>1. PICK id \in Tids : /\ Reaches(text, id) /\ entries'[id] = "none"
                           /\ Respond("package", text, "0", Success(id))
    BY <1>3, <1>e DEF Package
  <2> QED
    BY <1>c, <2>1, Responded, AnswerParts, TextsAreText
<1>4. ASSUME \/ InitiateMalformed \/ InitiateFails \/ InitiateUnreadable \/ Notify
             \/ \E text \in Texts :
                  \/ Undecoded("authenticate", text) \/ Undecoded("package", text)
                  \/ AuthenticateRefused(text) \/ AuthenticateFails(text)
                  \/ AuthenticateUnreadable(text)
                  \/ PackageRefused(text) \/ PackageFails(text)
                  \/ AddTyped(text)
             \/ \E metadata \in Metadatas : AddRead(metadata)
      PROVE  FALSE
  <2>1. \/ \E http : io'.answer = Plain(http)
        \/ \E subject, reason : io'.answer = Failed(subject, reason)
        \/ \E rc, subject : io'.answer = FromRspError(rc, subject)
    BY <1>4, Responded
       DEF InitiateMalformed, InitiateFails, InitiateUnreadable, Notify,
           Undecoded, AuthenticateRefused, AuthenticateFails,
           AuthenticateUnreadable, PackageRefused, PackageFails, AddTyped,
           AddRead, Exchange
  <2> QED
    BY <2>1, AnswerParts
<1> QED
  BY <1>1, <1>2, <1>3, <1>4, <1>e DEF Serve

(* Every answer of success names the session it has changed: by an         *)
(* identifier as section 6.5.2.6 wants it, the one asked about up to       *)
(* letter case, which sent again reaches that session.                     *)
THEOREM EchoesNameSessions ==
  ASSUME TransactionIdSized
  PROVE  Spec => EchoNamesSession
PROOF
<1> DEFINE Names ==
      io'.answer.status = "Executed-Success" =>
        LET echo == io'.answer.echo IN
        /\ Len(echo) \in 2..32
        /\ \A i \in DOMAIN echo : IsUpperHex(echo[i])
        /\ io'.call # "initiate" => echo = Upper(io'.text)
        /\ \E id \in Tids :
             /\ FromHex(echo) = Ok(id)
             /\ entries' = [entries' EXCEPT
                              ![id] = CASE io'.call = "initiate" -> "open"
                                        [] io'.call = "authenticate" -> "bound"
                                        [] io'.call = "package" -> "none"]
             /\ io'.call # "initiate" => entries[id] # "none"
<1>1. ASSUME TypeOK, Serve
      PROVE  Names
  <2> SUFFICES ASSUME io'.answer.status = "Executed-Success"
               PROVE  Names
    OBVIOUS
  <2>1. PICK id \in Tids :
           /\ io'.answer.echo = ToHexUpper(id)
           /\ entries'[id] = Changed(io'.call)
           /\ entries' \in [Tids -> {"none", "open", "bound"}]
           /\ io'.call # "initiate" =>
                io'.text \in Text /\ Reaches(io'.text, id)
    BY <1>1, SuccessNames
  <2>2. /\ Len(ToHexUpper(id)) \in 2..32
        /\ \A i \in DOMAIN ToHexUpper(id) : IsUpperHex(ToHexUpper(id)[i])
        /\ FromHex(ToHexUpper(id)) = Ok(id)
    BY EchoIsWellFormed
  <2>3. io'.call # "initiate" =>
          ToHexUpper(id) = Upper(io'.text) /\ entries[id] # "none"
    BY <2>1, HexUpToCase DEF Reaches
  <2>4. entries' = [entries' EXCEPT ![id] = Changed(io'.call)]
    BY <2>1
  <2> QED
    BY <2>1, <2>2, <2>3, <2>4, Zenon DEF Changed
<1>2. Done => Names
  BY NothingTyped, AnswerParts DEF Done
<1>3. TypeOK /\ [Next]_vars => [Names]_vars
  BY <1>1, <1>2 DEF Next
<1> QED
  BY <1>3, BoundaryTypeCorrect, PTL DEF Spec, EchoNamesSession

-----------------------------------------------------------------------------
(* What an answer says about why.                                          *)

(* A text that names no session is, in any letter case, no session's       *)
(* identifier.                                                             *)
LEMMA NoSessionIsNone ==
  ASSUME NEW text \in Text, NoSession(text), NEW id \in Tids,
         entries[id] # "none"
  PROVE  Upper(text) # ToHexUpper(id)
PROOF
<1> SUFFICES ASSUME Upper(text) = ToHexUpper(id)
             PROVE  FALSE
  OBVIOUS
<1>1. PICK b : FromHex(text) = Ok(b)
  BY Zenon DEF NoSession, FromHex, Err
<1>2. b \in Bytes /\ ToHexUpper(b) = ToHexUpper(id)
  BY <1>1, HexUpToCase
<1>3. Ok(b) = Ok(id)
  <2>1. FromHex(ToHexUpper(b)) = Ok(b) /\ FromHex(ToHexUpper(id)) = Ok(id)
    BY <1>2, HexRoundTrip, BoundaryAssumption
  <2> QED
    BY <1>2, <2>1
<1> QED
  BY <1>1, <1>3 DEF NoSession, Reaches

Why ==
  io'.answer.http = 200 =>
    /\ io'.answer.reason = REFUSED <=> io'.rc = "-1"
    /\ io'.rc = "-2" => io'.answer.reason = EXECUTION
    /\ io'.answer.subject = TRANSACTION_ID /\ io'.answer.reason = UNKNOWN =>
         \A id \in Tids : entries[id] # "none"
                           => Upper(io'.text) # ToHexUpper(id)

LEMMA ReasonsDiffer ==
  /\ REFUSED # EXECUTION /\ REFUSED # UNKNOWN /\ EXECUTION # UNKNOWN
  /\ REFUSED # "none" /\ UNKNOWN # "none" /\ PROFILE # TRANSACTION_ID
PROOF
  BY DEF REFUSED, EXECUTION, UNKNOWN, PROFILE, TRANSACTION_ID

LEMMA ServeWhy ==
  ASSUME Serve
  PROVE  Why
PROOF
<1>1. ASSUME NEW call, NEW text, NEW http, NEW rc, http # 200,
             Respond(call, text, rc, Plain(http))
      PROVE  Why
  BY <1>1, Responded, AnswerParts DEF Why
<1>2. ASSUME NEW call, NEW text, NEW id, Respond(call, text, "0", Success(id))
      PROVE  Why
  BY <1>2, Responded, AnswerParts, ReasonsDiffer DEF Why
<1>3. ASSUME NEW call, NEW text, NEW rc \in {"-1", "-2"}, NEW subject,
             Respond(call, text, rc, FromRspError(rc, subject))
      PROVE  Why
  BY <1>3, Responded, AnswerParts, ReasonsDiffer DEF Why
<1>4. ASSUME NEW call, NEW text, NEW subject, NEW reason,
             Respond(call, text, "unasked", Failed(subject, reason)),
             reason # REFUSED, subject # TRANSACTION_ID \/ reason # UNKNOWN
      PROVE  Why
  BY <1>4, Responded, AnswerParts DEF Why
<1>5. ASSUME NEW call, NEW text \in Texts, NoSession(text),
             Respond(call, text, "unasked", Failed(TRANSACTION_ID, UNKNOWN))
      PROVE  Why
  BY <1>5, Responded, AnswerParts, ReasonsDiffer, NoSessionIsNone, TextsAreText
     DEF Why
<1>6. CASE InitiateMalformed \/ InitiateFails \/ InitiateUnreadable \/ Initiate
             \/ Notify
  BY <1>1, <1>2, <1>3, <1>4, <1>6, ReasonsDiffer
     DEF InitiateMalformed, InitiateFails, InitiateUnreadable, Initiate, Notify
<1>7. ASSUME NEW text \in Texts,
             Undecoded("authenticate", text) \/ Undecoded("package", text)
      PROVE  Why
  BY <1>1, <1>7 DEF Undecoded
<1>8. ASSUME NEW text \in Texts,
             \/ AuthenticateRefused(text) \/ AuthenticateFails(text)
             \/ Authenticate(text) \/ AuthenticateUnreadable(text)
      PROVE  Why
  BY <1>2, <1>3, <1>4, <1>5, <1>8, ReasonsDiffer
     DEF AuthenticateRefused, AuthenticateFails, Authenticate,
         AuthenticateUnreadable
<1>9. ASSUME NEW text \in Texts,
             PackageRefused(text) \/ PackageFails(text) \/ Package(text)
      PROVE  Why
  BY <1>2, <1>3, <1>4, <1>5, <1>9, ReasonsDiffer
     DEF PackageRefused, PackageFails, Package
<1>10. ASSUME NEW x, AddTyped(x) \/ AddRead(x)
       PROVE  Why
  BY <1>10, AnswerParts DEF AddTyped, AddRead, Exchange, Why
<1> QED
  BY <1>6, <1>7, <1>8, <1>9, <1>10 DEF Serve

(* Whatever is asked, the reason code says whether the library refused,    *)
(* was never reached or was not asked, and "no session" is true.           *)
THEOREM AnswersSayWhy == Spec => AnswerSaysWhy
PROOF
<1>1. Done => Why
  BY NothingTyped, AnswerParts DEF Done, Why
<1>2. [Next]_vars => [Why]_vars
  BY <1>1, ServeWhy DEF Next
<1> QED
  BY <1>2, PTL DEF Spec, AnswerSaysWhy, Why

-----------------------------------------------------------------------------
(* MatchingIDs.                                                            *)

(* No two of the 32 symbols are one.                                       *)
LEMMA AlphabetIsInjective ==
  ASSUME NEW i \in 0..31, NEW j \in 0..31, Alphabet[i] = Alphabet[j]
  PROVE  i = j
PROOF
<1>1. \A k \in 0..31 :
        Alphabet[k] = IF k < 8 THEN k + 65 ELSE IF k < 13 THEN k + 66
                      ELSE IF k < 24 THEN k + 67 ELSE k + 26
  BY DEF Alphabet
<1>2. ASSUME NEW k \in 0..31
      PROVE  \/ k < 8 /\ Alphabet[k] = k + 65
             \/ 8 <= k /\ k < 13 /\ Alphabet[k] = k + 66
             \/ 13 <= k /\ k < 24 /\ Alphabet[k] = k + 67
             \/ 24 <= k /\ Alphabet[k] = k + 26
  <2>1. CASE k < 8
    BY <1>1, <2>1
  <2>2. CASE 8 <= k /\ k < 13
    BY <1>1, <2>2
  <2>3. CASE 13 <= k /\ k < 24
    BY <1>1, <2>3
  <2>4. CASE 24 <= k
    BY <1>1, <2>4
  <2> QED
    BY <2>1, <2>2, <2>3, <2>4
<1> QED
  BY <1>2

(* "no bias toward the front of the alphabet" (service.rs:44-46): whatever *)
(* symbol, the bytes that draw it are the eight that are 32 apart.         *)
THEOREM MatchingIdUnbiased ==
  ASSUME NEW raw \in Bytes, NEW i \in 1..Len(raw), NEW symbol \in 0..31
  PROVE  MatchingId(raw)[i] = Alphabet[symbol]
           <=> \E k \in 0..7 : raw[i] = symbol + 32 * k
PROOF
<1>1. raw \in Seq(0..255) /\ DOMAIN raw = 1..Len(raw)
  BY DEF Bytes
<1>2. raw[i] \in 0..255
  BY <1>1, ElementOfSeq
<1>3. MatchingId(raw)[i] = Alphabet[raw[i] % 32]
  BY <1>1 DEF MatchingId
<1>4. \A x \in 0..255 : /\ x % 32 \in 0..31
                        /\ x \div 32 \in 0..7
                        /\ x = (x % 32) + 32 * (x \div 32)
  BY SMT
<1>5. \A k \in 0..7 : (symbol + 32 * k) % 32 = symbol
  BY SMT
<1>6. raw[i] % 32 = symbol <=> \E k \in 0..7 : raw[i] = symbol + 32 * k
  BY <1>2, <1>4, <1>5
<1> QED
  BY <1>2, <1>3, <1>4, <1>6, AlphabetIsInjective

=============================================================================
