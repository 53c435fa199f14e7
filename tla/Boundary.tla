------------------------------ MODULE Boundary ------------------------------
(***************************************************************************)
(* What crosses the edge of the program: the four ES9+ calls as JSON       *)
(* fields and their answers (es9/mod.rs, server/es9.rs), and what          *)
(* `smdp order add` is given.  Es9Server has the order of every access to  *)
(* shared state and one value for any refusal; here a call is one step,    *)
(* and what is kept is how its text is read, which session that names, and *)
(* what the answer says about why.                                         *)
(*                                                                         *)
(* Each entry of the session map is "none", "open" (initiated) or "bound"  *)
(* (its order_id is set).  Calls of the library and the store come out any *)
(* way they can.                                                           *)
(***************************************************************************)
EXTENDS Codec

CONSTANTS Tids,      \* byte strings Nonces::transaction_id may draw
          Texts,     \* what may be sent as transactionId or typed as ICCID
          Metadatas  \* what an --metadata file may hold

ASSUME BoundaryAssumption ==
  /\ Tids \subseteq Bytes
  /\ Texts \subseteq Text
  /\ Metadatas \subseteq Bytes

VARIABLES entries,  \* Sessions::by_transaction
          io        \* the last call or command, and what came of it

vars == <<entries, io>>

(* A call of the library comes out 0, -1 ("asked, answered no") or -2      *)
(* ("never reached"), unless the handler does not get to it.               *)
LibraryCodes == {"unasked", "0", "-1", "-2"}

-----------------------------------------------------------------------------
(* Answers.                                                                *)

(* One without a header: axum's Json could not decode a field (422), a     *)
(* notification's 204, and none at all (0) from a handler that panicked    *)
(* or a command that is not a request.                                     *)
Plain(http) == [http |-> http, status |-> "none", subject |-> "none",
                reason |-> "none", echo |-> <<>>]

(* ok_json: 200, whether the function succeeded or not.                    *)
OkJson(status, subject, reason, echo) ==
  [http |-> 200, status |-> status, subject |-> subject, reason |-> reason,
   echo |-> echo]

Success(id) == OkJson("Executed-Success", "none", "none", ToHexUpper(id))

Failed(subject, reason) == OkJson("Failed", subject, reason, <<>>)

SMDP_ADDRESS == "8.1.1"
TRANSACTION_ID == "8.10.1"
PROFILE == "8.2.5"
REFUSED == "3.8"
UNKNOWN == "3.9"
EXECUTION == "4.2"

(* A variant the checks must reject: the two failures flattened into one.  *)
FromCode_Flat(rc) == "Refused"

(* RspError::from_code, of a code that is not 0.                           *)
FromCode(rc) == IF rc = "-1" THEN "Refused" ELSE "NotReached"

(* A variant the checks must reject: failed() called with its two strings  *)
(* the wrong way round.                                                    *)
FromRspError_Swapped(rc, subject) ==
  Failed(IF FromCode(rc) = "Refused" THEN REFUSED ELSE EXECUTION, subject)

FromRspError(rc, subject) ==
  Failed(subject, IF FromCode(rc) = "Refused" THEN REFUSED ELSE EXECUTION)

Exchange(call, text, read, rc, answer) ==
  [call |-> call, text |-> text, read |-> read, rc |-> rc,
   answer |-> answer]

Nothing == Exchange("none", <<>>, Ok(<<>>), "unasked", Plain(0))

Respond(call, text, rc, answer) ==
  io' = Exchange(call, text, FromHex(text), rc, answer)

Init ==
  /\ entries = [id \in Tids |-> "none"]
  /\ io = Nothing

-----------------------------------------------------------------------------
(* initiateAuthentication: a field that is not base64, a challenge that is *)
(* not 16 bytes.                                                           *)
InitiateMalformed ==
  /\ \/ Respond("initiate", <<>>, "unasked", Plain(422))
     \/ Respond("initiate", <<>>, "unasked", Failed(EXECUTION, EXECUTION))
  /\ UNCHANGED entries

(* DpSession::initiate: the address is not this server's, or EUICCInfo1    *)
(* offers nothing; an address that cannot be handed over was never asked   *)
(* about.                                                                  *)
InitiateFails ==
  /\ \E rc \in {"-1", "-2"} :
       Respond("initiate", <<>>, rc, FromRspError(rc, SMDP_ADDRESS))
  /\ UNCHANGED entries

(* initiate_fields cannot take the library's answer apart; the session,    *)
(* not in the map yet, is dropped.                                         *)
InitiateUnreadable ==
  /\ \E rc \in {"-1", "-2"} :
       Respond("initiate", <<>>, rc, FromRspError(rc, EXECUTION))
  /\ UNCHANGED entries

(* A fresh session, after a sweep of whatever was too old.                 *)
Initiate ==
  \E id \in Tids, old \in SUBSET Tids :
    /\ entries[id] = "none" \/ id \in old
    /\ entries' = [i \in Tids |-> IF i = id THEN "open"
                                  ELSE IF i \in old THEN "none"
                                  ELSE entries[i]]
    /\ Respond("initiate", <<>>, "0", Success(id))

(* hex_field::deserialize fails, or another field does; the handler is not *)
(* called.                                                                 *)
Undecoded(call, text) ==
  /\ Respond(call, text, "unasked",
             IF FromHex(text).res = "panic" THEN Plain(0) ELSE Plain(422))
  /\ UNCHANGED entries

(* The session a transactionId reaches.                                    *)
Reaches(text, id) == FromHex(text) = Ok(id) /\ entries[id] # "none"

NoSession(text) ==
  FromHex(text).res = "ok" /\ \A id \in Tids : ~Reaches(text, id)

(* authenticateClient without a question to the library: the orders cannot *)
(* be read, none or several are on offer, there is no such session.        *)
AuthenticateRefused(text) ==
  /\ FromHex(text).res = "ok"
  /\ \/ Respond("authenticate", text, "unasked", Failed(PROFILE, EXECUTION))
     \/ Respond("authenticate", text, "unasked", Failed(PROFILE, UNKNOWN))
     \/ /\ NoSession(text)
        /\ Respond("authenticate", text, "unasked",
                   Failed(TRANSACTION_ID, UNKNOWN))
  /\ UNCHANGED entries

AuthenticateFails(text) ==
  /\ \E id \in Tids : Reaches(text, id)
  /\ \E rc \in {"-1", "-2"} :
       Respond("authenticate", text, rc, FromRspError(rc, TRANSACTION_ID))
  /\ UNCHANGED entries

(* The library agrees and the order is remembered.                         *)
Authenticate(text) ==
  \E id \in Tids :
    /\ Reaches(text, id)
    /\ entries' = [entries EXCEPT ![id] = "bound"]
    /\ Respond("authenticate", text, "0", Success(id))

(* authenticate_fields cannot take its answer apart; the order stays       *)
(* remembered.                                                             *)
AuthenticateUnreadable(text) ==
  \E id \in Tids, rc \in {"-1", "-2"} :
    /\ Reaches(text, id)
    /\ entries' = [entries EXCEPT ![id] = "bound"]
    /\ Respond("authenticate", text, rc, FromRspError(rc, EXECUTION))

(* getBoundProfilePackage without a question to the library.  A session    *)
(* without an order and a failed read of the store are told alike.         *)
PackageRefused(text) ==
  /\ \/ /\ NoSession(text)
        /\ Respond("package", text, "unasked", Failed(TRANSACTION_ID, UNKNOWN))
     \/ /\ \E id \in Tids : Reaches(text, id)
        /\ Respond("package", text, "unasked", Failed(PROFILE, UNKNOWN))
  /\ UNCHANGED entries

PackageFails(text) ==
  /\ \E id \in Tids : Reaches(text, id) /\ entries[id] = "bound"
  /\ \E rc \in {"-1", "-2"} :
       Respond("package", text, rc, FromRspError(rc, TRANSACTION_ID))
  /\ UNCHANGED entries

Package(text) ==
  \E id \in Tids :
    /\ Reaches(text, id)
    /\ entries[id] = "bound"
    /\ Respond("package", text, "0", Success(id))
    /\ entries' = [entries EXCEPT ![id] = "none"]

(* handleNotification: 204 whatever it makes of it.                        *)
Notify ==
  /\ \/ Respond("notify", <<>>, "unasked", Plain(422))
     \/ \E rc \in {"0", "-1", "-2"} : Respond("notify", <<>>, rc, Plain(204))
  /\ UNCHANGED entries

-----------------------------------------------------------------------------
(* order add: --iccid as typed, or else out of the metadata.               *)
AddTyped(text) ==
  /\ io' = Exchange("add_typed", text, ParseIccid(text), "unasked", Plain(0))
  /\ UNCHANGED entries

AddRead(metadata) ==
  /\ io' = Exchange("add_read", metadata, IccidFromMetadata(metadata),
                    "unasked", Plain(0))
  /\ UNCHANGED entries

(* Whoever asked has the answer.                                           *)
Done ==
  /\ io # Nothing
  /\ io' = Nothing
  /\ UNCHANGED entries

-----------------------------------------------------------------------------
(* One at a time, each with its answer before the next.                    *)
Serve ==
  /\ io = Nothing
  /\ \/ InitiateMalformed \/ InitiateFails \/ InitiateUnreadable
     \/ Initiate \/ Notify
     \/ \E text \in Texts :
          \/ Undecoded("authenticate", text) \/ Undecoded("package", text)
          \/ AuthenticateRefused(text) \/ AuthenticateFails(text)
          \/ Authenticate(text) \/ AuthenticateUnreadable(text)
          \/ PackageRefused(text) \/ PackageFails(text) \/ Package(text)
          \/ AddTyped(text)
     \/ \E metadata \in Metadatas : AddRead(metadata)

Next == Serve \/ Done

Spec == Init /\ [][Next]_vars

-----------------------------------------------------------------------------
(* Properties.                                                             *)

Results == {"ok", "OddLength", "NotHex", "Length", "NotStoreMetadata", "panic"}

(* The codes an answer may have in either place.  4.2 is also the subject  *)
(* of a failure that has no other (es9.rs:92-94, 120, 210).                *)
Subjects == {"none", SMDP_ADDRESS, TRANSACTION_ID, PROFILE, EXECUTION}
Reasons  == {"none", REFUSED, UNKNOWN, EXECUTION}

TypeOK ==
  /\ entries \in [Tids -> {"none", "open", "bound"}]
  /\ io.text \in Text
  /\ io.read.res \in Results
  /\ io.read.bytes \in Bytes
  /\ io.rc \in LibraryCodes
  /\ io.answer.http \in {0, 200, 204, 422}
  /\ io.answer.subject \in Subjects
  /\ io.answer.reason \in Reasons
  /\ io.answer.echo \in Text

(* No transactionId, however many bytes or characters it has, makes        *)
(* from_hex index past its last pair (wire.rs:39): every request is        *)
(* answered, if only with a 422.                                           *)
AlwaysAnswered ==
  io.call \in {"initiate", "authenticate", "package", "notify"}
    => io.read.res # "panic" /\ io.answer.http # 0

IsBerLength(o) ==
  \/ Len(o) = 1 /\ o[1] < 128
  \/ Len(o) \in 2..5 /\ o[1] = 127 + Len(o)

(* m begins as a StoreMetadataRequest whose ICCID is iccid, the length in  *)
(* any of its five forms; what follows the ICCID may be cut off.           *)
BeginsWithIccid(m, iccid) ==
  \E l \in 1..5 :
    /\ 4 + l + IccidOctets <= Len(m)
    /\ m[1] = 191 /\ m[2] = 37
    /\ IsBerLength(SubSeq(m, 3, 2 + l))
    /\ m[3 + l] = 90 /\ m[4 + l] = IccidOctets
    /\ SubSeq(m, 5 + l, 4 + l + IccidOctets) = iccid

(* iccid_from_metadata (service.rs:85-110) returns exactly the ICCID a     *)
(* StoreMetadataRequest begins with, and refuses whatever begins with      *)
(* none: no length form, truncation or look-alike makes it read another    *)
(* ten octets, or past the end.                                            *)
MetadataIccidRead ==
  io.call = "add_read" =>
    IF io.read.res = "ok"
    THEN BeginsWithIccid(io.text, io.read.bytes)
    ELSE \A i \in 1..Len(io.text) :
           ~BeginsWithIccid(io.text, SubSeq(io.text, i, i + IccidOctets - 1))

IsUpperHex(c) == c \in (48..57) \cup (65..70)

Upper(s) == [i \in DOMAIN s |-> IF s[i] \in 97..122 THEN s[i] - 32 ELSE s[i]]

(* An answer of success carries a transactionId as section 6.5.2.6 wants   *)
(* it (wire.rs:23: two to 32 characters, upper case), which is the one     *)
(* asked about up to letter case and, sent again, names the session whose  *)
(* state the call has changed.                                             *)
EchoNamesSession ==
  [][io'.answer.status = "Executed-Success" =>
       LET echo == io'.answer.echo IN
       /\ Len(echo) \in 2..32
       /\ \A i \in DOMAIN echo : IsUpperHex(echo[i])
       /\ io'.call # "initiate" => echo = Upper(io'.text)
       /\ \E id \in Tids :
            /\ FromHex(echo) = Ok(id)
            /\ entries' = [entries' EXCEPT
                             ![id] = CASE io'.call = "initiate" -> "open"
                                       [] io'.call = "authenticate" -> "bound"
                                       [] io'.call = "package" -> "none"]
            /\ io'.call # "initiate" => entries[id] # "none"
    ]_vars

(* A refusal and a question never reached have different reason codes      *)
(* (es9.rs:72-73), 3.8 never stands for anything but the library's no, and *)
(* "no session" is said only of text that, whatever its letter case, is    *)
(* not the transactionId of one that is open.                              *)
AnswerSaysWhy ==
  [][io'.answer.http = 200 =>
       /\ io'.answer.reason = REFUSED <=> io'.rc = "-1"
       /\ io'.rc = "-2" => io'.answer.reason = EXECUTION
       /\ io'.answer.subject = TRANSACTION_ID /\ io'.answer.reason = UNKNOWN =>
            \A id \in Tids : entries[id] # "none"
                              => Upper(io'.text) # ToHexUpper(id)
    ]_vars

-----------------------------------------------------------------------------
(* What the repository says and the code does not do.                      *)

(* "an ICCID is 20 hexadecimal digits" (bin/smdp.rs:102): what is typed is *)
(* taken if it is that, and reported if it is not.  But from_str_radix     *)
(* takes a plus sign for a digit, and characters longer than a byte make   *)
(* the command panic where it slices.                                      *)
IccidIsDigits ==
  io.call = "add_typed" =>
    /\ io.read.res # "panic"
    /\ io.read.res = "ok" <=> /\ Len(io.text) = 2 * IccidOctets
                              /\ \A i \in DOMAIN io.text : IsHex(io.text[i])

=============================================================================
