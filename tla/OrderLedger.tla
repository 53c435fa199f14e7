---------------------------- MODULE OrderLedger -----------------------------
(***************************************************************************)
(* What the server promises about the orders and the notifications in its  *)
(* database, with no request, session, program point or crash in it: which *)
(* entry of an order may change, to what, and on whose word (the comments  *)
(* of store/mod.rs on OrderState, Order, bind_euicc, record_notification). *)
(* SmdpLedger shows that the whole system implements it.                   *)
(***************************************************************************)
CONSTANTS Orders,           \* the orders there may be
          Cards, NoCard,    \* eUICCs
          Iccids, NoIccid,
          Notes             \* what an eUICC may sign about a Profile

VARIABLES status,   \* per order: its OrderState, or "Absent"
          number,   \* per order: the ICCID it is filed under
          holder,   \* per order: the eUICC it names
          known,    \* per order: the eUICCs that authenticated against it
          signed,   \* notifications eUICCs ever signed
          kept,     \* those an eUICC still keeps
          filed     \* those the table keeps

noteVars == <<signed, kept, filed>>
orderVars == <<status, number, holder, known>>
vars == <<orderVars, noteVars>>

OnOffer == {"Available", "Bound"}

Init ==
  /\ status = [o \in Orders |-> "Absent"]
  /\ number = [o \in Orders |-> NoIccid]
  /\ holder = [o \in Orders |-> NoCard]
  /\ known = [o \in Orders |-> {}]
  /\ signed = {}
  /\ kept = {}
  /\ filed = {}

Becomes(o, state) == status' = [status EXCEPT ![o] = state]

(* A new order is on offer and names nobody.                               *)
Add(o, iccid) ==
  /\ status[o] = "Absent"
  /\ Becomes(o, "Available")
  /\ number' = [number EXCEPT ![o] = iccid]
  /\ UNCHANGED <<holder, known, noteVars>>

(* An eUICC proves who it is, against an order on offer only.              *)
Prove(o, c) ==
  /\ status[o] \in OnOffer
  /\ known' = [known EXCEPT ![o] = @ \cup {c}]
  /\ UNCHANGED <<status, number, holder, noteVars>>

(* The order names it, also in place of another that did not finish.       *)
Name(o, c) ==
  /\ status[o] \in OnOffer
  /\ c \in known[o]
  /\ holder' = [holder EXCEPT ![o] = c]
  /\ UNCHANGED <<status, number, known, noteVars>>

(* Bound: an order on offer that names an eUICC.                           *)
Bind(o) ==
  /\ status[o] \in OnOffer
  /\ holder[o] \in known[o]
  /\ Becomes(o, "Bound")
  /\ UNCHANGED <<number, holder, known, noteVars>>

(* Its package is handed out.                                              *)
HandOut(o) ==
  /\ status[o] # "Absent"
  /\ holder[o] \in known[o]
  /\ Becomes(o, "Downloaded")
  /\ UNCHANGED <<number, holder, known, noteVars>>

(* Only the eUICC it names says what came of it, in its own signed words.  *)
Report(o, n) ==
  /\ n \in signed
  /\ n.kind = "result"
  /\ n.card = holder[o]
  /\ n.iccid = number[o]
  /\ Becomes(o, IF n.ok THEN "Downloaded" ELSE "Failed")
  /\ UNCHANGED <<number, holder, known, noteVars>>

(* The operator puts it back on offer; whom it names is not forgotten.     *)
Reset(o) ==
  /\ status[o] # "Absent"
  /\ Becomes(o, "Available")
  /\ UNCHANGED <<number, holder, known, noteVars>>

Sign(n) ==
  /\ signed' = signed \cup {n}
  /\ kept' = kept \cup {n}
  /\ UNCHANGED <<filed, orderVars>>

(* The table keeps what arrives while the eUICC still has it...            *)
File(n) ==
  /\ n \in kept
  /\ filed' = filed \cup {n}
  /\ UNCHANGED <<signed, kept, orderVars>>

(* ...verified or not (es9.rs:322-339), and only what the table keeps may  *)
(* leave the eUICC.                                                        *)
Forget(n) ==
  /\ n \in filed
  /\ kept' = kept \ {n}
  /\ UNCHANGED <<signed, filed, orderVars>>

Next ==
  \/ \E o \in Orders, i \in Iccids : Add(o, i)
  \/ \E o \in Orders, c \in Cards : Prove(o, c) \/ Name(o, c)
  \/ \E o \in Orders : Bind(o) \/ HandOut(o) \/ Reset(o)
  \/ \E o \in Orders, n \in Notes : Report(o, n)
  \/ \E n \in Notes : Sign(n) \/ File(n) \/ Forget(n)

Spec == Init /\ [][Next]_vars

=============================================================================
