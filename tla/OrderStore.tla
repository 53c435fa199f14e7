----------------------------- MODULE OrderStore -----------------------------
(***************************************************************************)
(* The SQLite store (crates/smdp/src/store): the orders table and the      *)
(* notifications table, and what each statement of the Store trait does to *)
(* them.  SqliteStore keeps its one connection behind a mutex and every    *)
(* method runs exactly one statement while it holds it, so each operator   *)
(* here is one atomic step of whoever calls it -- a request handler or the *)
(* command line, which opens the same file from a process of its own.      *)
(*                                                                         *)
(* Abstractions.  The EID and the eUICC certificate are always written     *)
(* together and stand for one card, so a row keeps a single "cert".  The   *)
(* UPP and the metadata of an order never change; "profile" is the ICCID   *)
(* inside them, "iccid" the indexed column.  No handler reads matching_id, *)
(* so it is left out.  A notification row's id and the fields no handler   *)
(* reads back (seq_number, operation) are left out, and rows form a set.   *)
(***************************************************************************)
EXTENDS Naturals

CONSTANTS Cards,      \* eUICCs, each with its own EID and CERT.EUICC.ECDSA
          Iccids,     \* ICCIDs an order can carry
          MaxOrders,  \* bound: rows the orders table may grow to
          NoCard, NoIccid

ASSUME StoreAssumption ==
  /\ MaxOrders \in Nat
  /\ NoCard \notin Cards
  /\ NoIccid \notin Iccids

OrderIds == 1..MaxOrders
NoOrder  == 0

OrderStates == {"Available", "Bound", "Downloaded", "Failed"}

(* A row of the orders table; "Absent" is a row not inserted yet. *)
Order == [state   : OrderStates \cup {"Absent"},
          iccid   : Iccids \cup {NoIccid},
          profile : Iccids \cup {NoIccid},
          cert    : Cards \cup {NoCard}]

NoRow == [state |-> "Absent", iccid |-> NoIccid, profile |-> NoIccid,
          cert |-> NoCard]

(* A pending notification as it is delivered: a ProfileInstallationResult  *)
(* ("result") or an OtherSignedNotification ("other").  "form" is what     *)
(* became of the bytes the eUICC signed: still intact, no longer matching  *)
(* their signature, or not even readable as a notification.                *)
Note == [kind  : {"none", "result", "other"},
         card  : Cards \cup {NoCard},
         iccid : Iccids \cup {NoIccid},
         ok    : BOOLEAN,
         form  : {"intact", "tampered", "unreadable"}]

NoNote == [kind |-> "none", card |-> NoCard, iccid |-> NoIccid, ok |-> FALSE,
           form |-> "intact"]

NotificationRow == [order     : OrderIds \cup {NoOrder},
                    raw       : Note,
                    verified  : BOOLEAN,
                    installed : {"null", "yes", "no"}]

VARIABLES orders,        \* the orders table, by id
          notifications  \* the notifications table

storeVars == <<orders, notifications>>

StoreTypeOK ==
  /\ orders \in [OrderIds -> Order]
  /\ notifications \in SUBSET NotificationRow

StoreInit ==
  /\ orders = [o \in OrderIds |-> NoRow]
  /\ notifications = {}

-----------------------------------------------------------------------------
Present(o) == orders[o].state # "Absent"

(* INSERT INTO orders: the next row id, state 'available', no eUICC yet. *)
AddOrder(o, iccid, profile) ==
  /\ ~Present(o)
  /\ \A p \in OrderIds : p < o => Present(p)
  /\ orders' = [orders EXCEPT ![o] = [state |-> "Available", iccid |-> iccid,
                                      profile |-> profile, cert |-> NoCard]]

SetState(o, state) == orders' = [orders EXCEPT ![o].state = state]

BindEuicc(o, card) == orders' = [orders EXCEPT ![o].cert = card]

(* order_by_iccid: the first row the index has for this ICCID.  Nothing    *)
(* makes the column unique.                                                *)
WithIccid(iccid) == {o \in OrderIds : Present(o) /\ orders[o].iccid = iccid}

IsOrderByIccid(o, iccid) ==
  IF WithIccid(iccid) = {}
  THEN o = NoOrder
  ELSE o \in WithIccid(iccid) /\ \A p \in WithIccid(iccid) : o <= p

RecordNotification(row) == notifications' = notifications \cup {row}

=============================================================================
