----------------------------- MODULE SmdpLedger -----------------------------
(***************************************************************************)
(* The whole system implements OrderLedger: of everything it does, only    *)
(* what changes the two tables, what an eUICC keeps, or who has proved who *)
(* it is, shows; the rest -- requests, sessions, crashes -- is a stutter.  *)
(***************************************************************************)
EXTENDS Smdp

(* A row keeps the bytes as they arrived; what counts is the notification  *)
(* they are, damaged or not.                                               *)
Original(n) == [n EXCEPT !.form = "intact"]

Ledger == INSTANCE OrderLedger WITH
  Orders <- OrderIds,
  Notes  <- Signed,
  status <- [o \in OrderIds |-> orders[o].state],
  number <- [o \in OrderIds |-> orders[o].iccid],
  holder <- [o \in OrderIds |-> orders[o].cert],
  known  <- authed,
  signed <- issued,
  kept   <- pending,
  filed  <- {Original(r.raw) : r \in notifications}

(* The server's handlers, interleaved with the command line and broken off *)
(* by crashes and lost connections, change an order only as the ledger     *)
(* says: it names eUICCs that authenticated against it, is Bound and       *)
(* handed out (to whom, the ledger does not say) only when it names one,   *)
(* moves on the signed word of the one it names (es9.rs:341-352), and a    *)
(* notification is filed, verified or not, before the eUICC lets it go.    *)
(* For one thread and a store that takes what it is given.                 *)
ImplementsLedger == Ledger!Spec

=============================================================================
