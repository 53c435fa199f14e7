------------------------------- MODULE Schema -------------------------------
(***************************************************************************)
(* SqliteStore::open and migrate() (crates/smdp/src/store/sqlite.rs): what *)
(* becomes of a database file that the server and the command line open,   *)
(* each from a process of its own, whatever wrote it before.               *)
(*                                                                         *)
(* migrate() opens no transaction, so SQLite commits each statement by     *)
(* itself: a process may die, or another one come in, between any two.     *)
(* An index is part of its table; a process that may not go on exits and   *)
(* is started again.                                                       *)
(***************************************************************************)
EXTENDS Naturals

CONSTANTS Processes,  \* that open the file
          RowIds      \* bound: notifications the file ever holds

SchemaVersion == 2

Verdicts == {"unknown", "yes", "no"}

(* A row of notifications: what the verified column says, "unknown" while  *)
(* there is none, and what the program that wrote the row had established. *)
Row == [id : RowIds, verified : Verdicts, truth : {"yes", "no"}]

VARIABLES version,        \* PRAGMA user_version
          ordersTable,    \* whether the orders table is there
          notifications,  \* the notifications table: "old" has no verified
          rows,           \* what is in it
          partial,        \* history: it came with notifications, no orders
          pc              \* how far each process is

file == <<version, ordersTable, notifications, rows, partial>>
vars == <<version, ordersTable, notifications, rows, partial, pc>>

Points == {"closed", "version", "tables", "create_orders",
           "create_notifications", "alter", "stamp", "open", "refused",
           "failed"}

TypeOK ==
  /\ version \in 0..SchemaVersion + 1
  /\ ordersTable \in BOOLEAN
  /\ notifications \in {"absent", "old", "current"}
  /\ rows \in SUBSET Row
  /\ partial \in BOOLEAN
  /\ pc \in [Processes -> Points]

(* A file that is not there yet; one whose creation an earlier version did *)
(* not finish; one that version wrote, which stored only what verified,    *)
(* with its orders table or, as the test of the migration has it, without; *)
(* and one of a later version.                                             *)
Init ==
  /\ pc = [p \in Processes |-> "closed"]
  /\ \/ /\ version = 0 /\ ordersTable \in BOOLEAN
        /\ notifications = "absent" /\ rows = {}
     \/ /\ version = 0 /\ ordersTable \in BOOLEAN /\ notifications = "old"
        /\ \E ids \in SUBSET RowIds :
             rows = {[id |-> i, verified |-> "unknown", truth |-> "yes"] :
                       i \in ids}
     \/ /\ version = SchemaVersion + 1 /\ ordersTable = TRUE
        /\ notifications = "current" /\ rows = {}
  /\ partial = (notifications = "old" /\ ~ordersTable)

-----------------------------------------------------------------------------
Moves(p, from, to) == pc[p] = from /\ pc' = [pc EXCEPT ![p] = to]

Open(p) == Moves(p, "closed", "version") /\ UNCHANGED file

(* A variant the checks must reject: a later version's file stamped too.   *)
ReadVersion_Any(p) ==
  /\ Moves(p, "version", IF version = 0 THEN "tables" ELSE "stamp")
  /\ UNCHANGED file

ReadVersion(p) ==
  /\ \/ version = 0 /\ Moves(p, "version", "tables")
     \/ version \in 1..SchemaVersion /\ Moves(p, "version", "stamp")
     \/ version > SchemaVersion /\ Moves(p, "version", "refused")
  /\ UNCHANGED file

(* A variant the checks must reject: CREATE TABLE IF NOT EXISTS taken for  *)
(* a migration (what an earlier version did, sqlite.rs:44-48).             *)
CountTables_CreateAnyway(p) ==
  Moves(p, "tables", "create_orders") /\ UNCHANGED file

(* Version 0 is a new file or one written before versions were tracked.    *)
CountTables(p) ==
  /\ \/ notifications = "absent" /\ Moves(p, "tables", "create_orders")
     \/ notifications # "absent" /\ Moves(p, "tables", "alter")
  /\ UNCHANGED file

(* SCHEMA, a batch of statements, each IF NOT EXISTS.                      *)
CreateOrders(p) ==
  /\ Moves(p, "create_orders", "create_notifications")
  /\ ordersTable' = TRUE
  /\ UNCHANGED <<version, notifications, rows, partial>>

CreateNotifications(p) ==
  /\ Moves(p, "create_notifications", "stamp")
  /\ notifications' = IF notifications = "absent" THEN "current"
                      ELSE notifications
  /\ UNCHANGED <<version, ordersTable, rows, partial>>

(* Variants the checks must reject: the column added with no default, or   *)
(* with DEFAULT 0.                                                         *)
Alter_NoDefault(p) ==
  /\ notifications = "old"
  /\ Moves(p, "alter", "stamp")
  /\ notifications' = "current"
  /\ rows' = {[r EXCEPT !.verified = "null"] : r \in rows}
  /\ UNCHANGED <<version, ordersTable, partial>>

Alter_DefaultFalse(p) ==
  /\ notifications = "old"
  /\ Moves(p, "alter", "stamp")
  /\ notifications' = "current"
  /\ rows' = {[r EXCEPT !.verified = "no"] : r \in rows}
  /\ UNCHANGED <<version, ordersTable, partial>>

(* ALTER TABLE ADD COLUMN verified NOT NULL DEFAULT 1; with the column     *)
(* there already it is an error, and so is the open.                       *)
Alter(p) ==
  /\ \/ /\ notifications = "old"
        /\ Moves(p, "alter", "stamp")
        /\ notifications' = "current"
        /\ rows' = {[r EXCEPT !.verified = "yes"] : r \in rows}
     \/ /\ notifications = "current"
        /\ Moves(p, "alter", "failed")
        /\ UNCHANGED <<notifications, rows>>
  /\ UNCHANGED <<version, ordersTable, partial>>

Stamp(p) ==
  /\ Moves(p, "stamp", "open")
  /\ version' = SchemaVersion
  /\ UNCHANGED <<ordersTable, notifications, rows, partial>>

(* record_notification, on an open store.                                  *)
Record(p) ==
  /\ pc[p] = "open"
  /\ notifications = "current"
  /\ \E i \in RowIds, verdict \in {"yes", "no"} :
       /\ \A r \in rows : r.id # i
       /\ rows' = rows \cup {[id |-> i, verified |-> verdict,
                                truth |-> verdict]}
  /\ UNCHANGED <<version, ordersTable, notifications, partial, pc>>

(* The command is done, the open was refused or failed, or the process     *)
(* dies where it is.                                                       *)
Exit(p) ==
  /\ pc[p] # "closed"
  /\ pc' = [pc EXCEPT ![p] = "closed"]
  /\ UNCHANGED file

Next ==
  \E p \in Processes :
    \/ Open(p) \/ ReadVersion(p) \/ CountTables(p)
    \/ CreateOrders(p) \/ CreateNotifications(p) \/ Alter(p) \/ Stamp(p)
    \/ Record(p) \/ Exit(p)

Spec == Init /\ [][Next]_vars

-----------------------------------------------------------------------------
(* Properties.                                                             *)

(* Whoever has the store open finds the notifications table with every     *)
(* column record_notification names, and never first learns otherwise      *)
(* "while a card was waiting" (sqlite.rs:44-48); and the orders table too, *)
(* unless the file came with notifications alone: no death halfway and no  *)
(* other process migrating the same file makes an incomplete one look      *)
(* current.  That one file is complete for no process ever: migrate()      *)
(* takes one table for all of them (sqlite.rs:57-67), and stamps it.       *)
OpenIsUsable ==
  \A p \in Processes : pc[p] = "open" =>
    /\ notifications = "current"
    /\ ordersTable <=> ~partial

(* The backfill says of old rows what their writer had established, and a  *)
(* second process that migrates late says nothing of rows recorded since.  *)
VerdictsKept ==
  notifications = "current" => \A r \in rows : r.verified = r.truth

(* A file of a later version stays as it is (SchemaTooNew).                *)
NewerUntouched ==
  [][version > SchemaVersion => UNCHANGED file]_vars

(* "Either brand new, or written before versions were tracked. The two are *)
(* told apart by whether the tables are there at all" (sqlite.rs:55-56):   *)
(* a process that goes on to ALTER has a file of the earlier version.  But *)
(* one whose migration was broken off before the version was written, or   *)
(* is still under way elsewhere, is neither.                               *)
ToldApart ==
  \A p \in Processes : pc[p] = "alter" => notifications = "old"

=============================================================================
