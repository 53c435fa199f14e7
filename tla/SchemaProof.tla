---------------------------- MODULE SchemaProof -----------------------------
(***************************************************************************)
(* Whatever wrote the file, however many processes open it, and wherever   *)
(* they die, an open store has its tables and columns -- but for the one   *)
(* kind of file migrate() never completes -- and the rows say what was     *)
(* established.                                                            *)
(*                                                                         *)
(* A process reads the version once and the tables once, and acts on both  *)
(* later.  It may, because what it then relies on is never undone: a table *)
(* once made stays, an old one is only ever upgraded, and nothing makes an *)
(* old one.                                                                *)
(***************************************************************************)
EXTENDS Schema, TLAPS

CreatePoints == {"create_orders", "create_notifications"}

(* What the file is like as a whole: the notifications table comes last,   *)
(* the version after it; a file that came without its orders table stays   *)
(* without.                                                                *)
FileOK ==
  /\ notifications # "absent" => (ordersTable <=> ~partial)
  /\ partial => notifications # "absent"
  /\ version # 0 => notifications = "current"
  /\ notifications = "absent" => rows = {}
  /\ notifications = "old" => \A r \in rows : r.truth = "yes"

(* What a process may rely on where it is.                                 *)
ProcessOK(p) ==
  /\ pc[p] = "create_notifications" => ordersTable
  /\ pc[p] \in CreatePoints => notifications # "old" /\ ~partial
  /\ pc[p] = "alter" => notifications # "absent"
  /\ pc[p] \in {"stamp", "open"} => notifications = "current"

ProcessesOK == \A p \in Processes : ProcessOK(p)

MigrationInv == TypeOK /\ FileOK /\ ProcessesOK /\ VerdictsKept

-----------------------------------------------------------------------------
LEMMA InitMigration == Init => MigrationInv
<1> SUFFICES ASSUME Init PROVE MigrationInv
  OBVIOUS
<1>1. pc \in [Processes -> Points] /\ \A p \in Processes : pc[p] = "closed"
  BY DEF Init, Points
<1>2. ProcessesOK
  BY <1>1 DEF ProcessesOK, ProcessOK, CreatePoints
<1>p. partial \in BOOLEAN /\ (partial <=> notifications = "old" /\ ~ordersTable)
  BY Zenon DEF Init
<1>3. CASE notifications # "old"
  <2>1. /\ version \in 0..SchemaVersion + 1 /\ ordersTable \in BOOLEAN
        /\ notifications \in {"absent", "current"} /\ rows = {}
        /\ notifications # "absent" => ordersTable
        /\ version # 0 => notifications = "current"
    <3>1. CASE /\ version = 0 /\ ordersTable \in BOOLEAN
               /\ notifications = "absent" /\ rows = {}
      BY <3>1 DEF SchemaVersion
    <3>2. CASE /\ version = SchemaVersion + 1 /\ ordersTable = TRUE
               /\ notifications = "current" /\ rows = {}
      BY <3>2 DEF SchemaVersion
    <3>3. QED
      BY <1>3, <3>1, <3>2, Zenon DEF Init
  <2>2. QED
    BY <1>1, <1>2, <1>3, <1>p, <2>1 DEF MigrationInv, TypeOK, FileOK, VerdictsKept
<1>4. CASE notifications = "old"
  <2>1. /\ version = 0 /\ ordersTable \in BOOLEAN
        /\ \A r \in rows : r \in Row /\ r.truth = "yes"
    BY <1>4 DEF Init, Row, Verdicts
  <2>2. QED
    BY <1>1, <1>2, <1>4, <1>p, <2>1
       DEF MigrationInv, TypeOK, FileOK, VerdictsKept, SchemaVersion
<1>5. QED
  BY <1>3, <1>4

(* What one process relies on, a step of another does not take away.       *)
LEMMA OthersKeep ==
  ASSUME MigrationInv, NEW p \in Processes, NEW from, NEW to,
         Moves(p, from, to), to \in Points,
         ordersTable => ordersTable', partial' = partial,
         notifications = "absent" => notifications' # "old",
         notifications # "absent" => notifications' # "absent",
         notifications = "current" => notifications' = "current",
         to = "create_notifications" => ordersTable',
         to \in CreatePoints => notifications' # "old" /\ ~partial,
         to = "alter" => notifications' # "absent",
         to \in {"stamp", "open"} => notifications' = "current"
  PROVE  pc' \in [Processes -> Points] /\ ProcessesOK'
<1>1. pc \in [Processes -> Points] /\ notifications \in {"absent", "old", "current"}
  BY DEF MigrationInv, TypeOK
<1>2. pc'[p] = to /\ \A q \in Processes \ {p} : pc'[q] = pc[q]
  BY <1>1 DEF Moves
<1>3. ProcessOK(p)'
  BY <1>2 DEF ProcessOK
<1>4. ASSUME NEW q \in Processes \ {p}
      PROVE  ProcessOK(q)'
  BY <1>1, <1>2 DEF MigrationInv, ProcessesOK, ProcessOK, CreatePoints
<1>5. QED
  BY <1>1, <1>3, <1>4 DEF Moves, ProcessesOK

LEMMA MigrationStep == MigrationInv /\ [Next]_vars => MigrationInv'
<1> SUFFICES ASSUME MigrationInv, [Next]_vars
             PROVE  MigrationInv'
  OBVIOUS
<1>t. /\ version \in 0..SchemaVersion + 1 /\ ordersTable \in BOOLEAN
      /\ notifications \in {"absent", "old", "current"}
      /\ rows \in SUBSET Row /\ pc \in [Processes -> Points]
      /\ partial \in BOOLEAN
      /\ FileOK /\ ProcessesOK /\ VerdictsKept
  BY DEF MigrationInv, TypeOK
<1>f. ASSUME UNCHANGED file, pc' \in [Processes -> Points], ProcessesOK'
      PROVE  MigrationInv'
  BY <1>t, <1>f DEF MigrationInv, TypeOK, FileOK, VerdictsKept, file
<1>1. ASSUME NEW p \in Processes, Open(p)
      PROVE  MigrationInv'
  BY <1>1, <1>f, <1>t, OthersKeep DEF Open, file, Points, CreatePoints
<1>2. ASSUME NEW p \in Processes, ReadVersion(p)
      PROVE  MigrationInv'
  <2>1. version \in 1..SchemaVersion => notifications = "current"
    BY <1>t DEF FileOK
  <2>2. QED
    BY <1>2, <1>f, <1>t, <2>1, OthersKeep
       DEF ReadVersion, file, Points, CreatePoints
<1>3. ASSUME NEW p \in Processes, CountTables(p)
      PROVE  MigrationInv'
  <2>1. notifications = "absent" => ~partial
    BY <1>t DEF FileOK
  <2>2. QED
    BY <1>3, <1>f, <1>t, <2>1, OthersKeep
       DEF CountTables, file, Points, CreatePoints
<1>4. ASSUME NEW p \in Processes, CreateOrders(p)
      PROVE  MigrationInv'
  <2>1. notifications # "old" /\ ~partial
    BY <1>4, <1>t DEF CreateOrders, Moves, ProcessesOK, ProcessOK, CreatePoints
  <2>2. pc' \in [Processes -> Points] /\ ProcessesOK'
    BY <1>4, <1>t, <2>1, OthersKeep DEF CreateOrders, Points, CreatePoints
  <2>3. QED
    BY <1>4, <1>t, <2>1, <2>2
       DEF CreateOrders, MigrationInv, TypeOK, FileOK, VerdictsKept
<1>5. ASSUME NEW p \in Processes, CreateNotifications(p)
      PROVE  MigrationInv'
  <2>1. /\ notifications # "old" /\ ordersTable /\ ~partial
        /\ notifications' = "current"
    BY <1>5, <1>t DEF CreateNotifications, Moves, ProcessesOK, ProcessOK,
                      CreatePoints
  <2>2. pc' \in [Processes -> Points] /\ ProcessesOK'
    BY <1>5, <1>t, <2>1, OthersKeep DEF CreateNotifications, Points, CreatePoints
  <2>3. QED
    BY <1>5, <1>t, <2>1, <2>2
       DEF CreateNotifications, MigrationInv, TypeOK, FileOK, VerdictsKept
<1>6. ASSUME NEW p \in Processes, Alter(p)
      PROVE  MigrationInv'
  <2>1. CASE UNCHANGED file
    <3>1. Moves(p, "alter", "failed")
      BY <1>6, <2>1 DEF Alter, file
    <3>2. QED
      BY <1>f, <1>t, <2>1, <3>1, OthersKeep DEF file, Points, CreatePoints
  <2>2. CASE /\ notifications = "old" /\ Moves(p, "alter", "stamp")
             /\ notifications' = "current"
             /\ rows' = {[r EXCEPT !.verified = "yes"] : r \in rows}
    <3>1. \A r \in rows' : r \in Row /\ r.verified = "yes" /\ r.truth = "yes"
      BY <1>t, <2>2 DEF FileOK, Row, Verdicts
    <3>2. UNCHANGED <<version, ordersTable, partial>>
      BY <1>6 DEF Alter
    <3>3. pc' \in [Processes -> Points] /\ ProcessesOK'
      BY <2>2, <3>2, OthersKeep DEF Points, CreatePoints
    <3>4. QED
      BY <1>t, <2>2, <3>1, <3>2, <3>3
         DEF MigrationInv, TypeOK, FileOK, VerdictsKept
  <2>3. QED
    BY <1>6, <2>1, <2>2 DEF Alter, file
<1>7. ASSUME NEW p \in Processes, Stamp(p)
      PROVE  MigrationInv'
  <2>1. notifications = "current"
    BY <1>7, <1>t DEF Stamp, Moves, ProcessesOK, ProcessOK
  <2>2. pc' \in [Processes -> Points] /\ ProcessesOK'
    BY <1>7, <2>1, OthersKeep DEF Stamp, Points, CreatePoints
  <2>3. QED
    BY <1>7, <1>t, <2>1, <2>2
       DEF Stamp, MigrationInv, TypeOK, FileOK, VerdictsKept, SchemaVersion
<1>8. ASSUME NEW p \in Processes, Record(p)
      PROVE  MigrationInv'
  <2>1. /\ UNCHANGED <<version, ordersTable, notifications, partial, pc>>
        /\ notifications = "current"
    BY <1>8 DEF Record
  <2>2. \A r \in rows' : r \in rows \/ (r \in Row /\ r.verified = r.truth)
    BY <1>8 DEF Record, Row, Verdicts
  <2>3. rows' \in SUBSET Row /\ VerdictsKept'
    BY <1>t, <2>1, <2>2 DEF VerdictsKept
  <2>4. ProcessesOK'
    BY <1>t, <2>1 DEF ProcessesOK, ProcessOK
  <2>5. QED
    BY <1>t, <2>1, <2>3, <2>4 DEF MigrationInv, TypeOK, FileOK
<1>9. ASSUME NEW p \in Processes, Exit(p)
      PROVE  MigrationInv'
  <2>1. Moves(p, pc[p], "closed") /\ UNCHANGED file
    BY <1>9 DEF Exit, Moves
  <2>2. QED
    BY <1>f, <1>t, <2>1, OthersKeep DEF file, Points, CreatePoints
<1>10. CASE UNCHANGED vars
  <2>1. UNCHANGED file /\ UNCHANGED pc
    BY <1>10 DEF vars, file
  <2>2. QED
    BY <1>f, <1>t, <2>1 DEF ProcessesOK, ProcessOK, file
<1>11. QED
  BY <1>1, <1>2, <1>3, <1>4, <1>5, <1>6, <1>7, <1>8, <1>9, <1>10 DEF Next

THEOREM MigrationInvariant == Spec => []MigrationInv
<1>1. QED
  BY InitMigration, MigrationStep, PTL DEF Spec

(* Every file and every process is well typed, whoever opens it.           *)
THEOREM SchemaTypeCorrect == Spec => []TypeOK
<1>1. MigrationInv => TypeOK
  BY DEF MigrationInv
<1>2. QED
  BY <1>1, MigrationInvariant, PTL

(* An open store has every table and column its statements name, save the  *)
(* orders table of a file that came with notifications alone, which no     *)
(* process ever adds.                                                      *)
THEOREM OpenStoreUsable == Spec => []OpenIsUsable
<1>1. MigrationInv => OpenIsUsable
  BY DEF MigrationInv, FileOK, ProcessesOK, ProcessOK, OpenIsUsable
<1>2. QED
  BY <1>1, MigrationInvariant, PTL

(* Every row says of its verification what its writer had established.     *)
THEOREM VerdictsAreKept == Spec => []VerdictsKept
<1>1. MigrationInv => VerdictsKept
  BY DEF MigrationInv
<1>2. QED
  BY <1>1, MigrationInvariant, PTL

(* A process that finds a later version's file goes no further.            *)
NewerInv ==
  version > SchemaVersion =>
    \A p \in Processes : pc[p] \in {"closed", "version", "refused"}

LEMMA NewerStep ==
  ASSUME MigrationInv, NewerInv, [Next]_vars
  PROVE  NewerInv' /\ (version > SchemaVersion => UNCHANGED file)
<1>t. version \in 0..SchemaVersion + 1 /\ pc \in [Processes -> Points]
  BY DEF MigrationInv, TypeOK
<1>1. CASE version > SchemaVersion
  <2>1. \A p \in Processes : pc[p] \in {"closed", "version", "refused"}
    BY <1>1 DEF NewerInv
  <2>2. ASSUME NEW p \in Processes, NEW to, Moves(p, pc[p], to),
               to \in {"closed", "version", "refused"}
        PROVE  NewerInv'
    BY <1>t, <2>1, <2>2 DEF NewerInv, Moves
  <2>3. ASSUME NEW p \in Processes, Open(p)
        PROVE  NewerInv' /\ UNCHANGED file
    BY <2>2, <2>3 DEF Open, Moves
  <2>4. ASSUME NEW p \in Processes, ReadVersion(p)
        PROVE  NewerInv' /\ UNCHANGED file
    <3>1. Moves(p, pc[p], "refused") /\ UNCHANGED file
      BY <1>1, <1>t, <2>4 DEF ReadVersion, Moves, SchemaVersion
    <3>2. QED
      BY <2>2, <3>1
  <2>5. ASSUME NEW p \in Processes, Exit(p)
        PROVE  NewerInv' /\ UNCHANGED file
    BY <2>2, <2>5 DEF Exit, Moves
  <2>6. ASSUME NEW p \in Processes,
               \/ CountTables(p) \/ CreateOrders(p) \/ CreateNotifications(p)
               \/ Alter(p) \/ Stamp(p) \/ Record(p)
        PROVE  FALSE
    BY <2>1, <2>6 DEF CountTables, CreateOrders, CreateNotifications, Alter,
                      Stamp, Record, Moves
  <2>7. CASE UNCHANGED vars
    BY <2>1, <2>7 DEF vars, file, NewerInv
  <2>8. QED
    BY <2>3, <2>4, <2>5, <2>6, <2>7 DEF Next
<1>2. CASE ~(version > SchemaVersion)
  <2>1. version' = version \/ version' = SchemaVersion
    BY DEF Next, Open, ReadVersion, CountTables, CreateOrders,
           CreateNotifications, Alter, Stamp, Record, Exit, file, vars
  <2>2. ~(version' > SchemaVersion)
    BY <1>2, <2>1 DEF SchemaVersion
  <2>3. QED
    BY <1>2, <2>2 DEF NewerInv
<1>3. QED
  BY <1>1, <1>2

(* No step of any process changes a file of a later version.               *)
THEOREM NewerFilesKept == Spec => NewerUntouched
<1>1. Init => NewerInv
  BY DEF Init, NewerInv
<1>2. MigrationInv /\ NewerInv /\ [Next]_vars => NewerInv'
  BY NewerStep
<1>3. MigrationInv /\ NewerInv /\ [Next]_vars =>
        [version > SchemaVersion => UNCHANGED file]_vars
  BY NewerStep
<1>4. QED
  BY <1>1, <1>2, <1>3, MigrationInvariant, PTL DEF Spec, NewerUntouched

=============================================================================
