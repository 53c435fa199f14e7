----------------------- MODULE SmdpNotificationProof ------------------------
(***************************************************************************)
(* Whose word moves an order: a row marked verified, and an order marked   *)
(* Failed, go back to an eUICC that signed exactly that and authenticated  *)
(* against that order -- for any number of threads, eUICCs and orders,     *)
(* equal or contradictory ICCIDs, damage, redelivery and failing writes.   *)
(*                                                                         *)
(* The argument follows a notification through its handler.  What the      *)
(* handler learned (whose signature, which order, which ICCID) stays true  *)
(* to its last step because the facts it rests on only grow: eUICCs that   *)
(* signed, eUICCs that authenticated, rows of the orders table.            *)
(***************************************************************************)
EXTENDS SmdpSessionProof

Intact(note) == [note EXCEPT !.form = "intact"]

(* What job j has established, given notifications I signed, eUICCs A      *)
(* authenticated and orders O.                                             *)
JobWitness(j, I, A, O) ==
  /\ j.pc = "auth_bind" => j.card \in A[j.order]
  /\ j.pc \in NotePoints => Intact(j.note) \in I
  /\ /\ j.pc \in {"note_record", "note_state"}
     /\ j.order # NoOrder
     /\ j.note.form # "unreadable"
     => O[j.order].state # "Absent" /\ O[j.order].iccid = j.note.iccid
  /\ (j.pc = "note_record" /\ j.verified) \/ j.pc = "note_state" =>
       /\ j.note \in I
       /\ j.note.kind = "result" => /\ j.order \in OrderIds
                                    /\ j.note.card \in A[j.order]
  /\ j.pc = "note_state" => j.note.kind = "result"

JobsWitnessed == \A t \in Threads : JobWitness(job[t], issued, authed, orders)

CertsAuthenticated ==
  \A o \in OrderIds : orders[o].cert # NoCard => orders[o].cert \in authed[o]

NotesGenuine ==
  /\ pending \subseteq issued
  /\ \A n \in issued : n.form = "intact" /\ n.card \in Cards

RowWitness(r, I, A) ==
  /\ r.verified =>
       /\ r.raw \in I
       /\ r.raw.kind = "result" => /\ r.order \in OrderIds
                                   /\ r.raw.card \in A[r.order]
  /\ r.installed # "null" =>
       /\ r.verified /\ r.raw.kind = "result"
       /\ r.raw.ok <=> r.installed = "yes"

RowsWitnessed == \A r \in notifications : RowWitness(r, issued, authed)

FailureWitness(o, I, A, O) ==
  O[o].state = "Failed" =>
    \E n \in I : /\ n.kind = "result" /\ ~n.ok
                 /\ n.iccid = O[o].iccid
                 /\ n.card \in A[o]

FailuresWitnessed ==
  \A o \in OrderIds : FailureWitness(o, issued, authed, orders)

WitnessInv == /\ JobsWitnessed /\ CertsAuthenticated /\ NotesGenuine
              /\ RowsWitnessed /\ FailuresWitnessed

-----------------------------------------------------------------------------
(* The facts only grow.                                                    *)

Grows ==
  /\ issued \subseteq issued'
  /\ \A o \in OrderIds : authed[o] \subseteq authed'[o]
  /\ \A o \in OrderIds : orders[o].state # "Absent" =>
       orders'[o].state # "Absent" /\ orders'[o].iccid = orders[o].iccid

LEMMA StatementsGrow ==
  ASSUME orders \in [OrderIds -> Order], NEW o \in OrderIds
  PROVE  \A p \in OrderIds :
           /\ \A s \in OrderStates : SetState(o, s) =>
                /\ orders'[p].iccid = orders[p].iccid
                /\ orders'[p].cert = orders[p].cert
                /\ orders'[p].state = IF p = o THEN s ELSE orders[p].state
           /\ \A c \in Cards : BindEuicc(o, c) =>
                /\ orders'[p].iccid = orders[p].iccid
                /\ orders'[p].state = orders[p].state
                /\ orders'[p].cert = IF p = o THEN c ELSE orders[p].cert
BY DEF SetState, BindEuicc, Order

LEMMA JobWitnessGrows ==
  ASSUME TypeInv, Grows, NEW j \in Job, JobOK(j),
         JobWitness(j, issued, authed, orders)
  PROVE  JobWitness(j, issued', authed', orders')
<1>1. j.pc = "auth_bind" => j.order \in OrderIds
  BY DEF JobOK
<1>2. j.order \in OrderIds \cup {NoOrder}
  BY DEF Job
<1>3. QED
  BY <1>1, <1>2 DEF Grows, JobWitness

LEMMA JobWitnessElsewhere ==
  ASSUME NEW j, j.pc \notin {"auth_bind"} \cup NotePoints, NEW I, NEW A, NEW O
  PROVE  JobWitness(j, I, A, O)
BY DEF JobWitness, NotePoints

LEMMA JobsWitnessedStep ==
  ASSUME TypeInv, Grows, JobsWitnessed, NEW t \in Threads, NEW j,
         Becomes(t, j), JobWitness(j, issued', authed', orders')
  PROVE  JobsWitnessed'
<1>1. job'[t] = j /\ \A u \in Threads \ {t} : job'[u] = job[u]
  BY TypeParts, BecomesAt
<1>2. \A u \in Threads : job[u] \in Job /\ JobOK(job[u])
  BY TypeParts DEF JobsOK
<1>3. QED
  BY <1>1, <1>2, JobWitnessGrows DEF JobsWitnessed

LEMMA JobsUnchanged ==
  ASSUME TypeInv, Grows, JobsWitnessed, UNCHANGED job
  PROVE  JobsWitnessed'
<1>1. \A u \in Threads : job[u] \in Job /\ JobOK(job[u])
  BY TypeParts DEF JobsOK
<1>2. QED
  BY <1>1, JobWitnessGrows DEF JobsWitnessed

LEMMA AnswerWitnessed ==
  ASSUME TypeInv, Grows, JobsWitnessed, NEW t \in Threads, NEW r, Answer(t, r)
  PROVE  JobsWitnessed'
<1> DEFINE j == [job[t] EXCEPT !.pc = "reply", !.reply = r,
                              !.known = FALSE, !.verified = FALSE]
<1>1. j.pc = "reply"
  BY TypeParts DEF Job
<1>2. JobWitness(j, issued', authed', orders')
  BY <1>1, JobWitnessElsewhere DEF NotePoints
<1>3. QED
  BY <1>2, JobsWitnessedStep DEF Answer

LEMMA GotoWitnessed ==
  ASSUME TypeInv, Grows, JobsWitnessed, NEW t \in Threads,
         NEW pc, pc \notin {"auth_bind"} \cup NotePoints, Goto(t, pc)
  PROVE  JobsWitnessed'
<1> DEFINE j == [job[t] EXCEPT !.pc = pc]
<1>1. j.pc = pc
  BY TypeParts DEF Job
<1>2. JobWitness(j, issued', authed', orders')
  BY <1>1, JobWitnessElsewhere
<1>3. QED
  BY <1>2, JobsWitnessedStep DEF Goto

(* What follows for the tables when a step leaves them alone, or changes   *)
(* no more of an order than its state.                                     *)
LEMMA RowsUnchanged ==
  ASSUME TypeInv, Grows, RowsWitnessed, UNCHANGED notifications
  PROVE  RowsWitnessed'
BY DEF Grows, RowsWitnessed, RowWitness

LEMMA CertsUnchanged ==
  ASSUME Grows, CertsAuthenticated,
         \A o \in OrderIds : orders'[o].cert = orders[o].cert
  PROVE  CertsAuthenticated'
BY DEF Grows, CertsAuthenticated

LEMMA FailuresUnchanged ==
  ASSUME Grows, FailuresWitnessed,
         \A o \in OrderIds : orders'[o].state = "Failed" =>
                               orders[o].state = "Failed"
  PROVE  FailuresWitnessed'
<1> SUFFICES ASSUME NEW o \in OrderIds, orders'[o].state = "Failed"
             PROVE  \E n \in issued' : /\ n.kind = "result" /\ ~n.ok
                                       /\ n.iccid = orders'[o].iccid
                                       /\ n.card \in authed'[o]
  BY DEF FailuresWitnessed, FailureWitness
<1>1. PICK n \in issued : /\ n.kind = "result" /\ ~n.ok
                          /\ n.iccid = orders[o].iccid
                          /\ n.card \in authed[o]
  BY DEF FailuresWitnessed, FailureWitness
<1>2. QED
  BY <1>1 DEF Grows

LEMMA OrdersUnchanged ==
  ASSUME Grows, CertsAuthenticated, FailuresWitnessed, UNCHANGED orders
  PROVE  CertsAuthenticated' /\ FailuresWitnessed'
BY CertsUnchanged, FailuresUnchanged

LEMMA NotesUnchanged ==
  ASSUME NotesGenuine, UNCHANGED <<pending, issued>>
  PROVE  NotesGenuine'
BY DEF NotesGenuine

-----------------------------------------------------------------------------
LEMMA SignGrows ==
  ASSUME NEW c, NEW kind, NEW iccid, NEW ok, Sign(c, kind, iccid, ok)
  PROVE  issued \subseteq issued'
BY DEF Sign

LEMMA HandlerGrows ==
  ASSUME TypeInv, NEW t \in Threads, Handler(t, Fresh),
         UNCHANGED <<clientVars, mishaps>>
  PROVE  Grows
<1> USE TypeParts
<1>j. job[t] \in Job /\ JobOK(job[t])
  BY DEF JobsOK
<1>i. issued' = issued
  BY DEF clientVars
<1>1. CASE UNCHANGED <<authed, orders>>
  BY <1>i, <1>1 DEF Grows
<1>2. CASE AuthSession(t)
  <2>1. UNCHANGED orders
    BY <1>2 DEF AuthSession, storeVars
  <2>2. \A o \in OrderIds : authed[o] \subseteq authed'[o]
    BY <1>2 DEF AuthSession
  <2>3. QED
    BY <1>i, <2>1, <2>2 DEF Grows
<1>3. ASSUME UNCHANGED authed, job[t].order \in OrderIds,
             NEW s \in OrderStates, SetState(job[t].order, s)
      PROVE  Grows
  <2>1. s # "Absent"
    BY DEF OrderStates
  <2>2. QED
    BY <1>i, <1>3, <2>1, StatementsGrow DEF Grows
<1>4. ASSUME UNCHANGED authed, job[t].order \in OrderIds,
             job[t].card \in Cards, BindEuicc(job[t].order, job[t].card)
      PROVE  Grows
  BY <1>i, <1>4, StatementsGrow DEF Grows
<1>5. CASE AuthBind(t)
  <2>1. job[t].order \in OrderIds /\ job[t].card \in Cards
    BY <1>5, <1>j DEF AuthBind, At, JobOK, AuthPoints
  <2>2. QED
    BY <1>1, <1>4, <1>5, <2>1 DEF AuthBind, OrFault
<1>6. CASE AuthState(t)
  <2>1. job[t].order \in OrderIds
    BY <1>6, <1>j DEF AuthState, At, JobOK
  <2>2. QED
    BY <1>1, <1>3, <1>6, <2>1 DEF AuthState, OrFault, OrderStates
<1>7. CASE BppState(t)
  <2>1. job[t].order \in OrderIds
    BY <1>7, <1>j DEF BppState, At, JobOK
  <2>2. QED
    BY <1>1, <1>3, <1>7, <2>1 DEF BppState, OrFault, OrderStates
<1>8. CASE NoteState(t)
  <2>1. job[t].order \in OrderIds
    BY <1>8, <1>j DEF NoteState, At, JobOK
  <2>2. PICK s \in OrderStates : OrFault("write", SetState(job[t].order, s), orders)
    BY <1>8 DEF NoteState, OrderStates
  <2>3. QED
    BY <1>1, <1>3, <1>8, <2>1, <2>2 DEF NoteState, OrFault
<1>9. QED
  BY <1>1, <1>2, <1>5, <1>6, <1>7, <1>8
     DEF Handler, storeVars, InitInsert, InitFail, AuthList, AuthFail, BppLock,
         BppBuild, BppFail, NoteRead, NoteRecord

LEMMA StepGrows == TypeInv /\ [Next]_vars => Grows
<1> SUFFICES ASSUME TypeInv, [Next]_vars
             PROVE  Grows
  OBVIOUS
<1> USE TypeParts
<1>1. CASE UNCHANGED <<issued, authed, orders>>
  BY <1>1 DEF Grows
<1>2. ASSUME NEW t \in Threads, Work(t)
      PROVE  Grows
  BY <1>2, HandlerGrows DEF Work
<1>3. ASSUME issued \subseteq issued', UNCHANGED <<authed, orders>>
      PROVE  Grows
  BY <1>3 DEF Grows
<1>4. ASSUME NEW t \in Threads, Reply(t)
      PROVE  Grows
  <2>1. issued \subseteq issued'
    BY <1>4, SignGrows DEF Reply, Install, clientVars
  <2>2. QED
    BY <1>3, <1>4, <2>1 DEF Reply, storeVars
<1>5. ASSUME NEW t \in Threads, HangUp(t)
      PROVE  Grows
  BY <1>1, <1>5 DEF HangUp, storeVars
<1>6. ASSUME NEW t \in Threads, NEW c \in Cards, Download(t, c)
      PROVE  Grows
  BY <1>1, <1>6 DEF Download, Initiate, Authenticate, GetBpp, Take,
                    storeVars, clientVars
<1>7. ASSUME NEW t \in Threads, NEW n \in pending, Notify(t, n)
      PROVE  Grows
  BY <1>1, <1>7 DEF Notify, Take, storeVars, clientVars
<1>8. ASSUME NEW c \in Cards, Operate(c)
      PROVE  Grows
  BY <1>3, <1>8, SignGrows DEF Operate, storeVars, serverVars
<1>9. CASE OrderAdd
  <2>1. PICK o \in OrderIds, iccid \in Iccids, profile \in Iccids :
          AddOrder(o, iccid, profile)
    BY <1>9 DEF OrderAdd
  <2>2. \A p \in OrderIds : orders[p].state # "Absent" => orders'[p] = orders[p]
    BY <2>1 DEF AddOrder, Present
  <2>3. QED
    BY <1>9, <2>2 DEF Grows, OrderAdd, serverVars, clientVars
<1>10. ASSUME NEW o \in OrderIds, OrderReset(o)
       PROVE  Grows
  <2>1. \A p \in OrderIds : orders[p].state # "Absent" =>
          orders'[p].state # "Absent" /\ orders'[p].iccid = orders[p].iccid
    BY <1>10, StatementsGrow DEF OrderReset, OrderStates
  <2>2. QED
    BY <1>10, <2>1 DEF Grows, OrderReset
<1>11. CASE Crash
  BY <1>1, <1>11 DEF Crash, storeVars, clientVars
<1>12. CASE UNCHANGED vars
  BY <1>1, <1>12 DEF vars, storeVars, serverVars, clientVars
<1>13. QED
  BY <1>2, <1>4, <1>5, <1>6, <1>7, <1>8, <1>9, <1>10, <1>11, <1>12 DEF Next

-----------------------------------------------------------------------------
(* One step at a time.  "The tables" are all of WitnessInv but the jobs.   *)

TablesWitnessed == /\ CertsAuthenticated /\ NotesGenuine
                   /\ RowsWitnessed /\ FailuresWitnessed

LEMMA TablesUnchanged ==
  ASSUME TypeInv, Grows, TablesWitnessed,
         UNCHANGED <<orders, notifications, pending, issued>>
  PROVE  TablesWitnessed'
BY RowsUnchanged, OrdersUnchanged, NotesUnchanged DEF TablesWitnessed

(* A state other than Failed needs no witness.                             *)
LEMMA StateTables ==
  ASSUME TypeInv, Grows, TablesWitnessed,
         UNCHANGED <<notifications, pending, issued>>,
         NEW o \in OrderIds, NEW s \in OrderStates \ {"Failed"}, SetState(o, s)
  PROVE  TablesWitnessed'
<1>1. \A p \in OrderIds : orders'[p].cert = orders[p].cert
  BY TypeParts, StatementsGrow
<1>2. \A p \in OrderIds : orders'[p].state = "Failed" => orders[p].state = "Failed"
  BY TypeParts, StatementsGrow
<1>3. QED
  BY <1>1, <1>2, RowsUnchanged, CertsUnchanged, FailuresUnchanged,
     NotesUnchanged DEF TablesWitnessed

LEMMA AuthSessionWitness ==
  ASSUME TypeInv, Grows, WitnessInv, NEW t \in Threads, AuthSession(t),
         UNCHANGED <<pending, issued>>
  PROVE  WitnessInv'
<1> USE TypeParts
<1>j. job[t] \in Job /\ job[t].order \in OrderIds /\ job[t].card \in Cards
  BY DEF AuthSession, At, JobsOK, JobOK, AuthPoints
<1>1. job[t].card \in authed'[job[t].order]
  BY <1>j DEF AuthSession
<1>2. ASSUME NEW j, j.pc = "auth_bind", j.card = job[t].card,
             j.order = job[t].order, Becomes(t, j)
      PROVE  JobsWitnessed'
  <2>1. JobWitness(j, issued', authed', orders')
    BY <1>1, <1>2 DEF JobWitness, NotePoints
  <2>2. QED
    BY <1>2, <2>1, JobsWitnessedStep DEF WitnessInv
<1>3. JobsWitnessed'
  <2> DEFINE j == [job[t] EXCEPT !.pc = "auth_bind", !.known = TRUE]
             k == [job[t] EXCEPT !.pc = "auth_bind"]
  <2>1. /\ j.pc = "auth_bind" /\ j.card = job[t].card /\ j.order = job[t].order
        /\ k.pc = "auth_bind" /\ k.card = job[t].card /\ k.order = job[t].order
    BY <1>j DEF Job
  <2>2. CASE Becomes(t, j)
    BY <1>2, <2>1, <2>2
  <2>3. CASE Goto(t, "auth_bind")
    BY <1>2, <2>1, <2>3 DEF Goto
  <2>4. CASE Answer(t, "failed")
    BY <2>4, AnswerWitnessed DEF WitnessInv
  <2>5. QED
    BY <2>2, <2>3, <2>4 DEF AuthSession
<1>4. QED
  BY <1>3, TablesUnchanged DEF AuthSession, storeVars, WitnessInv, TablesWitnessed

LEMMA AuthBindWitness ==
  ASSUME TypeInv, Grows, WitnessInv, NEW t \in Threads, AuthBind(t),
         UNCHANGED <<pending, issued>>
  PROVE  WitnessInv'
<1> USE TypeParts
<1>j. /\ job[t] \in Job /\ job[t].order \in OrderIds /\ job[t].card \in Cards
      /\ job[t].card \in authed[job[t].order]
  BY DEF AuthBind, At, JobsOK, JobOK, AuthPoints, WitnessInv, JobsWitnessed,
         JobWitness
<1>1. JobsWitnessed'
  BY GotoWitnessed DEF AuthBind, WitnessInv, NotePoints
<1>2. CASE UNCHANGED orders
  BY <1>1, <1>2, TablesUnchanged DEF AuthBind, WitnessInv, TablesWitnessed
<1>3. CASE BindEuicc(job[t].order, job[t].card)
  <2>1. /\ \A o \in OrderIds : orders'[o].state = orders[o].state
        /\ \A o \in OrderIds : orders'[o].cert = IF o = job[t].order
                                 THEN job[t].card ELSE orders[o].cert
    BY <1>j, <1>3, StatementsGrow
  <2>2. CertsAuthenticated'
    BY <1>j, <2>1 DEF Grows, WitnessInv, CertsAuthenticated
  <2>3. FailuresWitnessed'
    BY <2>1, FailuresUnchanged DEF WitnessInv
  <2>4. QED
    BY <1>1, <2>2, <2>3, RowsUnchanged, NotesUnchanged DEF AuthBind, WitnessInv
<1>4. QED
  BY <1>2, <1>3 DEF AuthBind, OrFault

LEMMA NoteReadWitness ==
  ASSUME TypeInv, Grows, WitnessInv, NEW t \in Threads, NoteRead(t),
         UNCHANGED <<pending, issued>>
  PROVE  WitnessInv'
<1> USE TypeParts
<1> DEFINE note == job[t].note
           iccid == IF note.form = "unreadable" THEN NoIccid ELSE note.iccid
           cert(o) == IF o = NoOrder THEN NoCard ELSE orders[o].cert
           j(o) == [job[t] EXCEPT !.pc = "note_record", !.order = o,
                                  !.verified = Verifies(note, cert(o))]
<1>1. job[t] \in Job /\ note \in Note /\ Intact(note) \in issued
  BY DEF NoteRead, At, JobsOK, WitnessInv, JobsWitnessed, JobWitness, NotePoints, Job
<1>2. PICK o \in OrderIds \cup {NoOrder} :
        /\ IsOrderByIccid(o, iccid) \/ o = NoOrder
        /\ Becomes(t, j(o))
  BY DEF NoteRead
<1>3. /\ j(o).pc = "note_record" /\ j(o).order = o /\ j(o).note = note
      /\ j(o).verified = Verifies(note, cert(o))
  BY <1>1 DEF Job
<1>4. o # NoOrder /\ note.form # "unreadable" =>
        orders[o].state # "Absent" /\ orders[o].iccid = note.iccid
  <2>1. NoOrder \notin OrderIds
    BY StoreAssumption DEF NoOrder, OrderIds
  <2>2. QED
    BY <1>2, <2>1 DEF IsOrderByIccid, WithIccid, Present
<1>5. Verifies(note, cert(o)) =>
        /\ note \in issued
        /\ note.kind = "result" => o \in OrderIds /\ note.card \in authed[o]
  <2> SUFFICES ASSUME Verifies(note, cert(o))
               PROVE  /\ note \in issued
                      /\ note.kind = "result" =>
                           o \in OrderIds /\ note.card \in authed[o]
    OBVIOUS
  <2>1. note = Intact(note)
    BY <1>1 DEF Verifies, Intact, Note
  <2>2. note \in issued /\ note.card \in Cards
    BY <1>1, <2>1 DEF WitnessInv, NotesGenuine
  <2>3. note.kind = "result" => cert(o) = note.card
    BY DEF Verifies
  <2>4. note.kind = "result" => o # NoOrder /\ orders[o].cert = note.card
    BY <2>2, <2>3, StoreAssumption
  <2>5. QED
    BY <2>2, <2>4, StoreAssumption DEF WitnessInv, CertsAuthenticated
<1>6. JobWitness(j(o), issued, authed, orders)
  BY <1>1, <1>3, <1>4, <1>5 DEF JobWitness, NotePoints
<1>7. JobsWitnessed'
  <2>1. UNCHANGED <<authed, orders>>
    BY DEF NoteRead, storeVars
  <2>2. JobWitness(j(o), issued', authed', orders')
    BY <1>6, <2>1
  <2>3. QED
    BY <1>2, <2>2, JobsWitnessedStep DEF WitnessInv
<1>8. QED
  BY <1>7, TablesUnchanged DEF NoteRead, storeVars, WitnessInv, TablesWitnessed

LEMMA NoteRecordWitness ==
  ASSUME TypeInv, Grows, WitnessInv, NEW t \in Threads, NoteRecord(t),
         UNCHANGED <<pending, issued>>
  PROVE  WitnessInv'
<1> USE TypeParts
<1> DEFINE note == job[t].note
           row == [order |-> job[t].order, raw |-> note,
                   verified |-> job[t].verified, installed |-> Verdict(job[t])]
           j == [job[t] EXCEPT !.pc = "note_state"]
<1>1. /\ job[t] \in Job /\ note \in Note /\ job[t].pc = "note_record"
      /\ JobWitness(job[t], issued, authed, orders)
  BY DEF NoteRecord, At, WitnessInv, JobsWitnessed, Job
<1>2. JobsWitnessed'
  <2>1. CASE Answer(t, "ok")
    BY <2>1, AnswerWitnessed DEF WitnessInv
  <2>2. CASE /\ job[t].verified /\ job[t].order # NoOrder
             /\ note.kind = "result" /\ Goto(t, "note_state")
    <3>1. /\ j.pc = "note_state" /\ j.note = note /\ j.order = job[t].order
      BY <1>1 DEF Job
    <3>2. note.form = "intact"
      BY <1>1, <2>2 DEF JobWitness, WitnessInv, NotesGenuine
    <3>3. JobWitness(j, issued, authed, orders)
      BY <1>1, <2>2, <3>1, <3>2 DEF JobWitness, NotePoints
    <3>4. JobWitness(j, issued', authed', orders')
      BY <3>3 DEF NoteRecord
    <3>5. QED
      BY <2>2, <3>4, JobsWitnessedStep DEF WitnessInv, Goto
  <2>3. QED
    BY <2>1, <2>2 DEF NoteRecord
<1>3. RowsWitnessed'
  <2>1. CASE UNCHANGED notifications
    BY <2>1, RowsUnchanged DEF WitnessInv
  <2>2. CASE RecordNotification(row)
    <3>1. RowWitness(row, issued', authed')
      <4>1. row.verified => row.raw \in issued /\
              (row.raw.kind = "result" => row.order \in OrderIds
                                          /\ row.raw.card \in authed[row.order])
        BY <1>1 DEF JobWitness
      <4>2. row.installed # "null" =>
              /\ row.verified /\ row.raw.kind = "result"
              /\ row.raw.ok <=> row.installed = "yes"
        BY <1>1 DEF Verdict, Job, Note
      <4>3. QED
        BY <4>1, <4>2 DEF RowWitness, NoteRecord
    <3>2. \A r \in notifications : RowWitness(r, issued', authed')
      BY DEF NoteRecord, WitnessInv, RowsWitnessed
    <3>3. QED
      BY <2>2, <3>1, <3>2 DEF RecordNotification, RowsWitnessed
  <2>3. QED
    BY <2>1, <2>2 DEF NoteRecord, OrFault
<1>4. QED
  BY <1>2, <1>3, OrdersUnchanged, NotesUnchanged DEF NoteRecord, WitnessInv

LEMMA NoteStateWitness ==
  ASSUME TypeInv, Grows, WitnessInv, NEW t \in Threads, NoteState(t),
         UNCHANGED <<pending, issued>>
  PROVE  WitnessInv'
<1> USE TypeParts
<1> DEFINE note == job[t].note
           o == job[t].order
           s == IF note.ok THEN "Downloaded" ELSE "Failed"
<1>1. /\ o \in OrderIds /\ o # NoOrder
      /\ JobWitness(job[t], issued, authed, orders)
  BY StoreAssumption DEF NoteState, At, WitnessInv, JobsWitnessed, JobsOK, JobOK,
     OrderIds, NoOrder
<1>2. /\ note \in issued /\ note.card \in authed[o]
      /\ orders[o].iccid = note.iccid /\ note.kind = "result"
  BY <1>1 DEF NoteState, At, JobWitness, WitnessInv, NotesGenuine
<1>3. JobsWitnessed'
  BY AnswerWitnessed DEF NoteState, WitnessInv
<1>4. CASE UNCHANGED orders
  BY <1>3, <1>4, TablesUnchanged DEF NoteState, WitnessInv, TablesWitnessed
<1>5. CASE SetState(o, s)
  <2>0. s \in OrderStates
    BY DEF OrderStates
  <2>1. \A p \in OrderIds : /\ orders'[p].cert = orders[p].cert
                            /\ orders'[p].iccid = orders[p].iccid
                            /\ orders'[p].state = IF p = o THEN s ELSE orders[p].state
    BY <1>1, <1>5, <2>0, StatementsGrow
  <2>2. FailuresWitnessed'
    <3> SUFFICES ASSUME NEW p \in OrderIds, orders'[p].state = "Failed"
                 PROVE  \E n \in issued : /\ n.kind = "result" /\ ~n.ok
                                          /\ n.iccid = orders[p].iccid
                                          /\ n.card \in authed[p]
      BY <2>1 DEF FailuresWitnessed, FailureWitness, NoteState
    <3>1. CASE p = o
      BY <1>2, <2>1, <3>1
    <3>2. CASE p # o
      BY <2>1, <3>2 DEF WitnessInv, FailuresWitnessed, FailureWitness
    <3>3. QED
      BY <3>1, <3>2
  <2>3. CertsAuthenticated'
    BY <2>1, CertsUnchanged DEF WitnessInv
  <2>4. QED
    BY <1>3, <2>2, <2>3, RowsUnchanged, NotesUnchanged DEF NoteState, WitnessInv
<1>6. QED
  BY <1>4, <1>5 DEF NoteState, OrFault

LEMMA WorkWitness ==
  ASSUME TypeInv, Grows, WitnessInv, NEW t \in Threads, Handler(t, Fresh),
         UNCHANGED <<clientVars, mishaps>>
  PROVE  WitnessInv'
<1> USE TypeParts DEF clientVars
<1>j. job[t] \in Job /\ JobOK(job[t]) /\ JobsWitnessed /\ TablesWitnessed
  BY DEF JobsOK, WitnessInv, TablesWitnessed
<1>q. ASSUME JobsWitnessed', TablesWitnessed'
      PROVE  WitnessInv'
  BY <1>q DEF WitnessInv, TablesWitnessed
<1>1. CASE InitInsert(t, Fresh)
  <2>1. PICK tid \in Fresh :
          Becomes(t, [job[t] EXCEPT !.pc = "reply", !.reply = "ok", !.tid = tid])
    BY <1>1 DEF InitInsert
  <2>2. [job[t] EXCEPT !.pc = "reply", !.reply = "ok", !.tid = tid].pc = "reply"
    BY <1>j DEF Job
  <2>3. JobsWitnessed'
    BY <1>j, <2>1, <2>2, JobWitnessElsewhere, JobsWitnessedStep DEF NotePoints
  <2>4. QED
    BY <1>1, <1>j, <1>q, <2>3, TablesUnchanged DEF InitInsert, storeVars
<1>2. ASSUME NEW r, Answer(t, r), UNCHANGED <<orders, notifications>>
      PROVE  WitnessInv'
  BY <1>2, <1>j, <1>q, AnswerWitnessed, TablesUnchanged
<1>3. CASE AuthList(t)
  <2>1. CASE Answer(t, "failed")
    BY <1>2, <1>3, <2>1 DEF AuthList, storeVars
  <2>2. ASSUME NEW o \in OrderIds,
               Becomes(t, [job[t] EXCEPT !.pc = "auth_session", !.order = o])
        PROVE  WitnessInv'
    <3>1. [job[t] EXCEPT !.pc = "auth_session", !.order = o].pc = "auth_session"
      BY <1>j DEF Job
    <3>2. JobsWitnessed'
      BY <1>j, <2>2, <3>1, JobWitnessElsewhere, JobsWitnessedStep DEF NotePoints
    <3>3. QED
      BY <1>3, <1>j, <1>q, <3>2, TablesUnchanged DEF AuthList, storeVars
  <2>3. QED
    BY <1>3, <2>1, <2>2 DEF AuthList
<1>4. CASE AuthSession(t)
  BY <1>4, AuthSessionWitness
<1>5. CASE AuthBind(t)
  BY <1>5, AuthBindWitness
<1>6. ASSUME job[t].order \in OrderIds, NEW s \in OrderStates \ {"Failed"},
             OrFault("write", SetState(job[t].order, s), orders),
             Answer(t, "ok"), UNCHANGED notifications
      PROVE  WitnessInv'
  <2>1. CASE UNCHANGED orders
    BY <1>2, <1>6, <2>1
  <2>2. CASE SetState(job[t].order, s)
    BY <1>6, <1>j, <1>q, <2>2, AnswerWitnessed, StateTables
  <2>3. QED
    BY <1>6, <2>1, <2>2 DEF OrFault
<1>7. CASE AuthState(t)
  BY <1>6, <1>7, <1>j DEF AuthState, At, JobOK, OrderStates
<1>8. CASE BppLock(t)
  <2>1. CASE Answer(t, "failed")
    BY <1>2, <1>8, <2>1 DEF BppLock, storeVars
  <2>2. ASSUME NEW o,
               Becomes(t, [job[t] EXCEPT !.pc = "bpp_build", !.order = o])
        PROVE  WitnessInv'
    <3>1. [job[t] EXCEPT !.pc = "bpp_build", !.order = o].pc = "bpp_build"
      BY <1>j DEF Job
    <3>2. JobsWitnessed'
      BY <1>j, <2>2, <3>1, JobWitnessElsewhere, JobsWitnessedStep DEF NotePoints
    <3>3. QED
      BY <1>8, <1>j, <1>q, <3>2, TablesUnchanged DEF BppLock, storeVars
  <2>3. QED
    BY <1>8, <2>1, <2>2 DEF BppLock
<1>9. CASE BppBuild(t)
  <2>1. JobsWitnessed'
    BY <1>9, <1>j, GotoWitnessed DEF BppBuild, NotePoints
  <2>2. QED
    BY <1>9, <1>j, <1>q, <2>1, TablesUnchanged DEF BppBuild, storeVars
<1>10. CASE BppState(t)
  BY <1>6, <1>10, <1>j DEF BppState, At, JobOK, OrderStates
<1>11. CASE NoteRead(t)
  BY <1>11, NoteReadWitness
<1>12. CASE NoteRecord(t)
  BY <1>12, NoteRecordWitness
<1>13. CASE NoteState(t)
  BY <1>13, NoteStateWitness
<1>14. QED
  BY <1>1, <1>2, <1>3, <1>4, <1>5, <1>7, <1>8, <1>9, <1>10, <1>11, <1>12,
     <1>13 DEF Handler, InitFail, AuthFail, BppFail, storeVars

-----------------------------------------------------------------------------
(* Clients, eUICCs, the command line and crashes.                          *)

LEMMA DownloadWitness ==
  ASSUME TypeInv, Grows, WitnessInv, NEW t \in Threads, NEW c \in Cards,
         Download(t, c)
  PROVE  WitnessInv'
<1>1. ASSUME NEW j, j.pc \notin {"auth_bind"} \cup NotePoints, Take(t, c, j)
      PROVE  WitnessInv'
  <2>1. JobsWitnessed'
    BY <1>1, JobWitnessElsewhere, JobsWitnessedStep DEF Take, WitnessInv
  <2>2. QED
    BY <1>1, <2>1, TablesUnchanged
       DEF Take, storeVars, clientVars, WitnessInv, TablesWitnessed
<1>2. /\ Request(c, "initiate", "init_insert").pc = "init_insert"
      /\ Request(c, "authenticate", "auth_list").pc = "auth_list"
      /\ \A d : [Request(c, "package", "bpp_lock") EXCEPT !.card = d].pc
                  = "bpp_lock"
  BY DEF Request, Idle
<1>3. QED
  BY <1>1, <1>2 DEF Download, Initiate, Authenticate, GetBpp, NotePoints

LEMMA NotifyWitness ==
  ASSUME TypeInv, Grows, WitnessInv, NEW t \in Threads, NEW n \in pending,
         Notify(t, n)
  PROVE  WitnessInv'
<1> USE TypeParts
<1> DEFINE m(form) == [n EXCEPT !.form = form]
           j(form) == [Idle EXCEPT !.pc = "note_read", !.call = "notify",
                                  !.client = n.card, !.card = n.card,
                                  !.note = m(form)]
<1>1. PICK form \in Forms : Take(t, n.card, j(form))
  BY DEF Notify
<1>2. j(form).pc = "note_read" /\ j(form).note = m(form)
  BY DEF Idle
<1>3. Intact(m(form)) = n
  <2>1. n \in Note /\ n.form = "intact"
    BY DEF WitnessInv, NotesGenuine
  <2>2. QED
    BY <2>1 DEF Note, Intact
<1>4. JobWitness(j(form), issued', authed', orders')
  BY <1>1, <1>2, <1>3 DEF JobWitness, WitnessInv, NotesGenuine, Take, clientVars
<1>5. JobsWitnessed'
  BY <1>1, <1>4, JobsWitnessedStep DEF Take, WitnessInv
<1>6. QED
  BY <1>1, <1>5, TablesUnchanged
     DEF Take, storeVars, clientVars, WitnessInv, TablesWitnessed

LEMMA SignWitness ==
  ASSUME NotesGenuine, NEW c \in Cards, NEW kind, NEW iccid, NEW ok,
         Sign(c, kind, iccid, ok)
  PROVE  NotesGenuine'
BY DEF NotesGenuine, Sign

LEMMA TablesSigned ==
  ASSUME TypeInv, Grows, TablesWitnessed, NotesGenuine',
         UNCHANGED <<orders, notifications>>
  PROVE  TablesWitnessed'
BY RowsUnchanged, OrdersUnchanged DEF TablesWitnessed

LEMMA ReplyWitness ==
  ASSUME TypeInv, Grows, WitnessInv, NEW t \in Threads, Reply(t)
  PROVE  WitnessInv'
<1> USE TypeParts
<1>1. JobsWitnessed'
  <2>1. Idle.pc = "idle"
    BY DEF Idle
  <2>2. QED
    BY <2>1, JobWitnessElsewhere, JobsWitnessedStep DEF Reply, WitnessInv, NotePoints
<1>2. NotesGenuine'
  <2>1. CASE UNCHANGED issued /\ pending' \subseteq pending
    BY <2>1 DEF NotesGenuine, WitnessInv
  <2>2. ASSUME job[t].client # NoCard, Install(job[t].client, job[t].order)
        PROVE  NotesGenuine'
    <3>1. job[t].client \in Cards
      BY <2>2 DEF Job
    <3>2. QED
      BY <2>1, <2>2, <3>1, SignWitness DEF Install, WitnessInv
  <2>3. QED
    BY <2>1, <2>2 DEF Reply, clientVars
<1>3. QED
  BY <1>1, <1>2, TablesSigned DEF Reply, storeVars, WitnessInv, TablesWitnessed

LEMMA HangUpWitness ==
  ASSUME TypeInv, Grows, WitnessInv, NEW t \in Threads, HangUp(t)
  PROVE  WitnessInv'
<1> USE TypeParts
<1> DEFINE j == [job[t] EXCEPT !.client = NoCard]
<1>1. /\ job[t] \in Job /\ JobOK(job[t])
      /\ j.pc = job[t].pc /\ j.card = job[t].card /\ j.order = job[t].order
      /\ j.note = job[t].note /\ j.verified = job[t].verified
  BY DEF Job, JobsOK
<1>2. JobWitness(job[t], issued', authed', orders')
  BY <1>1, JobWitnessGrows DEF WitnessInv, JobsWitnessed
<1>3. JobWitness(j, issued', authed', orders')
  BY <1>1, <1>2 DEF JobWitness
<1>4. JobsWitnessed'
  BY <1>3, JobsWitnessedStep DEF HangUp, WitnessInv
<1>5. QED
  BY <1>4, TablesUnchanged DEF HangUp, storeVars, WitnessInv, TablesWitnessed

LEMMA OrderAddWitness ==
  ASSUME TypeInv, Grows, WitnessInv, OrderAdd
  PROVE  WitnessInv'
<1> USE TypeParts
<1>1. PICK o \in OrderIds, iccid \in Iccids, profile \in Iccids :
          AddOrder(o, iccid, profile)
  BY DEF OrderAdd
<1>2. /\ orders'[o].state = "Available" /\ orders'[o].cert = NoCard
      /\ \A p \in OrderIds \ {o} : orders'[p] = orders[p]
  BY <1>1 DEF AddOrder
<1>3. CertsAuthenticated'
  BY <1>2 DEF OrderAdd, serverVars, WitnessInv, CertsAuthenticated
<1>4. FailuresWitnessed'
  BY <1>2, FailuresUnchanged DEF WitnessInv
<1>5. JobsWitnessed'
  BY JobsUnchanged DEF OrderAdd, serverVars, WitnessInv
<1>6. QED
  BY <1>3, <1>4, <1>5, RowsUnchanged, NotesUnchanged
     DEF OrderAdd, clientVars, WitnessInv

LEMMA WitnessStep == TypeInv /\ WitnessInv /\ [Next]_vars => WitnessInv'
<1> SUFFICES ASSUME TypeInv, WitnessInv, [Next]_vars, Grows
             PROVE  WitnessInv'
  BY StepGrows
<1> USE TypeParts
<1>1. ASSUME NEW t \in Threads, Work(t)
      PROVE  WitnessInv'
  BY <1>1, WorkWitness DEF Work
<1>2. ASSUME NEW t \in Threads, Reply(t) \/ HangUp(t)
      PROVE  WitnessInv'
  BY <1>2, ReplyWitness, HangUpWitness
<1>3. ASSUME NEW t \in Threads, NEW c \in Cards, Download(t, c)
      PROVE  WitnessInv'
  BY <1>3, DownloadWitness
<1>4. ASSUME NEW t \in Threads, NEW n \in pending, Notify(t, n)
      PROVE  WitnessInv'
  BY <1>4, NotifyWitness
<1>5. ASSUME NEW c \in Cards, Operate(c)
      PROVE  WitnessInv'
  <2>1. NotesGenuine'
    BY <1>5, SignWitness DEF Operate, WitnessInv
  <2>2. QED
    BY <1>5, <2>1, JobsUnchanged, TablesSigned
       DEF Operate, serverVars, storeVars, WitnessInv, TablesWitnessed
<1>6. CASE OrderAdd
  BY <1>6, OrderAddWitness
<1>7. ASSUME NEW o \in OrderIds, OrderReset(o)
      PROVE  WitnessInv'
  <2>1. TablesWitnessed'
    BY <1>7, StateTables DEF OrderReset, OrderStates, WitnessInv, TablesWitnessed
  <2>2. QED
    BY <1>7, <2>1, JobsUnchanged DEF OrderReset, WitnessInv, TablesWitnessed
<1>8. CASE Crash
  <2>1. JobsWitnessed'
    BY <1>8, JobWitnessElsewhere DEF Crash, JobsWitnessed, Idle, NotePoints
  <2>2. QED
    BY <1>8, <2>1, TablesUnchanged
       DEF Crash, storeVars, clientVars, WitnessInv, TablesWitnessed
<1>9. CASE UNCHANGED vars
  BY <1>9, JobsUnchanged, TablesUnchanged
     DEF vars, storeVars, serverVars, clientVars, WitnessInv, TablesWitnessed
<1>10. QED
  BY <1>1, <1>2, <1>3, <1>4, <1>5, <1>6, <1>7, <1>8, <1>9 DEF Next

LEMMA InitWitness == Init => WitnessInv
BY DEF Init, StoreInit, ServerInit, WitnessInv, JobsWitnessed, JobWitness,
       CertsAuthenticated, NotesGenuine, RowsWitnessed, FailuresWitnessed,
       FailureWitness, Idle, NoRow, NotePoints

THEOREM WitnessInvariant == Spec => []WitnessInv
<1>1. Init => WitnessInv
  BY InitWitness
<1>2. TypeInv /\ WitnessInv /\ [Next]_vars => WitnessInv'
  BY WitnessStep
<1>3. QED
  BY <1>1, <1>2, TypeInvariant, PTL DEF Spec

(* handle_notification marks a row verified, and moves an order to Failed, *)
(* only on the word of an eUICC that signed exactly that and authenticated *)
(* against the order it was matched with.                                  *)
THEOREM VerifiedByOwnEuicc == Spec => []VerifiedByItsOwnEuicc
<1>1. WitnessInv => VerifiedByItsOwnEuicc
  BY DEF WitnessInv, RowsWitnessed, RowWitness, FailuresWitnessed,
         FailureWitness, VerifiedByItsOwnEuicc
<1>2. QED
  BY <1>1, WitnessInvariant, PTL

=============================================================================
