-------------------------- MODULE SmdpFilingProof ---------------------------
(***************************************************************************)
(* Every notification an eUICC signed is still on the eUICC or in the      *)
(* table, as long as the store takes what it is given and what arrives can *)
(* be read: on any number of threads, through damage, lost answers,        *)
(* redelivery and crashes.                                                 *)
(*                                                                         *)
(* The two hypotheses are needed: handle_notification drops the error of   *)
(* its INSERT, keeps nothing it cannot read, and says 204 to both.         *)
(***************************************************************************)
EXTENDS SmdpNotificationProof

Reliable == "write" \notin Faults /\ "unreadable" \notin Forms

Filed(n, N) == \E r \in N : Intact(r.raw) = n

(* What job j relies on, given rows N: it handles a notification that can  *)
(* be read, and once past the INSERT there is a row of it.                 *)
JobFiled(j, N) ==
  /\ j.pc \in NotePoints => j.note.form # "unreadable"
  /\ \/ j.pc = "note_state"
     \/ j.pc = "reply" /\ j.call = "notify"
     => Filed(Intact(j.note), N)

JobsFiled == \A t \in Threads : JobFiled(job[t], notifications)

FilingInv == JobsFiled /\ NoNotificationLost

-----------------------------------------------------------------------------
LEMMA FiledGrows ==
  ASSUME NEW N, NEW M, N \subseteq M
  PROVE  /\ \A n : Filed(n, N) => Filed(n, M)
         /\ \A j : JobFiled(j, N) => JobFiled(j, M)
BY DEF Filed, JobFiled

LEMMA JobsFiledStep ==
  ASSUME TypeInv, JobsFiled, notifications \subseteq notifications',
         NEW t \in Threads, NEW j, Becomes(t, j), JobFiled(j, notifications')
  PROVE  JobsFiled'
<1>1. job'[t] = j /\ \A u \in Threads \ {t} : job'[u] = job[u]
  BY TypeParts, BecomesAt
<1>2. \A u \in Threads : JobFiled(job[u], notifications')
  BY FiledGrows DEF JobsFiled
<1>3. QED
  BY <1>1, <1>2 DEF JobsFiled

LEMMA JobsFiledUnchanged ==
  ASSUME JobsFiled, UNCHANGED job, notifications \subseteq notifications'
  PROVE  JobsFiled'
<1>1. \A u \in Threads : JobFiled(job[u], notifications')
  BY FiledGrows DEF JobsFiled
<1>2. QED
  BY <1>1 DEF JobsFiled

LEMMA NothingLostStep ==
  ASSUME NoNotificationLost, notifications \subseteq notifications',
         UNCHANGED <<pending, issued>>
  PROVE  NoNotificationLost'
BY DEF NoNotificationLost

LEMMA AnswerFiled ==
  ASSUME TypeInv, JobsFiled, notifications \subseteq notifications',
         NEW t \in Threads, NEW r, Answer(t, r),
         job[t].call = "notify" => Filed(Intact(job[t].note), notifications')
  PROVE  JobsFiled'
<1> DEFINE j == [job[t] EXCEPT !.pc = "reply", !.reply = r,
                              !.known = FALSE, !.verified = FALSE]
<1>1. j.pc = "reply" /\ j.call = job[t].call /\ j.note = job[t].note
  BY TypeParts DEF Job
<1>2. JobFiled(j, notifications')
  BY <1>1 DEF JobFiled, NotePoints
<1>3. QED
  BY <1>2, JobsFiledStep DEF Answer

(* A job at a point of another handler, or that goes on to one.            *)
LEMMA ElsewhereFiled ==
  ASSUME TypeInv, JobsFiled, notifications \subseteq notifications',
         NEW t \in Threads, NEW j, Becomes(t, j),
         j.pc \notin NotePoints, j.pc = "reply" => j.call # "notify"
  PROVE  JobsFiled'
<1>1. JobFiled(j, notifications')
  BY DEF JobFiled, NotePoints
<1>2. QED
  BY <1>1, JobsFiledStep

LEMMA GotoFiled ==
  ASSUME TypeInv, JobsFiled, notifications \subseteq notifications',
         NEW t \in Threads, NEW pc, pc \notin {"reply"} \cup NotePoints,
         Goto(t, pc)
  PROVE  JobsFiled'
<1>1. [job[t] EXCEPT !.pc = pc].pc = pc
  BY TypeParts DEF Job
<1>2. QED
  BY <1>1, ElsewhereFiled DEF Goto

-----------------------------------------------------------------------------
LEMMA NoteRecordFiled ==
  ASSUME TypeInv, JobsFiled, Reliable, NEW t \in Threads, NoteRecord(t)
  PROVE  JobsFiled' /\ notifications \subseteq notifications'
<1> USE TypeParts
<1> DEFINE note == job[t].note
           row == [order |-> job[t].order, raw |-> note,
                   verified |-> job[t].verified, installed |-> Verdict(job[t])]
           j == [job[t] EXCEPT !.pc = "note_state"]
<1>1. note.form # "unreadable"
  BY DEF NoteRecord, At, JobsFiled, JobFiled, NotePoints
<1>2. notifications' = notifications \cup {row}
  BY <1>1 DEF NoteRecord, OrFault, RecordNotification, Reliable
<1>3. Filed(Intact(note), notifications')
  <2>1. row.raw = note
    OBVIOUS
  <2>2. QED
    BY <1>2, <2>1 DEF Filed
<1>4. CASE Answer(t, "ok")
  BY <1>2, <1>3, <1>4, AnswerFiled
<1>5. CASE Goto(t, "note_state")
  <2>1. j.pc = "note_state" /\ j.note = note
    BY DEF Job
  <2>2. JobFiled(j, notifications')
    BY <1>1, <1>3, <2>1 DEF JobFiled
  <2>3. QED
    BY <1>2, <1>5, <2>2, JobsFiledStep DEF Goto
<1>6. QED
  BY <1>2, <1>4, <1>5 DEF NoteRecord

LEMMA WorkFiled ==
  ASSUME TypeInv, JobsFiled, Reliable, NEW t \in Threads, Handler(t, Fresh)
  PROVE  JobsFiled' /\ notifications \subseteq notifications'
<1> USE TypeParts
<1>j. job[t] \in Job /\ JobOK(job[t])
  BY DEF JobsOK
<1>1. CASE InitInsert(t, Fresh)
  <2>1. PICK tid \in Fresh :
          Becomes(t, [job[t] EXCEPT !.pc = "reply", !.reply = "ok", !.tid = tid])
    BY <1>1 DEF InitInsert
  <2>2. /\ [job[t] EXCEPT !.pc = "reply", !.reply = "ok", !.tid = tid].pc = "reply"
        /\ [job[t] EXCEPT !.pc = "reply", !.reply = "ok", !.tid = tid].call = job[t].call
    BY <1>j DEF Job
  <2>3. job[t].call = "initiate"
    BY <1>1, <1>j DEF InitInsert, At, JobOK
  <2>4. QED
    BY <1>1, <2>1, <2>2, <2>3, ElsewhereFiled DEF InitInsert, storeVars, NotePoints
<1>2. ASSUME NEW r, Answer(t, r), job[t].call # "notify",
             UNCHANGED notifications
      PROVE  JobsFiled' /\ notifications \subseteq notifications'
  BY <1>2, AnswerFiled
<1>3. CASE InitFail(t)
  BY <1>2, <1>3, <1>j DEF InitFail, At, JobOK, storeVars
<1>4. CASE AuthList(t)
  <2>1. CASE Answer(t, "failed")
    BY <1>2, <1>4, <1>j, <2>1 DEF AuthList, At, JobOK, AuthPoints, storeVars
  <2>2. ASSUME NEW o,
               Becomes(t, [job[t] EXCEPT !.pc = "auth_session", !.order = o])
        PROVE  JobsFiled' /\ notifications \subseteq notifications'
    <3>1. [job[t] EXCEPT !.pc = "auth_session", !.order = o].pc = "auth_session"
      BY <1>j DEF Job
    <3>2. QED
      BY <1>4, <2>2, <3>1, ElsewhereFiled DEF AuthList, storeVars, NotePoints
  <2>3. QED
    BY <1>4, <2>1, <2>2 DEF AuthList
<1>5. CASE AuthSession(t)
  <2>1. CASE Answer(t, "failed")
    BY <1>2, <1>5, <1>j, <2>1 DEF AuthSession, At, JobOK, AuthPoints, storeVars
  <2>2. CASE Goto(t, "auth_bind")
    BY <1>5, <2>2, GotoFiled DEF AuthSession, storeVars, NotePoints
  <2>3. CASE Becomes(t, [job[t] EXCEPT !.pc = "auth_bind", !.known = TRUE])
    <3>1. [job[t] EXCEPT !.pc = "auth_bind", !.known = TRUE].pc = "auth_bind"
      BY <1>j DEF Job
    <3>2. QED
      BY <1>5, <2>3, <3>1, ElsewhereFiled DEF AuthSession, storeVars, NotePoints
  <2>4. QED
    BY <1>5, <2>1, <2>2, <2>3 DEF AuthSession
<1>6. CASE AuthFail(t) \/ AuthState(t)
  BY <1>2, <1>6, <1>j DEF AuthFail, AuthState, At, JobOK, AuthPoints, storeVars
<1>7. CASE AuthBind(t)
  BY <1>7, GotoFiled DEF AuthBind, NotePoints
<1>8. CASE BppLock(t)
  <2>1. CASE Answer(t, "failed")
    BY <1>2, <1>8, <1>j, <2>1 DEF BppLock, At, JobOK, BppPoints, storeVars
  <2>2. ASSUME NEW o,
               Becomes(t, [job[t] EXCEPT !.pc = "bpp_build", !.order = o])
        PROVE  JobsFiled' /\ notifications \subseteq notifications'
    <3>1. [job[t] EXCEPT !.pc = "bpp_build", !.order = o].pc = "bpp_build"
      BY <1>j DEF Job
    <3>2. QED
      BY <1>8, <2>2, <3>1, ElsewhereFiled DEF BppLock, storeVars, NotePoints
  <2>3. QED
    BY <1>8, <2>1, <2>2 DEF BppLock
<1>9. CASE BppBuild(t)
  BY <1>9, GotoFiled DEF BppBuild, storeVars, NotePoints
<1>10. CASE BppFail(t) \/ BppState(t)
  BY <1>2, <1>10, <1>j DEF BppFail, BppState, At, JobOK, BppPoints, storeVars
<1>11. CASE NoteRead(t)
  <2>1. PICK o \in OrderIds \cup {NoOrder}, verified \in BOOLEAN :
          Becomes(t, [job[t] EXCEPT !.pc = "note_record", !.order = o,
                                    !.verified = verified])
    BY <1>11 DEF NoteRead, Verifies
  <2> DEFINE j == [job[t] EXCEPT !.pc = "note_record", !.order = o,
                                !.verified = verified]
  <2>2. j.pc = "note_record" /\ j.note = job[t].note
    BY <1>j DEF Job
  <2>3. job[t].note.form # "unreadable"
    BY <1>11 DEF NoteRead, At, JobsFiled, JobFiled, NotePoints
  <2>4. JobFiled(j, notifications')
    BY <2>2, <2>3 DEF JobFiled
  <2>5. QED
    BY <1>11, <2>1, <2>4, JobsFiledStep DEF NoteRead, storeVars
<1>12. CASE NoteRecord(t)
  BY <1>12, NoteRecordFiled
<1>13. CASE NoteState(t)
  <2>1. Filed(Intact(job[t].note), notifications)
    BY <1>13 DEF NoteState, At, JobsFiled, JobFiled
  <2>2. QED
    BY <1>13, <2>1, AnswerFiled DEF NoteState
<1>14. QED
  BY <1>1, <1>3, <1>4, <1>5, <1>6, <1>7, <1>8, <1>9, <1>10, <1>11, <1>12,
     <1>13 DEF Handler

LEMMA DownloadFiled ==
  ASSUME TypeInv, FilingInv, NEW t \in Threads, NEW c \in Cards, Download(t, c)
  PROVE  FilingInv'
<1>1. ASSUME NEW j, j.pc \notin {"reply"} \cup NotePoints, Take(t, c, j)
      PROVE  FilingInv'
  BY <1>1, ElsewhereFiled, NothingLostStep
     DEF FilingInv, Take, storeVars, clientVars
<1>2. /\ Request(c, "initiate", "init_insert").pc = "init_insert"
      /\ Request(c, "authenticate", "auth_list").pc = "auth_list"
      /\ \A d : [Request(c, "package", "bpp_lock") EXCEPT !.card = d].pc
                  = "bpp_lock"
  BY DEF Request, Idle
<1>3. QED
  BY <1>1, <1>2 DEF Download, Initiate, Authenticate, GetBpp, NotePoints

LEMMA NotifyFiled ==
  ASSUME TypeInv, FilingInv, Reliable, NEW t \in Threads, NEW n \in pending,
         Notify(t, n)
  PROVE  FilingInv'
<1> USE TypeParts
<1> DEFINE m(form) == [n EXCEPT !.form = form]
           j(form) == [Idle EXCEPT !.pc = "note_read", !.call = "notify",
                                  !.client = n.card, !.card = n.card,
                                  !.note = m(form)]
<1>1. PICK form \in Forms : Take(t, n.card, j(form))
  BY DEF Notify
<1>2. j(form).pc = "note_read" /\ j(form).note = m(form)
  BY DEF Idle
<1>3. m(form).form # "unreadable"
  <2>1. n \in Note
    OBVIOUS
  <2>2. m(form).form = form
    BY <2>1 DEF Note
  <2>3. QED
    BY <2>2 DEF Reliable
<1>4. JobFiled(j(form), notifications')
  BY <1>2, <1>3 DEF JobFiled
<1>5. QED
  BY <1>1, <1>4, JobsFiledStep, NothingLostStep
     DEF FilingInv, Take, storeVars, clientVars

(* An answer to a notification is the one step that lets go of one, and    *)
(* signing the one that adds one.                                          *)
LEMMA ReplyFiled ==
  ASSUME TypeInv, FilingInv, NEW t \in Threads, Reply(t)
  PROVE  FilingInv'
<1> USE TypeParts
<1>1. UNCHANGED notifications
  BY DEF Reply, storeVars
<1>2. JobsFiled'
  <2>1. Idle.pc = "idle"
    BY DEF Idle
  <2>2. QED
    BY <1>1, <2>1, ElsewhereFiled DEF Reply, FilingInv, NotePoints
<1>3. NoNotificationLost'
  <2>1. CASE UNCHANGED <<pending, issued>>
    BY <1>1, <2>1, NothingLostStep DEF FilingInv
  <2>2. ASSUME NEW c, NEW o, Install(c, o)
        PROVE  NoNotificationLost'
    BY <1>1, <2>1, <2>2 DEF Install, Sign, FilingInv, NoNotificationLost
  <2>3. CASE /\ job[t].call = "notify"
             /\ pending' = pending \ {[job[t].note EXCEPT !.form = "intact"]}
             /\ UNCHANGED issued
    <3>1. Filed(Intact(job[t].note), notifications)
      BY <2>3 DEF Reply, At, FilingInv, JobsFiled, JobFiled
    <3>2. QED
      BY <1>1, <2>3, <3>1 DEF Filed, Intact, FilingInv, NoNotificationLost
  <2>4. QED
    BY <2>1, <2>2, <2>3 DEF Reply, clientVars
<1>4. QED
  BY <1>2, <1>3 DEF FilingInv

LEMMA HangUpFiled ==
  ASSUME TypeInv, FilingInv, NEW t \in Threads, HangUp(t)
  PROVE  FilingInv'
<1> USE TypeParts
<1> DEFINE j == [job[t] EXCEPT !.client = NoCard]
<1>1. j.pc = job[t].pc /\ j.call = job[t].call /\ j.note = job[t].note
  BY DEF Job
<1>2. UNCHANGED notifications
  BY DEF HangUp, storeVars
<1>3. JobFiled(j, notifications')
  BY <1>1, <1>2 DEF FilingInv, JobsFiled, JobFiled
<1>4. QED
  BY <1>2, <1>3, JobsFiledStep, NothingLostStep DEF HangUp, FilingInv

LEMMA FilingStep ==
  ASSUME Reliable
  PROVE  TypeInv /\ FilingInv /\ [Next]_vars => FilingInv'
<1> SUFFICES ASSUME TypeInv, FilingInv, [Next]_vars
             PROVE  FilingInv'
  OBVIOUS
<1>q. ASSUME UNCHANGED <<job, notifications, pending, issued>>
      PROVE  FilingInv'
  BY <1>q, JobsFiledUnchanged, NothingLostStep DEF FilingInv
<1>1. ASSUME NEW t \in Threads, Work(t)
      PROVE  FilingInv'
  BY <1>1, WorkFiled, NothingLostStep DEF Work, clientVars, FilingInv
<1>2. ASSUME NEW t \in Threads, Reply(t) \/ HangUp(t)
      PROVE  FilingInv'
  BY <1>2, ReplyFiled, HangUpFiled
<1>3. ASSUME NEW t \in Threads, NEW c \in Cards, Download(t, c)
      PROVE  FilingInv'
  BY <1>3, DownloadFiled
<1>4. ASSUME NEW t \in Threads, NEW n \in pending, Notify(t, n)
      PROVE  FilingInv'
  BY <1>4, NotifyFiled
<1>5. ASSUME NEW c \in Cards, Operate(c)
      PROVE  FilingInv'
  <2>1. JobsFiled'
    BY <1>5, JobsFiledUnchanged DEF Operate, serverVars, storeVars, FilingInv
  <2>2. NoNotificationLost'
    BY <1>5 DEF Operate, Sign, storeVars, FilingInv, NoNotificationLost
  <2>3. QED
    BY <2>1, <2>2 DEF FilingInv
<1>6. CASE OrderAdd
  BY <1>6, <1>q DEF OrderAdd, serverVars, clientVars
<1>7. ASSUME NEW o \in OrderIds, OrderReset(o)
      PROVE  FilingInv'
  BY <1>7, <1>q DEF OrderReset
<1>8. CASE Crash
  <2>1. JobsFiled'
    BY <1>8 DEF Crash, JobsFiled, JobFiled, Idle, NotePoints
  <2>2. QED
    BY <1>8, <2>1, NothingLostStep DEF Crash, storeVars, clientVars, FilingInv
<1>9. CASE UNCHANGED vars
  BY <1>9, <1>q DEF vars, storeVars, serverVars, clientVars
<1>10. QED
  BY <1>1, <1>2, <1>3, <1>4, <1>5, <1>6, <1>7, <1>8, <1>9 DEF Next

LEMMA InitFiling == Init => FilingInv
BY DEF Init, ServerInit, FilingInv, JobsFiled, JobFiled, NoNotificationLost,
       Idle, NotePoints

(* With a store that takes what it is given and notifications that can be  *)
(* read, handle_notification's 204 never lets go of the only copy.         *)
THEOREM NothingIsLost ==
  ASSUME Reliable
  PROVE  Spec => []NoNotificationLost
<1>1. Init => FilingInv
  BY InitFiling
<1>2. TypeInv /\ FilingInv /\ [Next]_vars => FilingInv'
  BY FilingStep
<1>3. FilingInv => NoNotificationLost
  BY DEF FilingInv
<1>4. QED
  BY <1>1, <1>2, <1>3, TypeInvariant, PTL DEF Spec

=============================================================================
