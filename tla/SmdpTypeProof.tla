--------------------------- MODULE SmdpTypeProof ----------------------------
(***************************************************************************)
(* Type correctness of Smdp, for any constants.  TypeOK is not inductive:  *)
(* what a handler may use depends on where it is (a request for a download *)
(* step names a session, a handler past the choice of an order has one),   *)
(* and that is what JobOK adds.                                            *)
(***************************************************************************)
EXTENDS Smdp, TLAPS

AuthPoints == {"auth_list", "auth_session", "auth_bind", "auth_state"}
BppPoints  == {"bpp_lock", "bpp_build", "bpp_state"}
NotePoints == {"note_read", "note_record", "note_state"}

JobOK(j) ==
  /\ j.pc = "init_insert" => j.call = "initiate"
  /\ j.pc \in AuthPoints => j.call = "authenticate" /\ j.card \in Cards
  /\ j.pc \in BppPoints => j.call = "package"
  /\ j.pc \in NotePoints => j.call = "notify"
  /\ j.pc \in AuthPoints \cup BppPoints => j.tid \in Tids
  /\ j.pc \in {"auth_session", "auth_bind", "auth_state", "bpp_build",
               "bpp_state", "note_state"} => j.order \in OrderIds
  /\ j.pc = "reply" /\ j.reply = "ok" /\ j.call = "package" =>
       j.order \in OrderIds
  /\ j.pc = "reply" /\ j.reply = "ok" /\ j.call \in {"initiate", "authenticate"} =>
       j.tid \in Tids

JobsOK == \A t \in Threads : JobOK(job[t])

LpasOK == \A c \in Cards : lpa[c].stage # "idle" => lpa[c].tid \in Tids

TypeInv == TypeOK /\ JobsOK /\ LpasOK

-----------------------------------------------------------------------------
LEMMA RecordTypes ==
  /\ NoSession \in Session /\ NewSession \in Session
  /\ Idle \in Job /\ JobOK(Idle)
  /\ NoRow \in Order /\ NoDownload \in Lpa
BY DEF NoSession, NewSession, Session, Idle, Job, Points, Calls, JobOK,
       AuthPoints, BppPoints, NotePoints, NoNote, Note, NoRow, Order,
       NoDownload, Lpa, Stages

(* The parts of the state, each of which most steps leave alone.           *)
LEMMA TypeParts ==
  ASSUME TypeInv
  PROVE  /\ orders \in [OrderIds -> Order]
         /\ notifications \in SUBSET NotificationRow
         /\ sessions \in [Tids -> Session]
         /\ job \in [Threads -> Job]
         /\ handed \in SUBSET Package
         /\ authed \in [OrderIds -> SUBSET Cards]
         /\ lpa \in [Cards -> Lpa]
         /\ pending \in SUBSET Note
         /\ issued \in SUBSET Note
         /\ received \in SUBSET Package
         /\ mishaps \in 0..MaxMishaps
         /\ JobsOK /\ LpasOK
BY DEF TypeInv, TypeOK, StoreTypeOK, ServerTypeOK

LEMMA TypeFromParts ==
  ASSUME orders' \in [OrderIds -> Order],
         notifications' \in SUBSET NotificationRow,
         sessions' \in [Tids -> Session],
         job' \in [Threads -> Job],
         handed' \in SUBSET Package,
         authed' \in [OrderIds -> SUBSET Cards],
         lpa' \in [Cards -> Lpa],
         pending' \in SUBSET Note,
         issued' \in SUBSET Note,
         received' \in SUBSET Package,
         mishaps' \in 0..MaxMishaps,
         JobsOK', LpasOK'
  PROVE  TypeInv'
BY DEF TypeInv, TypeOK, StoreTypeOK, ServerTypeOK

LEMMA InitType == Init => TypeInv
<1> SUFFICES ASSUME Init PROVE TypeInv
  OBVIOUS
<1>1. StoreTypeOK
  BY RecordTypes DEF Init, StoreInit, StoreTypeOK
<1>2. ServerTypeOK
  BY RecordTypes DEF Init, ServerInit, ServerTypeOK
<1>3. lpa \in [Cards -> Lpa]
  BY RecordTypes DEF Init
<1>4. mishaps \in 0..MaxMishaps
  BY SmdpAssumption DEF Init
<1>5. JobsOK
  BY RecordTypes DEF Init, ServerInit, JobsOK
<1>6. LpasOK
  BY DEF Init, LpasOK, NoDownload
<1>7. QED
  BY <1>1, <1>2, <1>3, <1>4, <1>5, <1>6 DEF Init, TypeInv, TypeOK


-----------------------------------------------------------------------------
(* A step moves one thread's job.                                          *)

LEMMA BecomesType ==
  ASSUME job \in [Threads -> Job], JobsOK, NEW t \in Threads,
         NEW j \in Job, JobOK(j), Becomes(t, j)
  PROVE  job' \in [Threads -> Job] /\ JobsOK'
BY DEF Becomes, JobsOK

LEMMA AnswerFailedType ==
  ASSUME job \in [Threads -> Job], JobsOK, NEW t \in Threads,
         Answer(t, "failed")
  PROVE  job' \in [Threads -> Job] /\ JobsOK'
<1> DEFINE j == [job[t] EXCEPT !.pc = "reply", !.reply = "failed",
                              !.known = FALSE, !.verified = FALSE]
<1>1. j \in Job
  BY DEF Job, Points
<1>2. JobOK(j)
  BY DEF Job, JobOK, AuthPoints, BppPoints, NotePoints
<1>3. QED
  BY <1>1, <1>2, BecomesType DEF Answer

LEMMA AnswerOkType ==
  ASSUME job \in [Threads -> Job], JobsOK, NEW t \in Threads,
         job[t].call = "package" => job[t].order \in OrderIds,
         job[t].call \in {"initiate", "authenticate"} => job[t].tid \in Tids,
         Answer(t, "ok")
  PROVE  job' \in [Threads -> Job] /\ JobsOK'
<1> DEFINE j == [job[t] EXCEPT !.pc = "reply", !.reply = "ok",
                              !.known = FALSE, !.verified = FALSE]
<1>1. j \in Job
  BY DEF Job, Points
<1>2. JobOK(j)
  BY DEF Job, JobOK, AuthPoints, BppPoints, NotePoints
<1>3. QED
  BY <1>1, <1>2, BecomesType DEF Answer

(* What a handler step makes of its own job.                               *)
LEMMA HandlerJobType ==
  ASSUME TypeInv, NEW t \in Threads, Handler(t, Fresh)
  PROVE  job' \in [Threads -> Job] /\ JobsOK'
<1> USE TypeParts
<1>j. job[t] \in Job /\ JobOK(job[t])
  BY DEF JobsOK
<1>1. CASE InitInsert(t, Fresh)
  <2>1. PICK tid \in Fresh :
          Becomes(t, [job[t] EXCEPT !.pc = "reply", !.reply = "ok", !.tid = tid])
    BY <1>1 DEF InitInsert
  <2> DEFINE j == [job[t] EXCEPT !.pc = "reply", !.reply = "ok", !.tid = tid]
  <2>2. tid \in Tids /\ job[t].call = "initiate"
    BY <1>j, <1>1 DEF Fresh, InitInsert, At, JobOK
  <2>3. j \in Job
    BY <1>j, <2>2 DEF Job, Points
  <2>4. JobOK(j)
    BY <1>j, <2>2 DEF Job, JobOK, AuthPoints, BppPoints, NotePoints
  <2>5. QED
    BY <2>1, <2>3, <2>4, BecomesType
<1>2. CASE InitFail(t)
  BY <1>2, AnswerFailedType DEF InitFail
<1>3. CASE AuthList(t)
  <2>1. CASE Answer(t, "failed")
    BY <2>1, AnswerFailedType
  <2>2. ASSUME NEW o \in OrderIds,
               Becomes(t, [job[t] EXCEPT !.pc = "auth_session", !.order = o])
        PROVE  job' \in [Threads -> Job] /\ JobsOK'
    <3> DEFINE j == [job[t] EXCEPT !.pc = "auth_session", !.order = o]
    <3>1. job[t].pc = "auth_list"
      BY <1>3 DEF AuthList, At
    <3>2. j \in Job
      BY <1>j DEF Job, Points
    <3>3. JobOK(j)
      BY <1>j, <3>1 DEF Job, JobOK, AuthPoints, BppPoints, NotePoints
    <3>4. QED
      BY <2>2, <3>2, <3>3, BecomesType
  <2>3. QED
    BY <1>3, <2>1, <2>2 DEF AuthList
<1>4. CASE AuthSession(t)
  <2>1. job[t].pc = "auth_session"
    BY <1>4 DEF AuthSession, At
  <2>2. ASSUME NEW known \in BOOLEAN,
               Becomes(t, [job[t] EXCEPT !.pc = "auth_bind", !.known = known])
        PROVE  job' \in [Threads -> Job] /\ JobsOK'
    <3> DEFINE j == [job[t] EXCEPT !.pc = "auth_bind", !.known = known]
    <3>1. j \in Job
      BY <1>j DEF Job, Points
    <3>2. JobOK(j)
      BY <1>j, <2>1 DEF Job, JobOK, AuthPoints, BppPoints, NotePoints
    <3>3. QED
      BY <2>2, <3>1, <3>2, BecomesType
  <2>3. CASE Goto(t, "auth_bind")
    <3> DEFINE j == [job[t] EXCEPT !.pc = "auth_bind"]
    <3>1. j \in Job
      BY <1>j DEF Job, Points
    <3>2. JobOK(j)
      BY <1>j, <2>1 DEF Job, JobOK, AuthPoints, BppPoints, NotePoints
    <3>3. QED
      BY <2>3, <3>1, <3>2, BecomesType DEF Goto
  <2>4. CASE Answer(t, "failed")
    BY <2>4, AnswerFailedType
  <2>5. QED
    BY <1>4, <2>2, <2>3, <2>4 DEF AuthSession
<1>5. CASE AuthFail(t)
  BY <1>5, AnswerFailedType DEF AuthFail
<1>6. CASE AuthBind(t)
  <2> DEFINE j == [job[t] EXCEPT !.pc = "auth_state"]
  <2>1. job[t].pc = "auth_bind" /\ Becomes(t, j)
    BY <1>6 DEF AuthBind, At, Goto
  <2>2. j \in Job
    BY <1>j DEF Job, Points
  <2>3. JobOK(j)
    BY <1>j, <2>1 DEF Job, JobOK, AuthPoints, BppPoints, NotePoints
  <2>4. QED
    BY <2>1, <2>2, <2>3, BecomesType
<1>7. CASE AuthState(t)
  <2>1. job[t].call = "authenticate" /\ job[t].tid \in Tids
    BY <1>7, <1>j DEF AuthState, At, JobOK, AuthPoints, BppPoints
  <2>2. QED
    BY <1>7, <2>1, AnswerOkType DEF AuthState
<1>8. CASE BppLock(t)
  <2>1. job[t].pc = "bpp_lock" /\ job[t].tid \in Tids
    BY <1>8, <1>j DEF BppLock, At, JobOK, BppPoints, AuthPoints
  <2>2. CASE Answer(t, "failed")
    BY <2>2, AnswerFailedType
  <2>3. CASE sessions[job[t].tid].order # NoOrder
             /\ Becomes(t, [job[t] EXCEPT !.pc = "bpp_build",
                                          !.order = sessions[job[t].tid].order])
    <3> DEFINE o == sessions[job[t].tid].order
               j == [job[t] EXCEPT !.pc = "bpp_build", !.order = o]
    <3>1. o \in OrderIds
      BY <2>1, <2>3 DEF Session
    <3>2. j \in Job
      BY <1>j, <3>1 DEF Job, Points
    <3>3. JobOK(j)
      BY <1>j, <2>1, <3>1 DEF Job, JobOK, AuthPoints, BppPoints, NotePoints
    <3>4. QED
      BY <2>3, <3>2, <3>3, BecomesType
  <2>4. QED
    BY <1>8, <2>2, <2>3 DEF BppLock
<1>9. CASE BppBuild(t)
  <2> DEFINE j == [job[t] EXCEPT !.pc = "bpp_state"]
  <2>1. job[t].pc = "bpp_build" /\ Becomes(t, j)
    BY <1>9 DEF BppBuild, At, Goto
  <2>2. j \in Job
    BY <1>j DEF Job, Points
  <2>3. JobOK(j)
    BY <1>j, <2>1 DEF Job, JobOK, AuthPoints, BppPoints, NotePoints
  <2>4. QED
    BY <2>1, <2>2, <2>3, BecomesType
<1>10. CASE BppFail(t)
  BY <1>10, AnswerFailedType DEF BppFail
<1>11. CASE BppState(t)
  <2>1. job[t].call = "package" /\ job[t].order \in OrderIds
    BY <1>11, <1>j DEF BppState, At, JobOK, BppPoints
  <2>2. QED
    BY <1>11, <2>1, AnswerOkType DEF BppState
<1>12. CASE NoteRead(t)
  <2>1. job[t].pc = "note_read"
    BY <1>12 DEF NoteRead, At
  <2>2. PICK o \in OrderIds \cup {NoOrder}, verified \in BOOLEAN :
          Becomes(t, [job[t] EXCEPT !.pc = "note_record", !.order = o,
                                    !.verified = verified])
    BY <1>12 DEF NoteRead, Verifies
  <2> DEFINE j == [job[t] EXCEPT !.pc = "note_record", !.order = o,
                                !.verified = verified]
  <2>3. j \in Job
    BY <1>j DEF Job, Points
  <2>4. JobOK(j)
    BY <1>j, <2>1 DEF Job, JobOK, AuthPoints, BppPoints, NotePoints
  <2>5. QED
    BY <2>2, <2>3, <2>4, BecomesType
<1>13. CASE NoteRecord(t)
  <2>1. job[t].pc = "note_record" /\ job[t].call = "notify"
    BY <1>13, <1>j DEF NoteRecord, At, JobOK, NotePoints
  <2>2. CASE Answer(t, "ok")
    BY <2>1, <2>2, AnswerOkType
  <2>3. CASE job[t].order # NoOrder /\ Goto(t, "note_state")
    <3> DEFINE j == [job[t] EXCEPT !.pc = "note_state"]
    <3>1. j \in Job
      BY <1>j DEF Job, Points
    <3>2. JobOK(j)
      BY <1>j, <2>1, <2>3 DEF Job, JobOK, AuthPoints, BppPoints, NotePoints
    <3>3. QED
      BY <2>3, <3>1, <3>2, BecomesType DEF Goto
  <2>4. QED
    BY <1>13, <2>2, <2>3 DEF NoteRecord
<1>14. CASE NoteState(t)
  <2>1. job[t].call = "notify"
    BY <1>14, <1>j DEF NoteState, At, JobOK, NotePoints
  <2>2. QED
    BY <1>14, <2>1, AnswerOkType DEF NoteState
<1>15. QED
  BY <1>1, <1>2, <1>3, <1>4, <1>5, <1>6, <1>7, <1>8, <1>9, <1>10, <1>11,
     <1>12, <1>13, <1>14 DEF Handler

-----------------------------------------------------------------------------
(* What a step makes of the data.                                          *)

LEMMA StatementTypes ==
  ASSUME orders \in [OrderIds -> Order], NEW o \in OrderIds
  PROVE  /\ \A s \in OrderStates : SetState(o, s) => orders' \in [OrderIds -> Order]
         /\ \A c \in Cards : BindEuicc(o, c) => orders' \in [OrderIds -> Order]
BY DEF SetState, BindEuicc, Order, OrderStates

LEMMA HandlerDataType ==
  ASSUME TypeInv, NEW t \in Threads, Handler(t, Fresh)
  PROVE  /\ orders' \in [OrderIds -> Order]
         /\ notifications' \in SUBSET NotificationRow
         /\ sessions' \in [Tids -> Session]
         /\ handed' \in SUBSET Package
         /\ authed' \in [OrderIds -> SUBSET Cards]
<1> USE TypeParts
<1>j. job[t] \in Job /\ JobOK(job[t])
  BY DEF JobsOK
<1>1. CASE InitInsert(t, Fresh)
  BY <1>1, RecordTypes DEF InitInsert, storeVars
<1>2. CASE InitFail(t)
  BY <1>2 DEF InitFail, storeVars
<1>3. CASE AuthList(t)
  BY <1>3 DEF AuthList, storeVars
<1>4. CASE AuthSession(t)
  <2>1. job[t].tid \in Tids /\ job[t].card \in Cards /\ job[t].order \in OrderIds
    BY <1>4, <1>j DEF AuthSession, At, JobOK, AuthPoints
  <2>2. sessions' \in [Tids -> Session]
    BY <1>4, <2>1 DEF AuthSession, Session
  <2>3. authed' \in [OrderIds -> SUBSET Cards]
    BY <1>4, <2>1 DEF AuthSession
  <2>4. QED
    BY <1>4, <2>2, <2>3 DEF AuthSession, storeVars
<1>5. CASE AuthFail(t)
  BY <1>5 DEF AuthFail, storeVars
<1>6. CASE AuthBind(t)
  <2>1. job[t].card \in Cards /\ job[t].order \in OrderIds
    BY <1>6, <1>j DEF AuthBind, At, JobOK, AuthPoints
  <2>2. BindEuicc(job[t].order, job[t].card) \/ UNCHANGED orders
    BY <1>6 DEF AuthBind, OrFault
  <2>3. QED
    BY <1>6, <2>1, <2>2, StatementTypes DEF AuthBind
<1>7. CASE AuthState(t)
  <2>1. job[t].order \in OrderIds
    BY <1>7, <1>j DEF AuthState, At, JobOK
  <2>2. SetState(job[t].order, "Bound") \/ UNCHANGED orders
    BY <1>7 DEF AuthState, OrFault
  <2>3. QED
    BY <1>7, <2>1, <2>2, StatementTypes DEF AuthState, OrderStates
<1>8. CASE BppLock(t)
  BY <1>8 DEF BppLock, storeVars
<1>9. CASE BppBuild(t)
  <2>1. job[t].tid \in Tids /\ job[t].order \in OrderIds
    BY <1>9, <1>j DEF BppBuild, At, JobOK, BppPoints, AuthPoints
  <2>2. handed' \in SUBSET Package
    BY <1>9, <2>1 DEF BppBuild, Package, Session
  <2>3. sessions' \in [Tids -> Session]
    BY <1>9, RecordTypes DEF BppBuild
  <2>4. QED
    BY <1>9, <2>2, <2>3 DEF BppBuild, storeVars
<1>10. CASE BppFail(t)
  BY <1>10 DEF BppFail, storeVars
<1>11. CASE BppState(t)
  <2>1. job[t].order \in OrderIds
    BY <1>11, <1>j DEF BppState, At, JobOK
  <2>2. SetState(job[t].order, "Downloaded") \/ UNCHANGED orders
    BY <1>11 DEF BppState, OrFault
  <2>3. QED
    BY <1>11, <2>1, <2>2, StatementTypes DEF BppState, OrderStates
<1>12. CASE NoteRead(t)
  BY <1>12 DEF NoteRead, storeVars
<1>13. CASE NoteRecord(t)
  <2> DEFINE row == [order     |-> job[t].order,
                     raw       |-> job[t].note,
                     verified  |-> job[t].verified,
                     installed |-> Verdict(job[t])]
  <2>1. row \in NotificationRow
    BY <1>j DEF Job, NotificationRow, Verdict
  <2>2. RecordNotification(row) \/ UNCHANGED notifications
    BY <1>13 DEF NoteRecord, OrFault
  <2>3. notifications' \in SUBSET NotificationRow
    BY <2>1, <2>2 DEF RecordNotification
  <2>4. QED
    BY <1>13, <2>3 DEF NoteRecord
<1>14. CASE NoteState(t)
  <2> DEFINE state == IF job[t].note.ok THEN "Downloaded" ELSE "Failed"
  <2>1. job[t].order \in OrderIds /\ state \in OrderStates
    BY <1>14, <1>j DEF NoteState, At, JobOK, OrderStates
  <2>2. SetState(job[t].order, state) \/ UNCHANGED orders
    BY <1>14 DEF NoteState, OrFault
  <2>3. QED
    BY <1>14, <2>1, <2>2, StatementTypes DEF NoteState
<1>15. QED
  BY <1>1, <1>2, <1>3, <1>4, <1>5, <1>6, <1>7, <1>8, <1>9, <1>10, <1>11,
     <1>12, <1>13, <1>14 DEF Handler

LEMMA WorkType ==
  ASSUME TypeInv, NEW t \in Threads, Work(t)
  PROVE  TypeInv'
<1>1. Handler(t, Fresh) /\ UNCHANGED <<clientVars, mishaps>>
  BY DEF Work
<1>2. LpasOK'
  BY <1>1, TypeParts DEF LpasOK, clientVars
<1>3. QED
  BY <1>1, <1>2, TypeParts, HandlerJobType, HandlerDataType, TypeFromParts
  DEF clientVars

-----------------------------------------------------------------------------
(* Clients.                                                                *)

LEMMA TakeType ==
  ASSUME TypeInv, NEW t \in Threads, NEW c, NEW j \in Job, JobOK(j),
         Take(t, c, j)
  PROVE  TypeInv'
<1>1. job' \in [Threads -> Job] /\ JobsOK'
  BY TypeParts, BecomesType DEF Take
<1>2. LpasOK'
  BY TypeParts DEF Take, LpasOK, clientVars
<1>3. QED
  BY <1>1, <1>2, TypeParts, TypeFromParts DEF Take, storeVars, clientVars

LEMMA RequestType ==
  ASSUME TypeInv, NEW c \in Cards
  PROVE  /\ Request(c, "initiate", "init_insert") \in Job
         /\ JobOK(Request(c, "initiate", "init_insert"))
         /\ lpa[c].stage # "idle" =>
              LET a == Request(c, "authenticate", "auth_list")
                  b == Request(c, "package", "bpp_lock")
              IN  /\ a \in Job /\ JobOK(a)
                  /\ \A d \in Cards \cup {NoCard} :
                       /\ [b EXCEPT !.card = d] \in Job
                       /\ JobOK([b EXCEPT !.card = d])
<1>1. lpa[c].tid \in Tids \cup {NoTid} /\ Idle \in Job
  BY TypeParts, RecordTypes DEF Lpa
<1>2. lpa[c].stage # "idle" => lpa[c].tid \in Tids
  BY TypeParts DEF LpasOK
<1>3. QED
  BY <1>1, <1>2 DEF Request, Idle, Job, Points, Calls, JobOK, AuthPoints,
                    BppPoints, NotePoints

LEMMA DownloadType ==
  ASSUME TypeInv, NEW t \in Threads, NEW c \in Cards, Download(t, c)
  PROVE  TypeInv'
<1>1. CASE Initiate(t, c)
  BY <1>1, RequestType, TakeType DEF Initiate
<1>2. CASE Authenticate(t, c)
  BY <1>2, RequestType, TakeType DEF Authenticate
<1>3. CASE GetBpp(t, c)
  <2>1. PICK d \in Cards \cup {NoCard} :
          Take(t, c, [Request(c, "package", "bpp_lock") EXCEPT !.card = d])
    BY <1>3 DEF GetBpp
  <2>2. QED
    BY <1>3, <2>1, RequestType, TakeType DEF GetBpp
<1>4. QED
  BY <1>1, <1>2, <1>3 DEF Download

LEMMA NotifyType ==
  ASSUME TypeInv, NEW t \in Threads, NEW n \in pending, Notify(t, n)
  PROVE  TypeInv'
<1>1. n \in Note
  BY TypeParts
<1>2. PICK form \in Forms :
        Take(t, n.card, [Idle EXCEPT !.pc = "note_read", !.call = "notify",
                                     !.client = n.card, !.card = n.card,
                                     !.note = [n EXCEPT !.form = form]])
  BY DEF Notify
<1> DEFINE j == [Idle EXCEPT !.pc = "note_read", !.call = "notify",
                             !.client = n.card, !.card = n.card,
                             !.note = [n EXCEPT !.form = form]]
<1>3. [n EXCEPT !.form = form] \in Note
  BY <1>1, SmdpAssumption DEF Note
<1>4. j \in Job
  BY <1>1, <1>3, RecordTypes DEF Job, Points, Calls, Note
<1>5. JobOK(j)
  BY DEF Idle, JobOK, AuthPoints, BppPoints, NotePoints
<1>6. QED
  BY <1>2, <1>4, <1>5, TakeType

-----------------------------------------------------------------------------
(* Answers, the eUICCs, the command line and failures.                     *)

LEMMA SignType ==
  ASSUME TypeInv, NEW c \in Cards, NEW kind \in {"result", "other"},
         NEW iccid \in Iccids \cup {NoIccid}, NEW ok \in BOOLEAN,
         Sign(c, kind, iccid, ok)
  PROVE  pending' \in SUBSET Note /\ issued' \in SUBSET Note
<1> DEFINE n == [kind |-> kind, card |-> c, iccid |-> iccid, ok |-> ok,
                 form |-> "intact"]
<1>1. n \in Note
  BY DEF Note
<1>2. issued' = issued \cup {n} /\ pending' = pending \cup {n}
  BY DEF Sign
<1>3. QED
  BY <1>1, <1>2, TypeParts

LEMMA InstallType ==
  ASSUME TypeInv, NEW c \in Cards, NEW o \in OrderIds, Install(c, o)
  PROVE  /\ pending' \in SUBSET Note /\ issued' \in SUBSET Note
         /\ received' \in SUBSET Package
<1>1. orders[o].profile \in Iccids \cup {NoIccid}
  BY TypeParts DEF Order
<1>2. received' \in SUBSET Package
  BY TypeParts DEF Install
<1>3. pending' \in SUBSET Note /\ issued' \in SUBSET Note
  BY <1>1, SignType, TypeParts DEF Install
<1>4. QED
  BY <1>2, <1>3

LEMMA AdvanceType ==
  ASSUME TypeInv, NEW c \in Cards, NEW stage \in Stages,
         NEW tid \in Tids \cup {NoTid}, stage # "idle" => tid \in Tids,
         Advance(c, stage, tid)
  PROVE  lpa' \in [Cards -> Lpa] /\ LpasOK'
BY TypeParts DEF Advance, LpasOK, Lpa

LEMMA RetryOrGiveUpType ==
  ASSUME TypeInv, NEW c \in Cards, RetryOrGiveUp(c)
  PROVE  lpa' \in [Cards -> Lpa] /\ LpasOK'
BY TypeParts, RecordTypes DEF RetryOrGiveUp, LpasOK, Lpa, NoDownload

LEMMA ReplyType ==
  ASSUME TypeInv, NEW t \in Threads, Reply(t)
  PROVE  TypeInv'
<1> USE TypeParts
<1> DEFINE c == job[t].client
<1>j. job[t] \in Job /\ JobOK(job[t]) /\ job[t].pc = "reply"
  BY DEF JobsOK, Reply, At
<1>1. job' \in [Threads -> Job] /\ JobsOK'
  BY RecordTypes, BecomesType DEF Reply
<1>2. /\ lpa' \in [Cards -> Lpa] /\ LpasOK'
      /\ pending' \in SUBSET Note /\ issued' \in SUBSET Note
      /\ received' \in SUBSET Package
  <2>1. CASE c = NoCard /\ UNCHANGED clientVars
    BY <2>1 DEF clientVars, LpasOK
  <2>c. c # NoCard => c \in Cards
    BY <1>j DEF Job
  <2>2. CASE /\ c # NoCard /\ RetryOrGiveUp(c)
             /\ UNCHANGED <<pending, issued, received>>
    BY <2>2, <2>c, RetryOrGiveUpType
  <2>3. CASE /\ c # NoCard /\ job[t].reply = "ok"
             /\ job[t].call \in {"initiate", "authenticate"}
             /\ \/ Advance(c, "initiated", job[t].tid)
                \/ Advance(c, "authenticated", job[t].tid)
             /\ UNCHANGED <<pending, issued, received>>
    <3>1. job[t].tid \in Tids
      BY <2>3, <1>j DEF JobOK
    <3>2. QED
      BY <2>3, <2>c, <3>1, AdvanceType DEF Stages
  <2>4. CASE /\ c # NoCard /\ job[t].reply = "ok" /\ job[t].call = "package"
             /\ Advance(c, "idle", NoTid)
             /\ Install(c, job[t].order)
    <3>1. job[t].order \in OrderIds
      BY <2>4, <1>j DEF JobOK
    <3>2. QED
      BY <2>4, <2>c, <3>1, AdvanceType, InstallType DEF Stages
  <2>5. CASE /\ pending' = pending \ {[job[t].note EXCEPT !.form = "intact"]}
             /\ UNCHANGED <<lpa, issued, received>>
    BY <2>5 DEF LpasOK
  <2>6. QED
    BY <2>1, <2>2, <2>3, <2>4, <2>5 DEF Reply
<1>3. QED
  BY <1>1, <1>2, TypeFromParts DEF Reply, storeVars

LEMMA HangUpType ==
  ASSUME TypeInv, NEW t \in Threads, HangUp(t)
  PROVE  TypeInv'
<1> USE TypeParts
<1> DEFINE j == [job[t] EXCEPT !.client = NoCard]
<1>1. job[t] \in Job /\ JobOK(job[t])
  BY DEF JobsOK
<1>2. j \in Job
  BY <1>1 DEF Job
<1>3. JobOK(j)
  BY <1>1 DEF Job, JobOK
<1>4. job' \in [Threads -> Job] /\ JobsOK'
  BY <1>2, <1>3, BecomesType DEF HangUp
<1>5. job[t].client \in Cards
  BY <1>1 DEF HangUp, Job
<1>6. lpa' \in [Cards -> Lpa] /\ LpasOK'
  BY <1>5, RetryOrGiveUpType DEF HangUp
<1>7. mishaps' \in 0..MaxMishaps
  BY SmdpAssumption DEF HangUp
<1>8. QED
  BY <1>4, <1>6, <1>7, TypeFromParts DEF HangUp, storeVars

LEMMA OperateType ==
  ASSUME TypeInv, NEW c \in Cards, Operate(c)
  PROVE  TypeInv'
<1> USE TypeParts
<1>1. PICK n \in issued : Sign(c, "other", n.iccid, FALSE)
  BY DEF Operate
<1>2. n.iccid \in Iccids \cup {NoIccid}
  BY DEF Note
<1>3. pending' \in SUBSET Note /\ issued' \in SUBSET Note
  BY <1>1, <1>2, SignType
<1>4. JobsOK' /\ LpasOK'
  BY DEF Operate, JobsOK, LpasOK, serverVars
<1>5. QED
  BY <1>3, <1>4, TypeFromParts DEF Operate, serverVars, storeVars

LEMMA OrderAddType ==
  ASSUME TypeInv, OrderAdd
  PROVE  TypeInv'
<1> USE TypeParts
<1>1. PICK o \in OrderIds, profile \in Iccids, iccid \in Iccids :
        AddOrder(o, iccid, profile)
  BY DEF OrderAdd
<1> DEFINE row == [state |-> "Available", iccid |-> iccid,
                   profile |-> profile, cert |-> NoCard]
<1>2. row \in Order
  BY DEF Order, OrderStates
<1>3. orders' = [orders EXCEPT ![o] = row]
  BY <1>1 DEF AddOrder
<1>4. orders' \in [OrderIds -> Order]
  BY <1>2, <1>3
<1>5. JobsOK' /\ LpasOK'
  BY DEF OrderAdd, JobsOK, LpasOK, serverVars, clientVars
<1>6. QED
  BY <1>4, <1>5, TypeFromParts DEF OrderAdd, serverVars, clientVars

LEMMA OrderResetType ==
  ASSUME TypeInv, NEW o \in OrderIds, OrderReset(o)
  PROVE  TypeInv'
<1> USE TypeParts
<1>1. orders' \in [OrderIds -> Order]
  BY StatementTypes DEF OrderReset, OrderStates
<1>2. handed' \in SUBSET Package /\ received' \in SUBSET Package
  BY DEF OrderReset
<1>3. JobsOK' /\ LpasOK'
  BY DEF OrderReset, JobsOK, LpasOK
<1>4. QED
  BY <1>1, <1>2, <1>3, TypeFromParts DEF OrderReset

LEMMA CrashType ==
  ASSUME TypeInv, Crash
  PROVE  TypeInv'
<1> USE TypeParts
<1>1. job' \in [Threads -> Job] /\ JobsOK'
  BY RecordTypes DEF Crash, JobsOK
<1>2. sessions' \in [Tids -> Session]
  BY RecordTypes DEF Crash
<1>3. mishaps' \in 0..MaxMishaps
  BY SmdpAssumption DEF Crash
<1>4. LpasOK'
  BY DEF Crash, LpasOK, clientVars
<1>5. QED
  BY <1>1, <1>2, <1>3, <1>4, TypeFromParts DEF Crash, storeVars, clientVars

-----------------------------------------------------------------------------
LEMMA StepType == TypeInv /\ [Next]_vars => TypeInv'
<1> SUFFICES ASSUME TypeInv, [Next]_vars
             PROVE  TypeInv'
  OBVIOUS
<1>1. ASSUME NEW t \in Threads, Work(t) \/ Reply(t) \/ HangUp(t)
      PROVE  TypeInv'
  BY <1>1, WorkType, ReplyType, HangUpType
<1>2. ASSUME NEW t \in Threads, NEW c \in Cards, Download(t, c)
      PROVE  TypeInv'
  BY <1>2, DownloadType
<1>3. ASSUME NEW t \in Threads, NEW n \in pending, Notify(t, n)
      PROVE  TypeInv'
  BY <1>3, NotifyType
<1>4. ASSUME NEW c \in Cards, Operate(c)
      PROVE  TypeInv'
  BY <1>4, OperateType
<1>5. CASE OrderAdd
  BY <1>5, OrderAddType
<1>6. ASSUME NEW o \in OrderIds, OrderReset(o)
      PROVE  TypeInv'
  BY <1>6, OrderResetType
<1>7. CASE Crash
  BY <1>7, CrashType
<1>8. CASE UNCHANGED vars
  BY <1>8, TypeParts, TypeFromParts
  DEF vars, storeVars, serverVars, clientVars, JobsOK, LpasOK
<1>9. QED
  BY <1>1, <1>2, <1>3, <1>4, <1>5, <1>6, <1>7, <1>8 DEF Next

(* The strengthened invariant, on which every other proof stands: a        *)
(* handler only ever uses a session, an order or an eUICC it has.          *)
THEOREM TypeInvariant == Spec => []TypeInv
<1>1. Init => TypeInv
  BY InitType
<1>2. TypeInv /\ [Next]_vars => TypeInv'
  BY StepType
<1>3. QED
  BY <1>1, <1>2, PTL DEF Spec

(* Every variable has its type, whatever the requests, statements and      *)
(* failures: in particular get_bound_profile_package never builds a        *)
(* package, nor any handler moves an order, without an order.              *)
THEOREM TypeCorrect == Spec => []TypeOK
<1>1. TypeInv => TypeOK
  BY DEF TypeInv
<1>2. QED
  BY <1>1, TypeInvariant, PTL

=============================================================================
