-------------------------- MODULE SmdpSessionProof --------------------------
(***************************************************************************)
(* What the session mutex and the order of the statements under it are     *)
(* worth, for any number of threads, eUICCs and orders, and whatever may   *)
(* fail: a builder has its session to itself, and no package mixes orders. *)
(***************************************************************************)
EXTENDS SmdpTypeProof

(* A session remembers the order whose metadata the library was given, and *)
(* its eUICC authenticated against that order.                             *)
SessionsConsistent ==
  \A s \in Tids : sessions[s].order # NoOrder =>
    /\ sessions[s].meta = sessions[s].order
    /\ sessions[s].card \in authed[sessions[s].order]

SessionInv == BuilderHoldsSession /\ SessionsConsistent /\ PackageConsistent

(* A step that neither touches a session nor lets anybody start building.  *)
Quiet ==
  /\ UNCHANGED <<sessions, authed>>
  /\ handed' \subseteq handed
  /\ \A t \in Threads : job'[t].pc = "bpp_build" =>
       /\ job[t].pc = "bpp_build"
       /\ job'[t].tid = job[t].tid /\ job'[t].order = job[t].order

LEMMA QuietSteps ==
  ASSUME SessionInv, Quiet
  PROVE  SessionInv'
<1>1. BuilderHoldsSession'
  BY DEF SessionInv, BuilderHoldsSession, Quiet, At
<1>2. SessionsConsistent'
  BY DEF SessionInv, SessionsConsistent, Quiet
<1>3. PackageConsistent'
  BY DEF SessionInv, PackageConsistent, Quiet
<1>4. QED
  BY <1>1, <1>2, <1>3 DEF SessionInv

LEMMA BecomesAt ==
  ASSUME job \in [Threads -> Job], NEW t \in Threads, NEW j, Becomes(t, j)
  PROVE  /\ job'[t] = j
         /\ \A u \in Threads \ {t} : job'[u] = job[u]
BY DEF Becomes

(* A job that goes on anywhere but to "bpp_build" disturbs no builder.     *)
LEMMA BecomesQuiet ==
  ASSUME job \in [Threads -> Job], NEW t \in Threads, NEW j, Becomes(t, j),
         j.pc # "bpp_build", UNCHANGED <<sessions, authed>>,
         handed' \subseteq handed
  PROVE  Quiet
BY BecomesAt DEF Quiet

LEMMA GotoQuiet ==
  ASSUME job \in [Threads -> Job], NEW t \in Threads,
         NEW pc \in Points \ {"bpp_build"}, Goto(t, pc),
         UNCHANGED <<sessions, authed, handed>>
  PROVE  Quiet
<1>1. [job[t] EXCEPT !.pc = pc].pc = pc
  BY DEF Job
<1>2. QED
  BY <1>1, BecomesQuiet DEF Goto

LEMMA AnswerQuiet ==
  ASSUME job \in [Threads -> Job], NEW t \in Threads, NEW r, Answer(t, r),
         UNCHANGED <<sessions, authed, handed>>
  PROVE  Quiet
<1> DEFINE j == [job[t] EXCEPT !.pc = "reply", !.reply = r,
                              !.known = FALSE, !.verified = FALSE]
<1>1. j.pc = "reply"
  BY DEF Job
<1>2. QED
  BY <1>1, BecomesQuiet DEF Answer

-----------------------------------------------------------------------------
(* The steps that are not quiet.                                           *)

LEMMA InitInsertSession ==
  ASSUME TypeInv, SessionInv, NEW t \in Threads, InitInsert(t, Fresh)
  PROVE  SessionInv'
<1> USE TypeParts
<1>1. \A u \in Threads : job'[u].pc # "bpp_build"
  <2>1. \A u \in Threads : job[u].pc # "bpp_build"
    BY DEF InitInsert, SessionsFree, At
  <2>2. PICK tid \in Fresh :
          Becomes(t, [job[t] EXCEPT !.pc = "reply", !.reply = "ok", !.tid = tid])
    BY DEF InitInsert
  <2>3. [job[t] EXCEPT !.pc = "reply", !.reply = "ok", !.tid = tid].pc = "reply"
    BY DEF Job
  <2>4. QED
    BY <2>1, <2>2, <2>3, BecomesAt
<1>2. BuilderHoldsSession'
  BY <1>1 DEF BuilderHoldsSession, At
<1>3. SessionsConsistent'
  <2>1. \A s \in Tids : \/ sessions'[s] = sessions[s]
                        \/ sessions'[s] \in {NoSession, NewSession}
    BY DEF InitInsert
  <2>2. NoSession.order = NoOrder /\ NewSession.order = NoOrder
    BY DEF NoSession, NewSession
  <2>3. authed' = authed
    BY DEF InitInsert
  <2>4. QED
    BY <2>1, <2>2, <2>3 DEF SessionInv, SessionsConsistent
<1>4. PackageConsistent'
  BY DEF SessionInv, PackageConsistent, InitInsert
<1>5. QED
  BY <1>2, <1>3, <1>4 DEF SessionInv

LEMMA AuthSessionSession ==
  ASSUME TypeInv, SessionInv, NEW t \in Threads, AuthSession(t)
  PROVE  SessionInv'
<1> USE TypeParts
<1> DEFINE j == job[t]
<1>j. /\ j \in Job /\ j.tid \in Tids /\ j.order \in OrderIds
      /\ j.card \in Cards
  BY DEF JobsOK, JobOK, AuthSession, At, AuthPoints
<1>1. \A u \in Threads : job'[u].pc # "bpp_build"
  <2>1. \A u \in Threads : job[u].pc # "bpp_build"
    BY DEF AuthSession, SessionsFree, At
  <2>2. job'[t].pc \in {"auth_bind", "reply"}
    <3>1. /\ [job[t] EXCEPT !.pc = "auth_bind", !.known = TRUE].pc = "auth_bind"
          /\ [job[t] EXCEPT !.pc = "auth_bind"].pc = "auth_bind"
          /\ [job[t] EXCEPT !.pc = "reply", !.reply = "failed", !.known = FALSE,
                            !.verified = FALSE].pc = "reply"
      BY <1>j DEF Job
    <3>2. QED
      BY <3>1, BecomesAt DEF AuthSession, Goto, Answer
  <2>3. \A u \in Threads \ {t} : job'[u] = job[u]
    BY DEF AuthSession, Becomes, Goto, Answer
  <2>4. QED
    BY <2>1, <2>2, <2>3
<1>2. BuilderHoldsSession'
  BY <1>1 DEF BuilderHoldsSession, At
<1>3. \A o \in OrderIds : authed[o] \subseteq authed'[o]
  BY <1>j DEF AuthSession
<1>4. SessionsConsistent'
  <2>1. /\ sessions'[j.tid].card = j.card /\ sessions'[j.tid].meta = j.order
        /\ sessions'[j.tid].order = j.order
    BY <1>j DEF AuthSession, Session
  <2>2. \A s \in Tids \ {j.tid} : sessions'[s] = sessions[s]
    BY DEF AuthSession
  <2>3. j.card \in authed'[j.order]
    BY <1>j DEF AuthSession
  <2>4. ASSUME NEW s \in Tids \ {j.tid}, sessions'[s].order # NoOrder
        PROVE  /\ sessions'[s].meta = sessions'[s].order
               /\ sessions'[s].card \in authed'[sessions'[s].order]
    <3>1. sessions[s].order \in OrderIds
      BY <2>2, <2>4 DEF Session
    <3>2. QED
      BY <1>3, <2>2, <2>4, <3>1 DEF SessionInv, SessionsConsistent
  <2>5. QED
    BY <2>1, <2>3, <2>4 DEF SessionsConsistent
<1>5. PackageConsistent'
  <2>1. \A p \in handed : p.order \in OrderIds
    BY DEF Package
  <2>2. QED
    BY <1>3, <2>1 DEF SessionInv, PackageConsistent, AuthSession
<1>6. QED
  BY <1>2, <1>4, <1>5 DEF SessionInv

LEMMA BppLockSession ==
  ASSUME TypeInv, SessionInv, NEW t \in Threads, BppLock(t)
  PROVE  SessionInv'
<1> USE TypeParts
<1>0. job[t] \in Job /\ job[t].tid \in Tids
  BY DEF JobsOK, JobOK, BppLock, At, BppPoints, AuthPoints
<1>1. CASE Answer(t, "failed")
  BY <1>1, AnswerQuiet, QuietSteps DEF BppLock
<1>2. CASE LET s == sessions[job[t].tid] IN
             /\ s.open /\ s.order # NoOrder
             /\ Becomes(t, [job[t] EXCEPT !.pc = "bpp_build", !.order = s.order])
  <2> DEFINE s == sessions[job[t].tid]
  <2>1. \A u \in Threads : job[u].pc # "bpp_build"
    BY DEF BppLock, SessionsFree, At
  <2>2. job'[t].tid = job[t].tid /\ job'[t].order = s.order
    <3> DEFINE j == [job[t] EXCEPT !.pc = "bpp_build", !.order = s.order]
    <3>1. j.tid = job[t].tid /\ j.order = s.order
      BY <1>0 DEF Job
    <3>2. job'[t] = j
      BY <1>2, BecomesAt
    <3>3. QED
      BY <3>1, <3>2
  <2>3. \A u \in Threads \ {t} : job'[u] = job[u]
    BY <1>2, BecomesAt
  <2>4. BuilderHoldsSession'
    BY <1>2, <2>1, <2>2, <2>3 DEF BuilderHoldsSession, At, BppLock
  <2>5. SessionsConsistent' /\ PackageConsistent'
    BY DEF SessionInv, SessionsConsistent, PackageConsistent, BppLock
  <2>6. QED
    BY <2>4, <2>5 DEF SessionInv
<1>3. QED
  BY <1>1, <1>2 DEF BppLock

LEMMA BppBuildSession ==
  ASSUME TypeInv, SessionInv, NEW t \in Threads, BppBuild(t)
  PROVE  SessionInv'
<1> USE TypeParts
<1> DEFINE j == job[t]
           s == sessions[j.tid]
           p == [order |-> j.order, meta |-> s.meta, card |-> s.card]
<1>1. /\ j \in Job /\ j.pc = "bpp_build" /\ j.tid \in Tids
      /\ j.order \in OrderIds /\ s.order = j.order
  BY DEF JobsOK, JobOK, BppBuild, At, BppPoints, AuthPoints, SessionInv,
         BuilderHoldsSession
<1>2. s.meta = j.order /\ s.card \in authed[j.order]
  <2>1. NoOrder \notin OrderIds
    BY StoreAssumption DEF NoOrder, OrderIds
  <2>2. QED
    BY <1>1, <2>1 DEF SessionInv, SessionsConsistent
<1>3. PackageConsistent'
  BY <1>2 DEF SessionInv, PackageConsistent, BppBuild
<1>4. SessionsConsistent'
  <2>1. \A r \in Tids : sessions'[r] = NoSession \/ sessions'[r] = sessions[r]
    BY DEF BppBuild
  <2>2. NoSession.order = NoOrder
    BY DEF NoSession
  <2>3. QED
    BY <2>1, <2>2 DEF SessionInv, SessionsConsistent, BppBuild
<1>5. BuilderHoldsSession'
  <2>1. \A u \in Threads \ {t} : job[u].pc # "bpp_build"
    BY <1>1 DEF SessionInv, BuilderHoldsSession, At
  <2>2. job'[t].pc = "bpp_state"
    BY <1>1 DEF BppBuild, Goto, Becomes, Job
  <2>3. \A u \in Threads \ {t} : job'[u] = job[u]
    BY DEF BppBuild, Goto, Becomes
  <2>4. QED
    BY <2>1, <2>2, <2>3 DEF BuilderHoldsSession, At
<1>6. QED
  BY <1>3, <1>4, <1>5 DEF SessionInv

LEMMA CrashSession ==
  ASSUME SessionInv, Crash
  PROVE  SessionInv'
<1>1. BuilderHoldsSession'
  BY DEF Crash, BuilderHoldsSession, At, Idle
<1>2. SessionsConsistent'
  BY DEF Crash, SessionsConsistent, NoSession
<1>3. PackageConsistent'
  BY DEF Crash, SessionInv, PackageConsistent
<1>4. QED
  BY <1>1, <1>2, <1>3 DEF SessionInv

-----------------------------------------------------------------------------
LEMMA WorkSession ==
  ASSUME TypeInv, SessionInv, NEW t \in Threads, Handler(t, Fresh)
  PROVE  SessionInv'
<1> USE TypeParts
<1>1. CASE InitInsert(t, Fresh)
  BY <1>1, InitInsertSession
<1>2. CASE InitFail(t)
  BY <1>2, AnswerQuiet, QuietSteps DEF InitFail
<1>3. CASE AuthList(t)
  <2>1. CASE Answer(t, "failed")
    BY <1>3, <2>1, AnswerQuiet, QuietSteps DEF AuthList
  <2>2. ASSUME NEW o \in OrderIds,
               Becomes(t, [job[t] EXCEPT !.pc = "auth_session", !.order = o])
        PROVE  SessionInv'
    <3>1. [job[t] EXCEPT !.pc = "auth_session", !.order = o].pc = "auth_session"
      BY DEF Job
    <3>2. QED
      BY <1>3, <2>2, <3>1, BecomesQuiet, QuietSteps DEF AuthList
  <2>3. QED
    BY <1>3, <2>1, <2>2 DEF AuthList
<1>4. CASE AuthSession(t)
  BY <1>4, AuthSessionSession
<1>5. CASE AuthFail(t)
  BY <1>5, AnswerQuiet, QuietSteps DEF AuthFail
<1>6. CASE AuthBind(t)
  BY <1>6, GotoQuiet, QuietSteps DEF AuthBind, Points
<1>7. CASE AuthState(t)
  BY <1>7, AnswerQuiet, QuietSteps DEF AuthState
<1>8. CASE BppLock(t)
  BY <1>8, BppLockSession
<1>9. CASE BppBuild(t)
  BY <1>9, BppBuildSession
<1>10. CASE BppFail(t)
  BY <1>10, AnswerQuiet, QuietSteps DEF BppFail
<1>11. CASE BppState(t)
  BY <1>11, AnswerQuiet, QuietSteps DEF BppState
<1>12. CASE NoteRead(t)
  <2>1. PICK o \in OrderIds \cup {NoOrder}, verified \in BOOLEAN :
          Becomes(t, [job[t] EXCEPT !.pc = "note_record", !.order = o,
                                    !.verified = verified])
    BY <1>12 DEF NoteRead, Verifies
  <2>2. [job[t] EXCEPT !.pc = "note_record", !.order = o,
                      !.verified = verified].pc = "note_record"
    BY DEF Job
  <2>3. QED
    BY <1>12, <2>1, <2>2, BecomesQuiet, QuietSteps DEF NoteRead
<1>13. CASE NoteRecord(t)
  BY <1>13, AnswerQuiet, GotoQuiet, QuietSteps DEF NoteRecord, Points
<1>14. CASE NoteState(t)
  BY <1>14, AnswerQuiet, QuietSteps DEF NoteState
<1>15. QED
  BY <1>1, <1>2, <1>3, <1>4, <1>5, <1>6, <1>7, <1>8, <1>9, <1>10, <1>11,
     <1>12, <1>13, <1>14 DEF Handler

(* Nothing a client, an eUICC or the command line does is anything but     *)
(* quiet.                                                                  *)
LEMMA TakeQuiet ==
  ASSUME TypeInv, NEW t \in Threads, NEW c, NEW j, j.pc # "bpp_build",
         Take(t, c, j)
  PROVE  Quiet
BY TypeParts, BecomesQuiet DEF Take

LEMMA DownloadQuiet ==
  ASSUME TypeInv, NEW t \in Threads, NEW c \in Cards, Download(t, c)
  PROVE  Quiet
<1>1. /\ Request(c, "initiate", "init_insert").pc = "init_insert"
      /\ Request(c, "authenticate", "auth_list").pc = "auth_list"
      /\ \A d : [Request(c, "package", "bpp_lock") EXCEPT !.card = d].pc
                  = "bpp_lock"
  BY DEF Request, Idle
<1>2. QED
  BY <1>1, TakeQuiet DEF Download, Initiate, Authenticate, GetBpp

LEMMA NotifyQuiet ==
  ASSUME TypeInv, NEW t \in Threads, NEW n, Notify(t, n)
  PROVE  Quiet
<1> DEFINE j(form) == [Idle EXCEPT !.pc = "note_read", !.call = "notify",
                                  !.client = n.card, !.card = n.card,
                                  !.note = [n EXCEPT !.form = form]]
<1>1. PICK form \in Forms : Take(t, n.card, j(form))
  BY DEF Notify
<1>2. j(form).pc = "note_read"
  BY DEF Idle
<1>3. QED
  BY <1>1, <1>2, TakeQuiet

LEMMA AnswerStepsQuiet ==
  ASSUME TypeInv, NEW t \in Threads, Reply(t) \/ HangUp(t)
  PROVE  Quiet
<1> USE TypeParts
<1>1. CASE Reply(t)
  <2>1. Idle.pc = "idle"
    BY DEF Idle
  <2>2. QED
    BY <1>1, <2>1, BecomesQuiet DEF Reply
<1>2. CASE HangUp(t)
  <2> DEFINE j == [job[t] EXCEPT !.client = NoCard]
  <2>1. j.pc = job[t].pc /\ j.tid = job[t].tid /\ j.order = job[t].order
    BY DEF Job
  <2>2. job'[t] = j /\ \A u \in Threads \ {t} : job'[u] = job[u]
    BY <1>2, BecomesAt DEF HangUp
  <2>3. QED
    BY <1>2, <2>1, <2>2 DEF HangUp, Quiet
<1>3. QED
  BY <1>1, <1>2

LEMMA SessionStep == TypeInv /\ SessionInv /\ [Next]_vars => SessionInv'
<1> SUFFICES ASSUME TypeInv, SessionInv, [Next]_vars
             PROVE  SessionInv'
  OBVIOUS
<1>1. ASSUME NEW t \in Threads, Work(t)
      PROVE  SessionInv'
  BY <1>1, WorkSession DEF Work
<1>2. ASSUME NEW t \in Threads, Reply(t) \/ HangUp(t)
      PROVE  SessionInv'
  BY <1>2, AnswerStepsQuiet, QuietSteps
<1>3. ASSUME NEW t \in Threads, NEW c \in Cards, Download(t, c)
      PROVE  SessionInv'
  BY <1>3, DownloadQuiet, QuietSteps
<1>4. ASSUME NEW t \in Threads, NEW n \in pending, Notify(t, n)
      PROVE  SessionInv'
  BY <1>4, NotifyQuiet, QuietSteps
<1>5. ASSUME NEW c \in Cards, Operate(c)
      PROVE  SessionInv'
  BY <1>5, QuietSteps DEF Operate, Quiet, serverVars
<1>6. CASE OrderAdd
  BY <1>6, QuietSteps DEF OrderAdd, Quiet, serverVars
<1>7. ASSUME NEW o \in OrderIds, OrderReset(o)
      PROVE  SessionInv'
  BY <1>7, QuietSteps DEF OrderReset, Quiet
<1>8. CASE Crash
  BY <1>8, CrashSession
<1>9. CASE UNCHANGED vars
  BY <1>9, QuietSteps DEF Quiet, vars, serverVars
<1>10. QED
  BY <1>1, <1>2, <1>3, <1>4, <1>5, <1>6, <1>7, <1>8, <1>9 DEF Next

LEMMA InitSession == Init => SessionInv
BY DEF Init, ServerInit, SessionInv, BuilderHoldsSession, SessionsConsistent,
       PackageConsistent, At, Idle, NoSession

THEOREM SessionInvariant == Spec => []SessionInv
<1>1. Init => SessionInv
  BY InitSession
<1>2. TypeInv /\ SessionInv /\ [Next]_vars => SessionInv'
  BY SessionStep
<1>3. QED
  BY <1>1, <1>2, TypeInvariant, PTL DEF Spec

(* No package mixes two orders: the UPP get_bound_profile_package reads    *)
(* and the metadata AuthenticateClient gave the library are the same       *)
(* order's, against which the package's eUICC authenticated.               *)
THEOREM PackagesConsistent == Spec => []PackageConsistent
<1>1. SessionInv => PackageConsistent
  BY DEF SessionInv
<1>2. QED
  BY <1>1, SessionInvariant, PTL

(* The session mutex, held across the store read, leaves a builder's       *)
(* session as it was looked up, on any number of threads.                  *)
THEOREM BuildersHoldSessions == Spec => []BuilderHoldsSession
<1>1. SessionInv => BuilderHoldsSession
  BY DEF SessionInv
<1>2. QED
  BY <1>1, SessionInvariant, PTL

=============================================================================
