-------------------------- MODULE SmdpSerialProof ---------------------------
(***************************************************************************)
(* What the one thread of `smdp serve` is worth: the state of an order, as *)
(* authenticate_client found it in the list, still allows the Bound it     *)
(* writes two critical sections later, although the command line changes   *)
(* orders meanwhile and the process may die in between; and by the time    *)
(* the state is written, the order names the eUICC it is bound to.         *)
(***************************************************************************)
EXTENDS SmdpFilingProof

OneThread == \A t, u \in Threads : t = u

Offering == {"auth_session", "auth_bind", "auth_state"}

(* The order a job is about to bind is still one on offer.                 *)
JobOffers(j, O) ==
  j.pc \in Offering => O[j.order].state \in {"Available", "Bound"}

OfferInv == \A t \in Threads : JobOffers(job[t], orders)

-----------------------------------------------------------------------------
LEMMA OnlyJob ==
  ASSUME OneThread, TypeInv, NEW t \in Threads, NEW j, Becomes(t, j)
  PROVE  \A u \in Threads : job'[u] = j
BY TypeParts, BecomesAt DEF OneThread

LEMMA OfferElsewhere ==
  ASSUME OneThread, TypeInv, NEW t \in Threads, NEW j, Becomes(t, j),
         j.pc \notin Offering
  PROVE  OfferInv'
BY OnlyJob DEF OfferInv, JobOffers

LEMMA OfferAnswer ==
  ASSUME OneThread, TypeInv, NEW t \in Threads, NEW r, Answer(t, r)
  PROVE  OfferInv'
<1> DEFINE j == [job[t] EXCEPT !.pc = "reply", !.reply = r,
                              !.known = FALSE, !.verified = FALSE]
<1>1. j.pc = "reply"
  BY TypeParts DEF Job
<1>2. QED
  BY <1>1, OfferElsewhere DEF Answer, Offering

LEMMA OfferGoto ==
  ASSUME OneThread, TypeInv, NEW t \in Threads, NEW pc, pc \notin Offering,
         Goto(t, pc)
  PROVE  OfferInv'
<1>1. [job[t] EXCEPT !.pc = pc].pc = pc
  BY TypeParts DEF Job
<1>2. QED
  BY <1>1, OfferElsewhere DEF Goto

(* On with the same order, whose state is left alone.                      *)
LEMMA OfferOn ==
  ASSUME OneThread, TypeInv, OfferInv, NEW t \in Threads, NEW j, Becomes(t, j),
         job[t].pc \in Offering, j.order = job[t].order,
         \A o \in OrderIds : orders'[o].state = orders[o].state
  PROVE  OfferInv'
<1>1. job[t].order \in OrderIds
  BY TypeParts DEF JobsOK, JobOK, Offering
<1>2. orders'[j.order].state \in {"Available", "Bound"}
  BY <1>1 DEF OfferInv, JobOffers
<1>3. QED
  BY <1>2, OnlyJob DEF OfferInv, JobOffers

LEMMA OfferWork ==
  ASSUME OneThread, TypeInv, OfferInv, NEW t \in Threads, Handler(t, Fresh)
  PROVE  OfferInv'
<1> USE TypeParts
<1>j. job[t] \in Job /\ JobOK(job[t])
  BY DEF JobsOK
<1>1. CASE InitInsert(t, Fresh)
  <2>1. PICK tid \in Fresh :
          Becomes(t, [job[t] EXCEPT !.pc = "reply", !.reply = "ok", !.tid = tid])
    BY <1>1 DEF InitInsert
  <2>2. [job[t] EXCEPT !.pc = "reply", !.reply = "ok", !.tid = tid].pc = "reply"
    BY <1>j DEF Job
  <2>3. QED
    BY <2>1, <2>2, OfferElsewhere DEF Offering
<1>2. CASE AuthList(t)
  <2>1. ASSUME NEW o \in OrderIds, Offered = {o},
               Becomes(t, [job[t] EXCEPT !.pc = "auth_session", !.order = o])
        PROVE  OfferInv'
    <3> DEFINE j == [job[t] EXCEPT !.pc = "auth_session", !.order = o]
    <3>1. j.order = o
      BY <1>j DEF Job
    <3>2. orders'[o].state \in {"Available", "Bound"}
      BY <1>2, <2>1 DEF AuthList, storeVars, Offered
    <3>3. JobOffers(j, orders')
      BY <3>1, <3>2 DEF JobOffers
    <3>4. \A u \in Threads : job'[u] = j
      BY <2>1, OnlyJob
    <3>5. QED
      BY <3>3, <3>4 DEF OfferInv
  <2>2. QED
    BY <1>2, <2>1, OfferAnswer DEF AuthList
<1>3. CASE AuthSession(t)
  <2> DEFINE j == [job[t] EXCEPT !.pc = "auth_bind", !.known = TRUE]
             k == [job[t] EXCEPT !.pc = "auth_bind"]
  <2>1. j.order = job[t].order /\ k.order = job[t].order
    BY <1>j DEF Job
  <2>2. job[t].pc \in Offering /\ UNCHANGED orders
    BY <1>3 DEF AuthSession, At, storeVars, Offering
  <2>3. CASE Becomes(t, j)
    BY <2>1, <2>2, <2>3, OfferOn
  <2>4. CASE Becomes(t, k)
    BY <2>1, <2>2, <2>4, OfferOn
  <2>5. QED
    BY <1>3, <2>3, <2>4, OfferAnswer DEF AuthSession, Goto
<1>4. CASE AuthBind(t)
  <2> DEFINE j == [job[t] EXCEPT !.pc = "auth_state"]
  <2>1. j.order = job[t].order
    BY <1>j DEF Job
  <2>2. /\ job[t].pc \in Offering
        /\ job[t].order \in OrderIds /\ job[t].card \in Cards
    BY <1>4, <1>j DEF AuthBind, At, JobOK, AuthPoints, Offering
  <2>3. \A o \in OrderIds : orders'[o].state = orders[o].state
    BY <1>4, <2>2, StatementsGrow DEF AuthBind, OrFault
  <2>4. QED
    BY <1>4, <2>1, <2>2, <2>3, OfferOn DEF AuthBind, Goto
<1>5. CASE BppLock(t)
  <2>1. ASSUME NEW o,
               Becomes(t, [job[t] EXCEPT !.pc = "bpp_build", !.order = o])
        PROVE  OfferInv'
    <3>1. [job[t] EXCEPT !.pc = "bpp_build", !.order = o].pc = "bpp_build"
      BY <1>j DEF Job
    <3>2. QED
      BY <2>1, <3>1, OfferElsewhere DEF Offering
  <2>2. QED
    BY <1>5, <2>1, OfferAnswer DEF BppLock
<1>6. CASE BppBuild(t)
  BY <1>6, OfferGoto DEF BppBuild, Offering
<1>7. CASE NoteRead(t)
  <2>1. PICK o \in OrderIds \cup {NoOrder}, verified \in BOOLEAN :
          Becomes(t, [job[t] EXCEPT !.pc = "note_record", !.order = o,
                                    !.verified = verified])
    BY <1>7 DEF NoteRead, Verifies
  <2>2. [job[t] EXCEPT !.pc = "note_record", !.order = o,
                      !.verified = verified].pc = "note_record"
    BY <1>j DEF Job
  <2>3. QED
    BY <2>1, <2>2, OfferElsewhere DEF Offering
<1>8. CASE NoteRecord(t)
  BY <1>8, OfferAnswer, OfferGoto DEF NoteRecord, Offering
<1>9. QED
  BY <1>1, <1>2, <1>3, <1>4, <1>5, <1>6, <1>7, <1>8, OfferAnswer
     DEF Handler, InitFail, AuthFail, AuthState, BppFail, BppState, NoteState

(* The command line only ever puts an order on offer.                      *)
LEMMA CommandLineOffers ==
  ASSUME TypeInv, OrderAdd \/ \E o \in OrderIds : OrderReset(o)
  PROVE  \A p \in OrderIds : orders'[p].state # orders[p].state =>
                               orders'[p].state = "Available"
<1> USE TypeParts
<1>1. CASE OrderAdd
  BY <1>1 DEF OrderAdd, AddOrder
<1>2. ASSUME NEW o \in OrderIds, OrderReset(o)
      PROVE  \A p \in OrderIds : orders'[p].state # orders[p].state =>
                                   orders'[p].state = "Available"
  BY <1>2, StatementsGrow DEF OrderReset, OrderStates
<1>3. QED
  BY <1>1, <1>2

LEMMA OfferStep ==
  ASSUME OneThread
  PROVE  TypeInv /\ OfferInv /\ [Next]_vars => OfferInv'
<1> SUFFICES ASSUME TypeInv, OfferInv, [Next]_vars
             PROVE  OfferInv'
  OBVIOUS
<1> USE TypeParts
<1>j. \A t \in Threads : job[t].pc \in Offering => job[t].order \in OrderIds
  BY DEF JobsOK, JobOK, Offering
<1>q. ASSUME UNCHANGED job,
             \A p \in OrderIds : orders'[p].state # orders[p].state =>
                                   orders'[p].state = "Available"
      PROVE  OfferInv'
  BY <1>j, <1>q DEF OfferInv, JobOffers
<1>1. ASSUME NEW t \in Threads, Work(t)
      PROVE  OfferInv'
  BY <1>1, OfferWork DEF Work
<1>2. ASSUME NEW t \in Threads, Reply(t)
      PROVE  OfferInv'
  <2>1. Idle.pc = "idle"
    BY DEF Idle
  <2>2. QED
    BY <1>2, <2>1, OfferElsewhere DEF Reply, Offering
<1>3. ASSUME NEW t \in Threads, HangUp(t)
      PROVE  OfferInv'
  <2> DEFINE j == [job[t] EXCEPT !.client = NoCard]
  <2>1. j.pc = job[t].pc /\ j.order = job[t].order
    BY DEF Job
  <2>2. JobOffers(j, orders')
    BY <1>3, <2>1 DEF HangUp, storeVars, OfferInv, JobOffers
  <2>3. QED
    BY <1>3, <2>2, OnlyJob DEF HangUp, OfferInv
<1>4. ASSUME NEW t \in Threads, NEW c \in Cards, Download(t, c)
      PROVE  OfferInv'
  <2>1. ASSUME NEW j, j.pc \notin Offering, Take(t, c, j)
        PROVE  OfferInv'
    BY <2>1, OfferElsewhere DEF Take
  <2>2. /\ Request(c, "initiate", "init_insert").pc = "init_insert"
        /\ Request(c, "authenticate", "auth_list").pc = "auth_list"
        /\ \A d : [Request(c, "package", "bpp_lock") EXCEPT !.card = d].pc
                    = "bpp_lock"
    BY DEF Request, Idle
  <2>3. QED
    BY <1>4, <2>1, <2>2 DEF Download, Initiate, Authenticate, GetBpp, Offering
<1>5. ASSUME NEW t \in Threads, NEW n \in pending, Notify(t, n)
      PROVE  OfferInv'
  <2> DEFINE j(form) == [Idle EXCEPT !.pc = "note_read", !.call = "notify",
                                    !.client = n.card, !.card = n.card,
                                    !.note = [n EXCEPT !.form = form]]
  <2>1. PICK form \in Forms : Take(t, n.card, j(form))
    BY <1>5 DEF Notify
  <2>2. j(form).pc = "note_read"
    BY DEF Idle
  <2>3. QED
    BY <2>1, <2>2, OfferElsewhere DEF Take, Offering
<1>6. ASSUME NEW c \in Cards, Operate(c)
      PROVE  OfferInv'
  BY <1>6, <1>q DEF Operate, serverVars, storeVars
<1>7. CASE OrderAdd \/ \E o \in OrderIds : OrderReset(o)
  BY <1>7, <1>q, CommandLineOffers DEF OrderAdd, OrderReset, serverVars
<1>8. CASE Crash
  BY <1>8 DEF Crash, OfferInv, JobOffers, Idle, Offering
<1>9. CASE UNCHANGED vars
  BY <1>9, <1>q DEF vars, storeVars, serverVars
<1>10. QED
  BY <1>1, <1>2, <1>3, <1>4, <1>5, <1>6, <1>7, <1>8, <1>9 DEF Next

LEMMA InitOffer == Init => OfferInv
BY DEF Init, ServerInit, OfferInv, JobOffers, Idle, Offering

(* authenticate_client is the only one to write Bound.                     *)
LEMMA OnlyAuthStateBinds ==
  ASSUME TypeInv, [Next]_vars, NEW o \in OrderIds,
         orders'[o].state = "Bound", orders[o].state # "Bound"
  PROVE  \E t \in Threads : At(t, "auth_state") /\ job[t].order = o
<1> USE TypeParts
<1>1. ASSUME NEW t \in Threads, Work(t)
      PROVE  At(t, "auth_state") /\ job[t].order = o
  <2>j. JobOK(job[t])
    BY DEF JobsOK
  <2>1. orders' # orders
    OBVIOUS
  <2>2. CASE AuthBind(t)
    <3>1. job[t].order \in OrderIds /\ job[t].card \in Cards
      BY <2>2, <2>j DEF AuthBind, At, JobOK, AuthPoints
    <3>2. orders'[o].state = orders[o].state
      BY <2>2, <3>1, StatementsGrow DEF AuthBind, OrFault
    <3>3. QED
      BY <3>2
  <2>3. CASE AuthState(t)
    <3>1. job[t].order \in OrderIds
      BY <2>3, <2>j DEF AuthState, At, JobOK
    <3>2. SetState(job[t].order, "Bound")
      BY <2>1, <2>3 DEF AuthState, OrFault
    <3>3. orders'[o].state = IF o = job[t].order THEN "Bound" ELSE orders[o].state
      BY <3>1, <3>2, StatementsGrow DEF OrderStates
    <3>4. QED
      BY <2>3, <3>3 DEF AuthState
  <2>4. CASE BppState(t) \/ NoteState(t)
    <3>1. job[t].order \in OrderIds
      BY <2>4, <2>j DEF BppState, NoteState, At, JobOK
    <3>2. PICK s \in {"Downloaded", "Failed"} : SetState(job[t].order, s)
      BY <2>1, <2>4 DEF BppState, NoteState, OrFault
    <3>3. orders'[o].state = IF o = job[t].order THEN s ELSE orders[o].state
      BY <3>1, <3>2, StatementsGrow DEF OrderStates
    <3>4. QED
      BY <3>3
  <2>5. QED
    BY <1>1, <2>1, <2>2, <2>3, <2>4
       DEF Work, Handler, storeVars, InitInsert, InitFail, AuthList,
           AuthSession, AuthFail, BppLock, BppBuild, BppFail, NoteRead,
           NoteRecord
<1>2. CASE OrderAdd \/ \E p \in OrderIds : OrderReset(p)
  BY <1>2, CommandLineOffers
<1>3. ASSUME UNCHANGED orders
      PROVE  FALSE
  BY <1>3
<1>4. QED
  BY <1>1, <1>2, <1>3
     DEF Next, vars, storeVars, Reply, HangUp, Download, Initiate,
         Authenticate, GetBpp, Notify, Take, Operate, Crash

(* On one thread authenticate_client never writes Bound over an order that *)
(* has been handed out or refused meanwhile.                               *)
THEOREM NeverRebound ==
  ASSUME OneThread
  PROVE  Spec => NotRebound
<1>1. Init => OfferInv
  BY InitOffer
<1>2. TypeInv /\ OfferInv /\ [Next]_vars => OfferInv'
  BY OfferStep
<1>3. TypeInv /\ OfferInv /\ [Next]_vars =>
        [\A o \in OrderIds : orders[o].state \in {"Downloaded", "Failed"}
                               => orders'[o].state # "Bound"]_vars
  <2> SUFFICES ASSUME TypeInv, OfferInv, [Next]_vars, NEW o \in OrderIds,
                      orders[o].state \in {"Downloaded", "Failed"},
                      orders'[o].state = "Bound"
               PROVE  FALSE
    OBVIOUS
  <2>1. PICK t \in Threads : At(t, "auth_state") /\ job[t].order = o
    BY OnlyAuthStateBinds
  <2>2. QED
    BY <2>1 DEF At, OfferInv, JobOffers, Offering
<1>4. QED
  BY <1>1, <1>2, <1>3, TypeInvariant, PTL DEF Spec, NotRebound

-----------------------------------------------------------------------------
(* An order whose package has arrived.                                     *)

Done == {"Downloaded", "Failed"}

(* A package on its way to its eUICC: the order is done, or has been reset *)
(* since and the package no longer counts.                                 *)
JobDelivers(j, O, H) ==
  j.pc = "reply" /\ j.reply = "ok" /\ j.call = "package" =>
    O[j.order].state \in Done \/ \A p \in H : p.order # j.order

ReceivedInv ==
  /\ ReceivedIsNotOffered
  /\ \A t \in Threads : JobDelivers(job[t], orders, handed)

(* No handler takes an order that is done out of its state: what binds it  *)
(* found it on offer.                                                      *)
LEMMA HandlerKeepsDone ==
  ASSUME TypeInv, OfferInv, NEW t \in Threads, Handler(t, Fresh)
  PROVE  \A o \in OrderIds : orders[o].state \in Done => orders'[o].state \in Done
<1> USE TypeParts
<1>j. JobOK(job[t])
  BY DEF JobsOK
<1>1. CASE UNCHANGED orders
  BY <1>1
<1>2. CASE AuthBind(t)
  <2>1. job[t].order \in OrderIds /\ job[t].card \in Cards
    BY <1>2, <1>j DEF AuthBind, At, JobOK, AuthPoints
  <2>2. QED
    BY <1>1, <1>2, <2>1, StatementsGrow DEF AuthBind, OrFault
<1>3. CASE AuthState(t)
  <2>1. /\ job[t].order \in OrderIds
        /\ orders[job[t].order].state \in {"Available", "Bound"}
    BY <1>3, <1>j DEF AuthState, At, JobOK, OfferInv, JobOffers, Offering
  <2>2. CASE SetState(job[t].order, "Bound")
    BY <2>1, <2>2, StatementsGrow DEF OrderStates, Done
  <2>3. QED
    BY <1>1, <1>3, <2>2 DEF AuthState, OrFault
<1>4. CASE BppState(t) \/ NoteState(t)
  <2>1. job[t].order \in OrderIds
    BY <1>4, <1>j DEF BppState, NoteState, At, JobOK
  <2>2. ASSUME NEW s \in Done, SetState(job[t].order, s)
        PROVE  \A o \in OrderIds : orders[o].state \in Done => orders'[o].state \in Done
    BY <2>1, <2>2, StatementsGrow DEF OrderStates, Done
  <2>3. QED
    BY <1>1, <1>4, <2>2 DEF BppState, NoteState, OrFault, Done
<1>5. QED
  BY <1>1, <1>2, <1>3, <1>4
     DEF Handler, storeVars, InitInsert, InitFail, AuthList, AuthSession,
         AuthFail, BppLock, BppBuild, BppFail, NoteRead, NoteRecord

LEMMA DeliverElsewhere ==
  ASSUME OneThread, TypeInv, NEW t \in Threads, NEW j, Becomes(t, j),
         j.pc # "reply" \/ j.reply # "ok" \/ j.call # "package"
  PROVE  \A u \in Threads : JobDelivers(job'[u], orders', handed')
BY OnlyJob DEF JobDelivers

LEMMA DeliverAnswer ==
  ASSUME OneThread, TypeInv, NEW t \in Threads, NEW r, Answer(t, r),
         r # "ok" \/ job[t].call # "package"
  PROVE  \A u \in Threads : JobDelivers(job'[u], orders', handed')
<1> DEFINE j == [job[t] EXCEPT !.pc = "reply", !.reply = r,
                              !.known = FALSE, !.verified = FALSE]
<1>1. j.reply = r /\ j.call = job[t].call
  BY TypeParts DEF Job
<1>2. QED
  BY <1>1, DeliverElsewhere DEF Answer

LEMMA DeliverGoto ==
  ASSUME OneThread, TypeInv, NEW t \in Threads, NEW pc, pc # "reply", Goto(t, pc)
  PROVE  \A u \in Threads : JobDelivers(job'[u], orders', handed')
<1>1. [job[t] EXCEPT !.pc = pc].pc = pc
  BY TypeParts DEF Job
<1>2. QED
  BY <1>1, DeliverElsewhere DEF Goto

LEMMA WorkDelivers ==
  ASSUME OneThread, "write" \notin Faults, TypeInv, NEW t \in Threads,
         Handler(t, Fresh)
  PROVE  \A u \in Threads : JobDelivers(job'[u], orders', handed')
<1> USE TypeParts
<1>j. job[t] \in Job /\ JobOK(job[t])
  BY DEF JobsOK
<1>1. CASE InitInsert(t, Fresh)
  <2>1. PICK tid \in Fresh :
          Becomes(t, [job[t] EXCEPT !.pc = "reply", !.reply = "ok", !.tid = tid])
    BY <1>1 DEF InitInsert
  <2>2. [job[t] EXCEPT !.pc = "reply", !.reply = "ok", !.tid = tid].call = job[t].call
    BY <1>j DEF Job
  <2>3. job[t].call = "initiate"
    BY <1>1, <1>j DEF InitInsert, At, JobOK
  <2>4. QED
    BY <2>1, <2>2, <2>3, DeliverElsewhere
<1>2. CASE AuthList(t)
  <2>1. ASSUME NEW o,
               Becomes(t, [job[t] EXCEPT !.pc = "auth_session", !.order = o])
        PROVE  \A u \in Threads : JobDelivers(job'[u], orders', handed')
    <3>1. [job[t] EXCEPT !.pc = "auth_session", !.order = o].pc = "auth_session"
      BY <1>j DEF Job
    <3>2. QED
      BY <2>1, <3>1, DeliverElsewhere
  <2>2. QED
    BY <1>2, <2>1, DeliverAnswer DEF AuthList
<1>3. CASE AuthSession(t)
  <2>1. [job[t] EXCEPT !.pc = "auth_bind", !.known = TRUE].pc = "auth_bind"
    BY <1>j DEF Job
  <2>2. QED
    BY <1>3, <2>1, DeliverElsewhere, DeliverGoto, DeliverAnswer DEF AuthSession
<1>4. CASE AuthBind(t)
  BY <1>4, DeliverGoto DEF AuthBind
<1>5. CASE AuthState(t)
  <2>1. job[t].call = "authenticate"
    BY <1>5, <1>j DEF AuthState, At, JobOK, AuthPoints
  <2>2. QED
    BY <1>5, <2>1, DeliverAnswer DEF AuthState
<1>6. CASE BppLock(t)
  <2>1. ASSUME NEW o,
               Becomes(t, [job[t] EXCEPT !.pc = "bpp_build", !.order = o])
        PROVE  \A u \in Threads : JobDelivers(job'[u], orders', handed')
    <3>1. [job[t] EXCEPT !.pc = "bpp_build", !.order = o].pc = "bpp_build"
      BY <1>j DEF Job
    <3>2. QED
      BY <2>1, <3>1, DeliverElsewhere
  <2>2. QED
    BY <1>6, <2>1, DeliverAnswer DEF BppLock
<1>7. CASE BppBuild(t)
  BY <1>7, DeliverGoto DEF BppBuild
<1>8. CASE BppState(t)
  <2> DEFINE j == [job[t] EXCEPT !.pc = "reply", !.reply = "ok",
                                !.known = FALSE, !.verified = FALSE]
  <2>1. j.order = job[t].order /\ job[t].order \in OrderIds
    BY <1>8, <1>j DEF BppState, At, JobOK, Job
  <2>2. SetState(job[t].order, "Downloaded")
    BY <1>8 DEF BppState, OrFault
  <2>3. orders'[j.order].state = "Downloaded"
    BY <2>1, <2>2, StatementsGrow DEF OrderStates
  <2>4. JobDelivers(j, orders', handed')
    BY <2>3 DEF JobDelivers, Done
  <2>5. \A u \in Threads : job'[u] = j
    BY <1>8, OnlyJob DEF BppState, Answer
  <2>6. QED
    BY <2>4, <2>5
<1>9. CASE NoteRead(t)
  <2>1. PICK o \in OrderIds \cup {NoOrder}, verified \in BOOLEAN :
          Becomes(t, [job[t] EXCEPT !.pc = "note_record", !.order = o,
                                    !.verified = verified])
    BY <1>9 DEF NoteRead, Verifies
  <2>2. [job[t] EXCEPT !.pc = "note_record", !.order = o,
                      !.verified = verified].pc = "note_record"
    BY <1>j DEF Job
  <2>3. QED
    BY <2>1, <2>2, DeliverElsewhere
<1>10. CASE NoteRecord(t) \/ NoteState(t)
  <2>1. job[t].call = "notify"
    BY <1>10, <1>j DEF NoteRecord, NoteState, At, JobOK, NotePoints
  <2>2. QED
    BY <1>10, <2>1, DeliverAnswer, DeliverGoto DEF NoteRecord, NoteState
<1>11. QED
  BY <1>1, <1>2, <1>3, <1>4, <1>5, <1>6, <1>7, <1>8, <1>9, <1>10, DeliverAnswer
     DEF Handler, InitFail, AuthFail, BppFail

LEMMA ReceivedStep ==
  ASSUME OneThread, "write" \notin Faults
  PROVE  TypeInv /\ OfferInv /\ ReceivedInv /\ [Next]_vars => ReceivedInv'
<1> SUFFICES ASSUME TypeInv, OfferInv, ReceivedInv, [Next]_vars
             PROVE  ReceivedInv'
  OBVIOUS
<1> USE TypeParts
<1>p. \A p \in received : p.order \in OrderIds /\ orders[p.order].state \in Done
  BY DEF ReceivedInv, ReceivedIsNotOffered, Package, Done
<1>d. \A t \in Threads :
        job[t].pc = "reply" /\ job[t].reply = "ok" /\ job[t].call = "package" =>
          job[t].order \in OrderIds
  BY DEF JobsOK, JobOK
<1>k. ASSUME received' \subseteq received,
             \A o \in OrderIds : orders[o].state \in Done => orders'[o].state \in Done
      PROVE  ReceivedIsNotOffered'
  BY <1>k, <1>p DEF ReceivedIsNotOffered, Done
<1>q. ASSUME UNCHANGED <<job, handed>>,
             \A o \in OrderIds : orders[o].state \in Done => orders'[o].state \in Done
      PROVE  \A t \in Threads : JobDelivers(job'[t], orders', handed')
  BY <1>d, <1>q DEF ReceivedInv, JobDelivers
<1>1. ASSUME NEW t \in Threads, Work(t)
      PROVE  ReceivedInv'
  BY <1>1, <1>k, HandlerKeepsDone, WorkDelivers DEF Work, clientVars, ReceivedInv
<1>2. ASSUME NEW t \in Threads, Reply(t)
      PROVE  ReceivedInv'
  <2>1. Idle.pc = "idle"
    BY DEF Idle
  <2>2. \A u \in Threads : JobDelivers(job'[u], orders', handed')
    BY <1>2, <2>1, DeliverElsewhere DEF Reply
  <2>3. ReceivedIsNotOffered'
    <3>1. CASE UNCHANGED received
      BY <1>2, <1>k, <3>1 DEF Reply, storeVars
    <3>2. CASE /\ job[t].reply = "ok" /\ job[t].call = "package"
               /\ Install(job[t].client, job[t].order)
      <4>1. \/ orders[job[t].order].state \in Done
            \/ \A p \in handed : p.order # job[t].order
        BY <1>2, <3>2 DEF Reply, At, ReceivedInv, JobDelivers
      <4>2. \A p \in received' : p \in received \/
              (p \in handed /\ p.order = job[t].order)
        BY <3>2 DEF Install
      <4>3. QED
        BY <1>2, <1>p, <4>1, <4>2
           DEF Reply, storeVars, ReceivedIsNotOffered, Done
    <3>3. QED
      BY <1>2, <3>1, <3>2 DEF Reply, clientVars
  <2>4. QED
    BY <2>2, <2>3 DEF ReceivedInv
<1>3. ASSUME NEW t \in Threads, HangUp(t)
      PROVE  ReceivedInv'
  <2> DEFINE j == [job[t] EXCEPT !.client = NoCard]
  <2>1. /\ j.pc = job[t].pc /\ j.reply = job[t].reply /\ j.call = job[t].call
        /\ j.order = job[t].order
    BY DEF Job
  <2>2. JobDelivers(j, orders', handed')
    BY <1>3, <2>1 DEF HangUp, storeVars, ReceivedInv, JobDelivers
  <2>3. \A u \in Threads : job'[u] = j
    BY <1>3, OnlyJob DEF HangUp
  <2>4. ReceivedIsNotOffered'
    BY <1>3, <1>k DEF HangUp, storeVars
  <2>5. QED
    BY <2>2, <2>3, <2>4 DEF ReceivedInv
<1>4. ASSUME NEW t \in Threads, NEW c, NEW j, j.pc # "reply", Take(t, c, j)
      PROVE  ReceivedInv'
  BY <1>4, <1>k, DeliverElsewhere DEF Take, storeVars, clientVars, ReceivedInv
<1>5. ASSUME NEW t \in Threads, NEW c \in Cards, Download(t, c)
      PROVE  ReceivedInv'
  <2>1. /\ Request(c, "initiate", "init_insert").pc = "init_insert"
        /\ Request(c, "authenticate", "auth_list").pc = "auth_list"
        /\ \A d : [Request(c, "package", "bpp_lock") EXCEPT !.card = d].pc
                    = "bpp_lock"
    BY DEF Request, Idle
  <2>2. QED
    BY <1>4, <1>5, <2>1 DEF Download, Initiate, Authenticate, GetBpp
<1>6. ASSUME NEW t \in Threads, NEW n \in pending, Notify(t, n)
      PROVE  ReceivedInv'
  <2> DEFINE j(form) == [Idle EXCEPT !.pc = "note_read", !.call = "notify",
                                    !.client = n.card, !.card = n.card,
                                    !.note = [n EXCEPT !.form = form]]
  <2>1. PICK form \in Forms : Take(t, n.card, j(form))
    BY <1>6 DEF Notify
  <2>2. j(form).pc = "note_read"
    BY DEF Idle
  <2>3. QED
    BY <1>4, <2>1, <2>2
<1>7. ASSUME NEW c \in Cards, Operate(c)
      PROVE  ReceivedInv'
  BY <1>7, <1>k, <1>q DEF Operate, serverVars, storeVars, ReceivedInv
<1>8. CASE OrderAdd
  <2>1. \A o \in OrderIds : orders[o].state \in Done => orders'[o].state \in Done
    BY <1>8 DEF OrderAdd, AddOrder, Present, Done
  <2>2. QED
    BY <1>8, <1>k, <1>q, <2>1 DEF OrderAdd, serverVars, clientVars, ReceivedInv
<1>9. ASSUME NEW o \in OrderIds, OrderReset(o)
      PROVE  ReceivedInv'
  <2>1. \A q \in OrderIds \ {o} : orders'[q].state = orders[q].state
    BY <1>9, StatementsGrow DEF OrderReset, OrderStates
  <2>2. ReceivedIsNotOffered'
    BY <1>9, <1>p, <2>1 DEF OrderReset, ReceivedIsNotOffered, Done
  <2>3. \A t \in Threads : JobDelivers(job'[t], orders', handed')
    BY <1>9, <1>d, <2>1 DEF OrderReset, ReceivedInv, JobDelivers
  <2>4. QED
    BY <2>2, <2>3 DEF ReceivedInv
<1>10. CASE Crash
  <2>1. \A t \in Threads : JobDelivers(job'[t], orders', handed')
    BY <1>10 DEF Crash, JobDelivers, Idle
  <2>2. QED
    BY <1>10, <1>k, <2>1 DEF Crash, storeVars, clientVars, ReceivedInv
<1>11. CASE UNCHANGED vars
  BY <1>11, <1>k, <1>q DEF vars, storeVars, serverVars, clientVars, ReceivedInv
<1>12. QED
  BY <1>1, <1>2, <1>3, <1>5, <1>6, <1>7, <1>8, <1>9, <1>10, <1>11 DEF Next

LEMMA InitReceived == Init => ReceivedInv
BY DEF Init, ServerInit, ReceivedInv, ReceivedIsNotOffered, JobDelivers, Idle

(* On one thread, with a store that takes what it is given, an order whose *)
(* package has arrived is not on offer until it is reset.                  *)
THEOREM ReceivedNotOffered ==
  ASSUME OneThread, "write" \notin Faults
  PROVE  Spec => []ReceivedIsNotOffered
<1>1. Init => OfferInv /\ ReceivedInv
  BY InitOffer, InitReceived
<1>2. TypeInv /\ OfferInv /\ [Next]_vars => OfferInv'
  BY OfferStep
<1>3. TypeInv /\ OfferInv /\ ReceivedInv /\ [Next]_vars => ReceivedInv'
  BY ReceivedStep
<1>4. ReceivedInv => ReceivedIsNotOffered
  BY DEF ReceivedInv
<1>5. QED
  BY <1>1, <1>2, <1>3, <1>4, TypeInvariant, PTL DEF Spec

-----------------------------------------------------------------------------
(* Whom an order names.                                                    *)
(*                                                                         *)
(* Between remembering the order in the session and naming the eUICC there *)
(* is a moment when the one says more than the other.  Nobody else is in a *)
(* handler then, and a crash takes the session with it: so a session that  *)
(* is looked up for a package is of an order that names somebody.          *)

NoBadWrites == "write" \notin Faults /\ "decode" \notin Faults

Past == {"Bound", "Downloaded", "Failed"}

Named(o, O) == O[o].cert # NoCard

(* What job j relies on, given orders O: it is about to write, or has just *)
(* written, the state of an order that names somebody -- and, for a        *)
(* verified result, the eUICC whose result it is.                          *)
JobNamed(j, O) ==
  /\ j.pc = "auth_bind" => j.known
  /\ j.pc \in {"auth_state", "bpp_build", "bpp_state"} => Named(j.order, O)
  /\ j.pc = "reply" /\ j.reply = "ok" /\ j.call = "package" => Named(j.order, O)
  /\ \/ j.pc = "note_record" /\ j.verified /\ j.note.kind = "result"
     \/ j.pc = "note_state"
     => Named(j.order, O) /\ O[j.order].cert = j.note.card

JobsNamed == \A t \in Threads : JobNamed(job[t], orders)

SessionsNamed ==
  \A s \in Tids : sessions[s].order # NoOrder =>
    \/ Named(sessions[s].order, orders)
    \/ \E t \in Threads : /\ At(t, "auth_bind")
                          /\ job[t].order = sessions[s].order

AbsentUnnamed == \A o \in OrderIds : ~Present(o) => ~Named(o, orders)

PastNamed == \A o \in OrderIds : orders[o].state \in Past => Named(o, orders)

NamedInv == JobsNamed /\ SessionsNamed /\ AbsentUnnamed /\ PastNamed

-----------------------------------------------------------------------------
(* What is named stays named: binding replaces one eUICC by another, and   *)
(* order add fills only rows that are not there yet.                       *)
KeepsNames == \A o \in OrderIds : Named(o, orders) => Named(o, orders')

LEMMA NamesKept ==
  ASSUME TypeInv, AbsentUnnamed, [Next]_vars
  PROVE  KeepsNames
<1> USE DEF KeepsNames
<1> USE TypeParts
<1>1. CASE \A o \in OrderIds : orders'[o].cert = orders[o].cert
  BY <1>1 DEF Named
<1>s. ASSUME NEW o \in OrderIds, NEW s \in OrderStates, SetState(o, s)
      PROVE  \A p \in OrderIds : orders'[p].cert = orders[p].cert
  BY <1>s, StatementsGrow
<1>2. ASSUME NEW t \in Threads, Work(t)
      PROVE  \A o \in OrderIds : Named(o, orders) => Named(o, orders')
  <2>j. JobOK(job[t])
    BY DEF JobsOK
  <2>1. CASE UNCHANGED orders
    BY <2>1 DEF Named
  <2>2. CASE AuthBind(t)
    <3>1. job[t].order \in OrderIds /\ job[t].card \in Cards
      BY <2>2, <2>j DEF AuthBind, At, JobOK, AuthPoints
    <3>2. QED
      BY <2>1, <2>2, <3>1, StatementsGrow, StoreAssumption
         DEF AuthBind, OrFault, Named
  <2>3. CASE AuthState(t) \/ BppState(t) \/ NoteState(t)
    <3>1. job[t].order \in OrderIds
      BY <2>3, <2>j DEF AuthState, BppState, NoteState, At, JobOK
    <3>2. PICK s \in OrderStates :
            OrFault("write", SetState(job[t].order, s), orders)
      BY <2>3 DEF AuthState, BppState, NoteState, OrderStates
    <3>3. QED
      BY <1>1, <1>s, <2>1, <3>1, <3>2 DEF OrFault
  <2>4. QED
    BY <1>2, <2>1, <2>2, <2>3
       DEF Work, Handler, storeVars, InitInsert, InitFail, AuthList,
           AuthSession, AuthFail, BppLock, BppBuild, BppFail, NoteRead,
           NoteRecord
<1>3. CASE OrderAdd
  <2>1. PICK o \in OrderIds, iccid \in Iccids, profile \in Iccids :
          AddOrder(o, iccid, profile)
    BY <1>3 DEF OrderAdd
  <2>2. ~Named(o, orders) /\ \A p \in OrderIds \ {o} : orders'[p] = orders[p]
    BY <2>1 DEF AddOrder, AbsentUnnamed
  <2>3. QED
    BY <2>2 DEF Named
<1>4. ASSUME NEW o \in OrderIds, OrderReset(o)
      PROVE  \A p \in OrderIds : Named(p, orders) => Named(p, orders')
  BY <1>1, <1>s, <1>4 DEF OrderReset, OrderStates
<1>5. CASE UNCHANGED orders
  BY <1>5 DEF Named
<1>6. QED
  BY <1>2, <1>3, <1>4, <1>5
     DEF Next, vars, storeVars, Reply, HangUp, Download, Initiate,
         Authenticate, GetBpp, Notify, Take, Operate, Crash

(* A handler's own step, wherever it goes on to.                           *)
LEMMA JobsNamedStep ==
  ASSUME OneThread, TypeInv, NEW t \in Threads, NEW j, Becomes(t, j),
         JobNamed(j, orders')
  PROVE  JobsNamed'
BY OnlyJob DEF JobsNamed

LEMMA NamedElsewhere ==
  ASSUME NEW j, NEW O,
         j.pc \notin {"auth_bind", "auth_state", "bpp_build", "bpp_state",
                      "note_record", "note_state"},
         j.pc = "reply" => j.reply # "ok" \/ j.call # "package"
  PROVE  JobNamed(j, O)
BY DEF JobNamed

LEMMA AnswerNamed ==
  ASSUME OneThread, TypeInv, NEW t \in Threads, NEW r, Answer(t, r),
         r # "ok" \/ job[t].call # "package"
  PROVE  JobsNamed'
<1> DEFINE j == [job[t] EXCEPT !.pc = "reply", !.reply = r,
                              !.known = FALSE, !.verified = FALSE]
<1>1. j.pc = "reply" /\ j.reply = r /\ j.call = job[t].call
  BY TypeParts DEF Job
<1>2. QED
  BY <1>1, NamedElsewhere, JobsNamedStep DEF Answer

(* On with the same order, which names somebody by now.                    *)
LEMMA GotoNamed ==
  ASSUME OneThread, TypeInv, NEW t \in Threads,
         NEW pc \in {"auth_state", "bpp_state"}, Goto(t, pc),
         Named(job[t].order, orders')
  PROVE  JobsNamed'
<1> DEFINE j == [job[t] EXCEPT !.pc = pc]
<1>1. j.pc = pc /\ j.order = job[t].order
  BY TypeParts DEF Job
<1>2. JobNamed(j, orders')
  BY <1>1 DEF JobNamed
<1>3. QED
  BY <1>2, JobsNamedStep DEF Goto

(* Unless somebody is about to name an eUICC, every order a session        *)
(* remembers names one, and a step that adds no such session keeps it so.  *)
LEMMA SessionsNamedStep ==
  ASSUME OneThread, TypeInv, SessionsNamed, KeepsNames,
         NEW t \in Threads, ~At(t, "auth_bind"),
         \A s \in Tids : sessions'[s].order \in {NoOrder, sessions[s].order}
  PROVE  SessionsNamed'
<1>1. \A s \in Tids : sessions[s].order \in OrderIds \cup {NoOrder}
  BY TypeParts DEF Session
<1>2. \A u \in Threads : ~At(u, "auth_bind")
  BY DEF OneThread
<1>3. \A s \in Tids : sessions[s].order # NoOrder =>
                        Named(sessions[s].order, orders')
  BY <1>1, <1>2 DEF SessionsNamed, KeepsNames
<1>4. QED
  BY <1>3 DEF SessionsNamed

(* AuthenticateClient remembers the order and goes on to name the eUICC.   *)
LEMMA AuthSessionNamed ==
  ASSUME OneThread, NoBadWrites, TypeInv, NamedInv, KeepsNames,
         NEW t \in Threads, AuthSession(t)
  PROVE  JobsNamed' /\ SessionsNamed'
<1> USE TypeParts
<1> DEFINE j == [job[t] EXCEPT !.pc = "auth_bind", !.known = TRUE]
<1>1. /\ job[t].tid \in Tids /\ job[t].order \in OrderIds
      /\ j.pc = "auth_bind" /\ j.known /\ j.order = job[t].order
  BY DEF AuthSession, At, JobsOK, JobOK, AuthPoints, Job
<1>2. Becomes(t, j)
  BY DEF AuthSession, NoBadWrites
<1>3. JobsNamed'
  BY <1>1, <1>2, JobsNamedStep DEF JobNamed
<1>4. \A s \in Tids : sessions'[s].order # NoOrder =>
        \/ Named(sessions'[s].order, orders')
        \/ sessions'[s].order = j.order
  <2>1. \A u \in Threads : ~At(u, "auth_bind")
    BY DEF OneThread, AuthSession, At
  <2>2. \A s \in Tids : s # job[t].tid => sessions'[s] = sessions[s]
    BY DEF AuthSession
  <2>3. sessions'[job[t].tid].order = job[t].order
    BY <1>1 DEF AuthSession, Session
  <2>4. \A s \in Tids : sessions[s].order \in OrderIds \cup {NoOrder}
    BY DEF Session
  <2>5. QED
    BY <1>1, <2>1, <2>2, <2>3, <2>4 DEF NamedInv, SessionsNamed, KeepsNames
<1>5. job'[t] = j
  BY <1>2, OnlyJob
<1>6. SessionsNamed'
  BY <1>1, <1>4, <1>5 DEF SessionsNamed, At
<1>7. QED
  BY <1>3, <1>6

LEMMA AuthBindNamed ==
  ASSUME OneThread, NoBadWrites, TypeInv, NamedInv, KeepsNames,
         NEW t \in Threads, AuthBind(t)
  PROVE  JobsNamed' /\ SessionsNamed'
<1> USE TypeParts
<1>1. /\ job[t].order \in OrderIds /\ job[t].card \in Cards /\ job[t].known
      /\ At(t, "auth_bind")
  BY DEF AuthBind, At, JobsOK, JobOK, AuthPoints, NamedInv, JobsNamed, JobNamed
<1>2. BindEuicc(job[t].order, job[t].card)
  BY <1>1 DEF AuthBind, OrFault, NoBadWrites
<1>3. Named(job[t].order, orders')
  BY <1>1, <1>2, StatementsGrow, StoreAssumption DEF Named
<1>4. JobsNamed'
  BY <1>3, GotoNamed DEF AuthBind
<1>5. SessionsNamed'
  <2>1. \A s \in Tids : sessions[s].order \in OrderIds \cup {NoOrder}
    BY DEF Session
  <2>2. \A u \in Threads : job[u].order = job[t].order
    BY DEF OneThread
  <2>3. \A s \in Tids : sessions[s].order # NoOrder =>
                          Named(sessions[s].order, orders')
    BY <1>3, <2>1, <2>2 DEF NamedInv, SessionsNamed, KeepsNames
  <2>4. QED
    BY <2>3 DEF AuthBind, SessionsNamed
<1>6. QED
  BY <1>4, <1>5

(* A session that is looked up for a package has been bound.               *)
LEMMA BppLockNamed ==
  ASSUME OneThread, TypeInv, NamedInv, KeepsNames, NEW t \in Threads, BppLock(t)
  PROVE  JobsNamed'
<1> USE TypeParts
<1> DEFINE o == sessions[job[t].tid].order
           j == [job[t] EXCEPT !.pc = "bpp_build", !.order = o]
<1>1. job[t].tid \in Tids /\ At(t, "bpp_lock")
  BY DEF BppLock, At, JobsOK, JobOK, BppPoints
<1>2. CASE o # NoOrder /\ Becomes(t, j)
  <2>1. j.pc = "bpp_build" /\ j.order = o
    BY DEF Job
  <2>2. \A u \in Threads : ~At(u, "auth_bind")
    BY <1>1 DEF OneThread, At
  <2>3. o \in OrderIds
    BY <1>1, <1>2 DEF Session
  <2>4. Named(o, orders')
    BY <1>1, <1>2, <2>2, <2>3 DEF NamedInv, SessionsNamed, KeepsNames
  <2>5. JobNamed(j, orders')
    BY <2>1, <2>4 DEF JobNamed
  <2>6. QED
    BY <1>2, <2>5, JobsNamedStep
<1>3. QED
  BY <1>2, AnswerNamed DEF BppLock

(* A result verifies only with the certificate on file, so there is one.   *)
LEMMA NoteReadNamed ==
  ASSUME OneThread, TypeInv, WitnessInv, NEW t \in Threads, NoteRead(t)
  PROVE  JobsNamed'
<1> USE TypeParts
<1> DEFINE note == job[t].note
           cert(o) == IF o = NoOrder THEN NoCard ELSE orders[o].cert
           j(o) == [job[t] EXCEPT !.pc = "note_record", !.order = o,
                                  !.verified = Verifies(note, cert(o))]
<1>1. PICK o \in OrderIds \cup {NoOrder} : Becomes(t, j(o))
  BY DEF NoteRead
<1>2. /\ j(o).pc = "note_record" /\ j(o).order = o /\ j(o).note = note
      /\ j(o).verified = Verifies(note, cert(o))
  BY DEF Job
<1>3. Verifies(note, cert(o)) /\ note.kind = "result" =>
        Named(o, orders) /\ orders[o].cert = note.card
  <2> SUFFICES ASSUME Verifies(note, cert(o)), note.kind = "result"
               PROVE  Named(o, orders) /\ orders[o].cert = note.card
    OBVIOUS
  <2>1. note \in Note /\ Intact(note) \in issued /\ note = Intact(note)
    BY DEF NoteRead, At, WitnessInv, JobsWitnessed, JobWitness, NotePoints, Job,
           Verifies, Intact, Note
  <2>2. note.card \in Cards /\ note.card = cert(o)
    BY <2>1 DEF WitnessInv, NotesGenuine, Verifies
  <2>3. QED
    BY <2>2, StoreAssumption DEF Named
<1>4. JobNamed(j(o), orders)
  BY <1>2, <1>3 DEF JobNamed
<1>5. QED
  BY <1>1, <1>4, JobsNamedStep DEF NoteRead, storeVars

LEMMA NoteRecordNamed ==
  ASSUME OneThread, TypeInv, NamedInv, NEW t \in Threads, NoteRecord(t)
  PROVE  JobsNamed'
<1> USE TypeParts
<1> DEFINE j == [job[t] EXCEPT !.pc = "note_state"]
<1>1. At(t, "note_record") /\ job[t].call = "notify"
  BY DEF NoteRecord, At, JobsOK, JobOK, NotePoints
<1>2. CASE /\ job[t].verified /\ job[t].note.kind = "result"
           /\ Goto(t, "note_state")
  <2>1. j.pc = "note_state" /\ j.order = job[t].order /\ j.note = job[t].note
    BY DEF Job
  <2>2. JobNamed(j, orders)
    BY <1>1, <1>2, <2>1 DEF NamedInv, JobsNamed, JobNamed, At
  <2>3. QED
    BY <1>2, <2>2, JobsNamedStep DEF NoteRecord, Goto
<1>3. QED
  BY <1>1, <1>2, AnswerNamed DEF NoteRecord

LEMMA WorkNamed ==
  ASSUME OneThread, NoBadWrites, TypeInv, WitnessInv, NamedInv, KeepsNames,
         NEW t \in Threads, Handler(t, Fresh)
  PROVE  JobsNamed' /\ SessionsNamed'
<1> USE TypeParts
<1>j. job[t] \in Job /\ JobOK(job[t])
  BY DEF JobsOK
<1>n. JobNamed(job[t], orders) /\ SessionsNamed
  BY DEF NamedInv, JobsNamed
<1>u. ASSUME ~At(t, "auth_bind"), UNCHANGED sessions
      PROVE  SessionsNamed'
  BY <1>u, <1>n, SessionsNamedStep
<1>a. ASSUME NEW r, Answer(t, r), r # "ok" \/ job[t].call # "package",
             ~At(t, "auth_bind"), UNCHANGED sessions
      PROVE  JobsNamed' /\ SessionsNamed'
  BY <1>a, <1>u, AnswerNamed
<1>1. CASE InitInsert(t, Fresh)
  <2>1. PICK old \in SUBSET {s \in Tids : sessions[s].open}, tid \in Fresh :
          /\ sessions' = [s \in Tids |-> IF s = tid THEN NewSession
                                         ELSE IF s \in old THEN NoSession
                                         ELSE sessions[s]]
          /\ Becomes(t, [job[t] EXCEPT !.pc = "reply", !.reply = "ok", !.tid = tid])
    BY <1>1 DEF InitInsert
  <2> DEFINE j == [job[t] EXCEPT !.pc = "reply", !.reply = "ok", !.tid = tid]
  <2>2. j.pc = "reply" /\ j.call = "initiate"
    BY <1>1, <1>j DEF InitInsert, At, JobOK, Job
  <2>3. JobsNamed'
    BY <2>1, <2>2, NamedElsewhere, JobsNamedStep
  <2>4. \A s \in Tids : sessions'[s].order \in {NoOrder, sessions[s].order}
    BY <2>1 DEF NewSession, NoSession
  <2>5. ~At(t, "auth_bind")
    BY <1>1 DEF InitInsert, At
  <2>6. QED
    BY <1>n, <2>3, <2>4, <2>5, SessionsNamedStep
<1>2. CASE AuthList(t)
  <2>1. ASSUME NEW o,
               Becomes(t, [job[t] EXCEPT !.pc = "auth_session", !.order = o])
        PROVE  JobsNamed'
    <3>1. [job[t] EXCEPT !.pc = "auth_session", !.order = o].pc = "auth_session"
      BY <1>j DEF Job
    <3>2. QED
      BY <2>1, <3>1, NamedElsewhere, JobsNamedStep
  <2>2. QED
    BY <1>2, <1>a, <1>u, <2>1 DEF AuthList, At
<1>3. CASE AuthSession(t)
  BY <1>3, AuthSessionNamed
<1>4. CASE AuthBind(t)
  BY <1>4, AuthBindNamed
<1>5. CASE AuthState(t)
  <2>1. job[t].call = "authenticate"
    BY <1>5, <1>j DEF AuthState, At, JobOK, AuthPoints
  <2>2. QED
    BY <1>5, <1>a, <2>1 DEF AuthState, At
<1>6. CASE BppLock(t)
  BY <1>6, <1>u, BppLockNamed DEF BppLock, At
<1>7. CASE BppBuild(t)
  <2>1. job[t].order \in OrderIds /\ Named(job[t].order, orders)
    BY <1>7, <1>j, <1>n DEF BppBuild, At, JobOK, JobNamed
  <2>2. JobsNamed'
    BY <1>7, <2>1, GotoNamed DEF BppBuild, KeepsNames
  <2>3. \A s \in Tids : sessions'[s].order \in {NoOrder, sessions[s].order}
    BY <1>7 DEF BppBuild, NoSession
  <2>4. QED
    BY <1>7, <1>n, <2>2, <2>3, SessionsNamedStep DEF BppBuild, At
<1>8. CASE BppState(t)
  <2> DEFINE j == [job[t] EXCEPT !.pc = "reply", !.reply = "ok",
                                !.known = FALSE, !.verified = FALSE]
  <2>1. j.pc = "reply" /\ j.order = job[t].order
    BY DEF Job
  <2>2. job[t].order \in OrderIds /\ Named(job[t].order, orders)
    BY <1>8, <1>j, <1>n DEF BppState, At, JobOK, JobNamed
  <2>3. JobNamed(j, orders')
    BY <2>1, <2>2 DEF JobNamed, KeepsNames
  <2>4. QED
    BY <1>8, <1>u, <2>3, JobsNamedStep DEF BppState, Answer, At
<1>9. CASE NoteRead(t)
  BY <1>9, <1>u, NoteReadNamed DEF NoteRead, At
<1>10. CASE NoteRecord(t)
  BY <1>10, <1>u, NoteRecordNamed DEF NoteRecord, At
<1>11. CASE NoteState(t)
  <2>1. job[t].call = "notify"
    BY <1>11, <1>j DEF NoteState, At, JobOK, NotePoints
  <2>2. QED
    BY <1>11, <1>a, <2>1 DEF NoteState, At
<1>12. CASE InitFail(t) \/ AuthFail(t) \/ BppFail(t)
  BY <1>12, <1>a DEF InitFail, AuthFail, BppFail, At
<1>13. QED
  BY <1>1, <1>2, <1>3, <1>4, <1>5, <1>6, <1>7, <1>8, <1>9, <1>10, <1>11, <1>12
     DEF Handler

(* A row that is not there yet names nobody: only an order found on offer  *)
(* is bound, and no row is ever deleted.                                   *)
LEMMA AbsentStep ==
  ASSUME TypeInv, OfferInv, AbsentUnnamed, [Next]_vars
  PROVE  AbsentUnnamed'
<1> USE TypeParts
<1>1. ASSUME NEW o \in OrderIds, orders'[o].state = "Absent"
      PROVE  orders'[o].cert = orders[o].cert
  <2>0. orders[o].state = "Absent"
    BY <1>1, StepGrows DEF Grows
  <2>1. CASE UNCHANGED orders
    BY <2>1
  <2>s. ASSUME NEW p \in OrderIds, NEW s \in OrderStates, SetState(p, s)
        PROVE  orders'[o].cert = orders[o].cert
    BY <2>s, StatementsGrow
  <2>2. ASSUME NEW t \in Threads, Work(t)
        PROVE  orders'[o].cert = orders[o].cert
    <3>j. JobOK(job[t])
      BY DEF JobsOK
    <3>1. CASE AuthBind(t)
      <4>1. /\ job[t].order \in OrderIds /\ job[t].card \in Cards
            /\ orders[job[t].order].state # "Absent"
        BY <3>1, <3>j
           DEF AuthBind, At, JobOK, AuthPoints, OfferInv, JobOffers, Offering
      <4>2. QED
        BY <2>0, <2>1, <3>1, <4>1, StatementsGrow DEF AuthBind, OrFault
    <3>2. CASE AuthState(t) \/ BppState(t) \/ NoteState(t)
      <4>1. job[t].order \in OrderIds
        BY <3>2, <3>j DEF AuthState, BppState, NoteState, At, JobOK
      <4>2. PICK s \in OrderStates :
              OrFault("write", SetState(job[t].order, s), orders)
        BY <3>2 DEF AuthState, BppState, NoteState, OrderStates
      <4>3. QED
        BY <2>1, <2>s, <4>1, <4>2 DEF OrFault
    <3>3. QED
      BY <2>1, <2>2, <3>1, <3>2
         DEF Work, Handler, storeVars, InitInsert, InitFail, AuthList,
             AuthSession, AuthFail, BppLock, BppBuild, BppFail, NoteRead,
             NoteRecord
  <2>3. CASE OrderAdd
    <3>1. PICK p \in OrderIds, iccid \in Iccids, profile \in Iccids :
            AddOrder(p, iccid, profile)
      BY <2>3 DEF OrderAdd
    <3>2. orders'[p].state = "Available" /\ \A q \in OrderIds \ {p} : orders'[q] = orders[q]
      BY <3>1 DEF AddOrder
    <3>3. QED
      BY <1>1, <3>2
  <2>4. ASSUME NEW p \in OrderIds, OrderReset(p)
        PROVE  orders'[o].cert = orders[o].cert
    BY <2>s, <2>4 DEF OrderReset, OrderStates
  <2>5. QED
    BY <2>1, <2>2, <2>3, <2>4
       DEF Next, vars, storeVars, Reply, HangUp, Download, Initiate,
           Authenticate, GetBpp, Notify, Take, Operate, Crash
<1>2. ASSUME NEW o \in OrderIds, orders'[o].state = "Absent"
      PROVE  orders[o].state = "Absent"
  BY <1>2, StepGrows DEF Grows
<1>3. QED
  BY <1>1, <1>2 DEF AbsentUnnamed, Present, Named

(* Only a handler that has seen an order name somebody takes it past       *)
(* Available.                                                              *)
LEMMA PastStep ==
  ASSUME TypeInv, NamedInv, KeepsNames, [Next]_vars
  PROVE  PastNamed'
<1> USE TypeParts
<1> SUFFICES ASSUME NEW o \in OrderIds, orders'[o].state \in Past
             PROVE  Named(o, orders')
  BY DEF PastNamed
<1>1. CASE orders[o].state \in Past
  BY <1>1 DEF NamedInv, PastNamed, KeepsNames
<1>2. CASE UNCHANGED orders
  BY <1>1, <1>2
<1>3. ASSUME NEW t \in Threads, Work(t)
      PROVE  Named(o, orders')
  <2>j. JobOK(job[t]) /\ JobNamed(job[t], orders)
    BY DEF JobsOK, NamedInv, JobsNamed
  <2>1. CASE AuthBind(t)
    <3>1. job[t].order \in OrderIds /\ job[t].card \in Cards
      BY <2>1, <2>j DEF AuthBind, At, JobOK, AuthPoints
    <3>2. orders'[o].state = orders[o].state
      BY <2>1, <3>1, StatementsGrow DEF AuthBind, OrFault
    <3>3. QED
      BY <1>1, <3>2
  <2>2. CASE AuthState(t) \/ BppState(t) \/ NoteState(t)
    <3>1. job[t].order \in OrderIds /\ Named(job[t].order, orders)
      BY <2>2, <2>j DEF AuthState, BppState, NoteState, At, JobOK, JobNamed
    <3>2. PICK s \in OrderStates :
            OrFault("write", SetState(job[t].order, s), orders)
      BY <2>2 DEF AuthState, BppState, NoteState, OrderStates
    <3>3. orders'[o].state = orders[o].state \/ o = job[t].order
      BY <3>1, <3>2, StatementsGrow DEF OrFault
    <3>4. QED
      BY <1>1, <3>1, <3>3 DEF KeepsNames
  <2>3. QED
    BY <1>2, <1>3, <2>1, <2>2
       DEF Work, Handler, storeVars, InitInsert, InitFail, AuthList,
           AuthSession, AuthFail, BppLock, BppBuild, BppFail, NoteRead,
           NoteRecord
<1>4. CASE OrderAdd \/ \E p \in OrderIds : OrderReset(p)
  <2>1. orders'[o].state # "Available"
    BY DEF Past
  <2>2. QED
    BY <1>1, <1>4, <2>1, CommandLineOffers
<1>5. QED
  BY <1>2, <1>3, <1>4
     DEF Next, vars, storeVars, Reply, HangUp, Download, Initiate,
         Authenticate, GetBpp, Notify, Take, Operate, Crash

(* The jobs and the sessions, when no handler moves.                       *)
LEMMA NamesUnchanged ==
  ASSUME TypeInv, WitnessInv, NamedInv, KeepsNames,
         UNCHANGED <<sessions, job>>,
         \A o \in OrderIds : Named(o, orders) =>
                               orders'[o].cert = orders[o].cert
  PROVE  JobsNamed' /\ SessionsNamed'
<1> USE TypeParts
<1>1. \A t \in Threads : JobNamed(job[t], orders')
  <2> SUFFICES ASSUME NEW t \in Threads
               PROVE  JobNamed(job[t], orders')
    OBVIOUS
  <2>1. JobNamed(job[t], orders) /\ JobOK(job[t]) /\ job[t] \in Job
    BY DEF NamedInv, JobsNamed, JobsOK
  <2>2. Named(job[t].order, orders) /\ job[t].order \in OrderIds =>
          /\ Named(job[t].order, orders')
          /\ orders'[job[t].order].cert = orders[job[t].order].cert
    BY DEF KeepsNames
  <2>3. job[t].pc = "note_record" /\ job[t].verified /\ job[t].note.kind = "result"
          => job[t].order \in OrderIds
    BY <2>1 DEF WitnessInv, JobsWitnessed, JobWitness
  <2>4. QED
    BY <2>1, <2>2, <2>3 DEF JobNamed, JobOK
<1>2. \A s \in Tids : sessions[s].order \in OrderIds \cup {NoOrder}
  BY DEF Session
<1>3. SessionsNamed'
  BY <1>2 DEF NamedInv, SessionsNamed, KeepsNames, At
<1>4. QED
  BY <1>1, <1>3 DEF JobsNamed

LEMMA NamedStep ==
  ASSUME OneThread, NoBadWrites
  PROVE  TypeInv /\ WitnessInv /\ OfferInv /\ NamedInv /\ [Next]_vars => NamedInv'
<1> SUFFICES ASSUME TypeInv, WitnessInv, OfferInv, NamedInv, [Next]_vars
             PROVE  NamedInv'
  OBVIOUS
<1> USE TypeParts
<1>k. KeepsNames /\ AbsentUnnamed' /\ PastNamed'
  BY NamesKept, AbsentStep, PastStep DEF NamedInv
<1> SUFFICES JobsNamed' /\ SessionsNamed'
  BY <1>k DEF NamedInv
<1>q. ASSUME UNCHANGED <<sessions, job, orders>>
      PROVE  JobsNamed' /\ SessionsNamed'
  BY <1>k, <1>q, NamesUnchanged
<1>t. ASSUME NEW t \in Threads, ~At(t, "auth_bind"), UNCHANGED sessions
      PROVE  SessionsNamed'
  BY <1>k, <1>t, SessionsNamedStep DEF NamedInv
<1>1. ASSUME NEW t \in Threads, Work(t)
      PROVE  JobsNamed' /\ SessionsNamed'
  BY <1>k, <1>1, WorkNamed DEF Work
<1>2. ASSUME NEW t \in Threads, Reply(t)
      PROVE  JobsNamed' /\ SessionsNamed'
  <2>1. Idle.pc = "idle"
    BY DEF Idle
  <2>2. QED
    BY <1>2, <1>t, <2>1, NamedElsewhere, JobsNamedStep DEF Reply, At
<1>3. ASSUME NEW t \in Threads, HangUp(t)
      PROVE  JobsNamed' /\ SessionsNamed'
  <2> DEFINE j == [job[t] EXCEPT !.client = NoCard]
  <2>1. /\ j.pc = job[t].pc /\ j.order = job[t].order /\ j.known = job[t].known
        /\ j.note = job[t].note /\ j.verified = job[t].verified
        /\ j.reply = job[t].reply /\ j.call = job[t].call
    BY DEF Job
  <2>2. JobNamed(j, orders)
    BY <2>1 DEF NamedInv, JobsNamed, JobNamed
  <2>3. JobsNamed'
    BY <1>3, <2>2, JobsNamedStep DEF HangUp, storeVars
  <2>4. \A u \in Threads : job'[u] = j
    BY <1>3, OnlyJob DEF HangUp
  <2>5. SessionsNamed'
    <3>1. \A u \in Threads : job'[u].pc = job[u].pc /\ job'[u].order = job[u].order
      BY <2>1, <2>4 DEF OneThread
    <3>2. QED
      BY <1>3, <3>1 DEF HangUp, storeVars, NamedInv, SessionsNamed, At
  <2>6. QED
    BY <2>3, <2>5
<1>4. ASSUME NEW t \in Threads, NEW c, NEW j,
             \/ j.pc = "init_insert" \/ j.pc = "auth_list"
             \/ j.pc = "bpp_lock" \/ j.pc = "note_read",
             Take(t, c, j)
      PROVE  JobsNamed' /\ SessionsNamed'
  BY <1>4, <1>t, NamedElsewhere, JobsNamedStep DEF Take, At
<1>5. ASSUME NEW t \in Threads, NEW c \in Cards, Download(t, c)
      PROVE  JobsNamed' /\ SessionsNamed'
  <2>1. /\ Request(c, "initiate", "init_insert").pc = "init_insert"
        /\ Request(c, "authenticate", "auth_list").pc = "auth_list"
        /\ \A d : [Request(c, "package", "bpp_lock") EXCEPT !.card = d].pc
                    = "bpp_lock"
    BY DEF Request, Idle
  <2>2. QED
    BY <1>4, <1>5, <2>1 DEF Download, Initiate, Authenticate, GetBpp
<1>6. ASSUME NEW t \in Threads, NEW n \in pending, Notify(t, n)
      PROVE  JobsNamed' /\ SessionsNamed'
  <2> DEFINE j(form) == [Idle EXCEPT !.pc = "note_read", !.call = "notify",
                                    !.client = n.card, !.card = n.card,
                                    !.note = [n EXCEPT !.form = form]]
  <2>1. PICK form \in Forms : Take(t, n.card, j(form))
    BY <1>6 DEF Notify
  <2>2. j(form).pc = "note_read"
    BY DEF Idle
  <2>3. QED
    BY <1>4, <2>1, <2>2
<1>7. ASSUME NEW c \in Cards, Operate(c)
      PROVE  JobsNamed' /\ SessionsNamed'
  BY <1>7, <1>q DEF Operate, serverVars, storeVars
<1>8. CASE OrderAdd
  <2>1. \A o \in OrderIds : Named(o, orders) => orders'[o].cert = orders[o].cert
    BY <1>8 DEF OrderAdd, AddOrder, NamedInv, AbsentUnnamed
  <2>2. QED
    BY <1>k, <1>8, <2>1, NamesUnchanged DEF OrderAdd, serverVars
<1>9. ASSUME NEW o \in OrderIds, OrderReset(o)
      PROVE  JobsNamed' /\ SessionsNamed'
  BY <1>k, <1>9, NamesUnchanged, StatementsGrow DEF OrderReset, OrderStates
<1>10. CASE Crash
  BY <1>10 DEF Crash, JobsNamed, JobNamed, SessionsNamed, Idle, NoSession
<1>11. CASE UNCHANGED vars
  BY <1>11, <1>q DEF vars, storeVars, serverVars
<1>12. QED
  BY <1>1, <1>2, <1>3, <1>5, <1>6, <1>7, <1>8, <1>9, <1>10, <1>11 DEF Next

LEMMA InitNamed == Init => NamedInv
BY DEF Init, StoreInit, ServerInit, NamedInv, JobsNamed, JobNamed, SessionsNamed,
       AbsentUnnamed, PastNamed, Named, Past, Present, Idle, NoSession, NoRow

THEOREM NamedInvariant ==
  ASSUME OneThread, NoBadWrites
  PROVE  Spec => []NamedInv
<1>1. Init => OfferInv /\ NamedInv
  BY InitOffer, InitNamed
<1>2. TypeInv /\ OfferInv /\ [Next]_vars => OfferInv'
  BY OfferStep
<1>3. TypeInv /\ WitnessInv /\ OfferInv /\ NamedInv /\ [Next]_vars => NamedInv'
  BY NamedStep
<1>4. QED
  BY <1>1, <1>2, <1>3, TypeInvariant, WitnessInvariant, PTL DEF Spec

(* On one thread, when no write fails and what the library accepted can be *)
(* read, an order that authenticate_client has bound, or that has gone on  *)
(* from there, names an eUICC that authenticated against it, between any   *)
(* two statements and after any crash.                                     *)
THEOREM BoundNamesEuicc ==
  ASSUME OneThread, NoBadWrites
  PROVE  Spec => []BoundHasEuicc
<1>1. NamedInv /\ WitnessInv => BoundHasEuicc
  BY DEF NamedInv, PastNamed, Named, Past, WitnessInv, CertsAuthenticated,
         BoundHasEuicc
<1>2. QED
  BY <1>1, NamedInvariant, WitnessInvariant, PTL

=============================================================================
