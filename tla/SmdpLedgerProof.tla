-------------------------- MODULE SmdpLedgerProof ---------------------------
(***************************************************************************)
(* The whole system implements OrderLedger, for any number of eUICCs,      *)
(* orders, transactions and ICCIDs: the initial states map to initial      *)
(* states, and every step to one entry of the ledger or to none.  For one  *)
(* thread, and a store and an LPA that deliver what they are given.  And   *)
(* the ledger promises enough: the properties of orders and notifications  *)
(* follow from it.                                                         *)
(***************************************************************************)
EXTENDS SmdpSerialProof, SmdpLedger

(* Reads may still fail, and a notification may still be tampered with.    *)
Dependable == Faults \subseteq {"read"} /\ "unreadable" \notin Forms

statusBar == [o \in OrderIds |-> orders[o].state]
numberBar == [o \in OrderIds |-> orders[o].iccid]
holderBar == [o \in OrderIds |-> orders[o].cert]
filedBar  == {Original(r.raw) : r \in notifications}

-----------------------------------------------------------------------------
(* What an eUICC signs is what the ledger lets it sign.                    *)

(* An order carries the ICCID of a Profile.                                *)
ProfilesKnown == \A o \in OrderIds : Present(o) => orders[o].profile \in Iccids

(* A notification stays on its eUICC while it is being delivered.          *)
JobKept(j, P) == j.call = "notify" => Intact(j.note) \in P

JobsKept == \A t \in Threads : JobKept(job[t], pending)

SignedInv ==
  /\ issued \subseteq Signed
  /\ ProfilesKnown
  /\ JobsKept

(* Which order a handler writes, it has seen: rows never go away.          *)
LEMMA WritesPresent ==
  ASSUME TypeInv, WitnessInv, OfferInv, NamedInv, NEW t \in Threads,
         job[t].pc \in {"auth_session", "auth_bind", "auth_state", "bpp_state",
                        "note_state"}
  PROVE  job[t].order \in OrderIds /\ Present(job[t].order)
<1>1. /\ JobOK(job[t]) /\ JobNamed(job[t], orders) /\ JobOffers(job[t], orders)
      /\ AbsentUnnamed
  BY TypeParts DEF JobsOK, NamedInv, JobsNamed, OfferInv
<1>2. job[t].order \in OrderIds
  BY <1>1 DEF JobOK
<1>3. QED
  BY <1>1, <1>2 DEF JobNamed, JobOffers, Offering, AbsentUnnamed, Present

LEMMA StatementsKeepProfiles ==
  ASSUME orders \in [OrderIds -> Order], NEW o \in OrderIds, Present(o)
  PROVE  \A p \in OrderIds :
           /\ \A s \in OrderStates : SetState(o, s) =>
                /\ orders'[p].profile = orders[p].profile
                /\ Present(p)' <=> Present(p)
           /\ \A c \in Cards : BindEuicc(o, c) =>
                /\ orders'[p].profile = orders[p].profile
                /\ Present(p)' <=> Present(p)
BY DEF SetState, BindEuicc, Order, Present, OrderStates

LEMMA ProfilesStep ==
  ASSUME TypeInv, WitnessInv, OfferInv, NamedInv, ProfilesKnown, [Next]_vars
  PROVE  ProfilesKnown'
<1> USE TypeParts
<1>1. CASE UNCHANGED orders
  BY <1>1 DEF ProfilesKnown, Present
<1>s. ASSUME NEW o \in OrderIds, Present(o), NEW s \in OrderStates, SetState(o, s)
      PROVE  ProfilesKnown'
  BY <1>s, StatementsKeepProfiles DEF ProfilesKnown
<1>2. ASSUME NEW t \in Threads, Work(t)
      PROVE  ProfilesKnown'
  <2>1. CASE AuthBind(t)
    <3>1. /\ job[t].order \in OrderIds /\ Present(job[t].order)
          /\ job[t].card \in Cards
      BY <2>1, WritesPresent DEF AuthBind, At, JobsOK, JobOK, AuthPoints
    <3>2. QED
      BY <1>1, <2>1, <3>1, StatementsKeepProfiles
         DEF AuthBind, OrFault, ProfilesKnown
  <2>2. CASE AuthState(t) \/ BppState(t) \/ NoteState(t)
    <3>1. job[t].order \in OrderIds /\ Present(job[t].order)
      BY <2>2, WritesPresent DEF AuthState, BppState, NoteState, At
    <3>2. PICK s \in OrderStates :
            OrFault("write", SetState(job[t].order, s), orders)
      BY <2>2 DEF AuthState, BppState, NoteState, OrderStates
    <3>3. QED
      BY <1>1, <1>s, <3>1, <3>2 DEF OrFault
  <2>3. QED
    BY <1>1, <1>2, <2>1, <2>2
       DEF Work, Handler, storeVars, InitInsert, InitFail, AuthList,
           AuthSession, AuthFail, BppLock, BppBuild, BppFail, NoteRead,
           NoteRecord
<1>3. CASE OrderAdd
  <2>1. PICK o \in OrderIds, iccid \in Iccids, profile \in Iccids :
          AddOrder(o, iccid, profile)
    BY <1>3 DEF OrderAdd
  <2>2. /\ orders'[o].profile = profile
        /\ \A p \in OrderIds \ {o} : orders'[p] = orders[p]
    BY <2>1 DEF AddOrder
  <2>3. QED
    BY <2>2 DEF ProfilesKnown, Present
<1>4. ASSUME NEW o \in OrderIds, OrderReset(o)
      PROVE  ProfilesKnown'
  BY <1>4, <1>s DEF OrderReset, OrderStates
<1>5. QED
  BY <1>1, <1>2, <1>3, <1>4
     DEF Next, vars, storeVars, Reply, HangUp, Download, Initiate,
         Authenticate, GetBpp, Notify, Take, Operate, Crash

(* What Sign adds.                                                         *)
Signing(c, kind, iccid, ok) ==
  [kind |-> kind, card |-> c, iccid |-> iccid, ok |-> ok, form |-> "intact"]

LEMMA SigningSigned ==
  ASSUME NEW c \in Cards, NEW kind \in Kinds, NEW iccid \in Iccids,
         NEW ok \in BOOLEAN, kind = "other" => ~ok
  PROVE  Signing(c, kind, iccid, ok) \in Signed
BY SmdpAssumption DEF Signing, Signed, Note

LEMMA SignAdds ==
  ASSUME NEW c, NEW kind, NEW iccid, NEW ok, Sign(c, kind, iccid, ok)
  PROVE  /\ issued' = issued \cup {Signing(c, kind, iccid, ok)}
         /\ pending' = pending \cup {Signing(c, kind, iccid, ok)}
BY DEF Sign, Signing

(* An installation signs a result or nothing, an operation something else. *)
LEMMA InstallSigns ==
  ASSUME TypeInv, NamedInv, ProfilesKnown, NEW t \in Threads, At(t, "reply"),
         job[t].client # NoCard, job[t].reply = "ok", job[t].call = "package",
         Install(job[t].client, job[t].order)
  PROVE  \/ UNCHANGED <<issued, pending>>
         \/ \E n \in Signed : /\ issued' = issued \cup {n}
                              /\ pending' = pending \cup {n}
<1>1. job[t].client \in Cards /\ job[t].order \in OrderIds
  BY TypeParts DEF Job, JobsOK, JobOK, At
<1>2. orders[job[t].order].profile \in Iccids
  BY <1>1 DEF NamedInv, JobsNamed, JobNamed, AbsentUnnamed, ProfilesKnown, At
<1>3. CASE "result" \in Kinds
  <2>1. PICK ok \in BOOLEAN :
          Sign(job[t].client, "result", orders[job[t].order].profile, ok)
    BY <1>3 DEF Install
  <2>2. QED
    BY <1>1, <1>2, <1>3, <2>1, SignAdds, SigningSigned
<1>4. QED
  BY <1>3 DEF Install

LEMMA OperateSigns ==
  ASSUME issued \subseteq Signed, NEW c \in Cards, Operate(c)
  PROVE  \E n \in Signed : /\ issued' = issued \cup {n}
                           /\ pending' = pending \cup {n}
<1>1. PICK n \in issued : Sign(c, "other", n.iccid, FALSE)
  BY DEF Operate
<1>2. n.iccid \in Iccids /\ "other" \in Kinds
  BY DEF Signed, Operate
<1>3. Signing(c, "other", n.iccid, FALSE) \in Signed
  BY <1>2, SigningSigned
<1>4. QED
  BY <1>1, <1>3, SignAdds

-----------------------------------------------------------------------------
LEMMA HandlerKeepsRequest ==
  ASSUME TypeInv, NEW t \in Threads, Handler(t, Fresh)
  PROVE  job'[t].call = job[t].call /\ job'[t].note = job[t].note
<1> USE TypeParts
<1>1. ASSUME NEW j, Becomes(t, j), j.call = job[t].call, j.note = job[t].note
      PROVE  job'[t].call = job[t].call /\ job'[t].note = job[t].note
  BY <1>1, BecomesAt
<1>2. ASSUME NEW pc, Goto(t, pc)
      PROVE  job'[t].call = job[t].call /\ job'[t].note = job[t].note
  BY <1>1, <1>2 DEF Goto, Job
<1>3. ASSUME NEW r, Answer(t, r)
      PROVE  job'[t].call = job[t].call /\ job'[t].note = job[t].note
  BY <1>1, <1>3 DEF Answer, Job
<1>4. CASE InitInsert(t, Fresh)
  <2>1. PICK tid \in Fresh :
          Becomes(t, [job[t] EXCEPT !.pc = "reply", !.reply = "ok", !.tid = tid])
    BY <1>4 DEF InitInsert
  <2>2. QED
    BY <1>1, <2>1 DEF Job
<1>5. CASE AuthList(t)
  <2>1. ASSUME NEW o,
               Becomes(t, [job[t] EXCEPT !.pc = "auth_session", !.order = o])
        PROVE  job'[t].call = job[t].call /\ job'[t].note = job[t].note
    BY <1>1, <2>1 DEF Job
  <2>2. QED
    BY <1>3, <1>5, <2>1 DEF AuthList
<1>6. CASE AuthSession(t)
  <2>1. CASE Becomes(t, [job[t] EXCEPT !.pc = "auth_bind", !.known = TRUE])
    BY <1>1, <2>1 DEF Job
  <2>2. QED
    BY <1>2, <1>3, <1>6, <2>1 DEF AuthSession
<1>7. CASE BppLock(t)
  <2>1. ASSUME NEW o,
               Becomes(t, [job[t] EXCEPT !.pc = "bpp_build", !.order = o])
        PROVE  job'[t].call = job[t].call /\ job'[t].note = job[t].note
    BY <1>1, <2>1 DEF Job
  <2>2. QED
    BY <1>3, <1>7, <2>1 DEF BppLock
<1>8. CASE NoteRead(t)
  <2>1. PICK o \in OrderIds \cup {NoOrder}, verified \in BOOLEAN :
          Becomes(t, [job[t] EXCEPT !.pc = "note_record", !.order = o,
                                    !.verified = verified])
    BY <1>8 DEF NoteRead, Verifies
  <2>2. QED
    BY <1>1, <2>1 DEF Job
<1>9. QED
  BY <1>2, <1>3, <1>4, <1>5, <1>6, <1>7, <1>8
     DEF Handler, InitFail, AuthFail, AuthBind, AuthState, BppBuild, BppFail,
         BppState, NoteRecord, NoteState

LEMMA KeptStep ==
  ASSUME OneThread
  PROVE  TypeInv /\ WitnessInv /\ JobsKept /\ [Next]_vars => JobsKept'
<1> SUFFICES ASSUME TypeInv, WitnessInv, JobsKept, [Next]_vars
             PROVE  JobsKept'
  OBVIOUS
<1> USE TypeParts
<1>q. ASSUME UNCHANGED job, pending \subseteq pending'
      PROVE  JobsKept'
  BY <1>q DEF JobsKept, JobKept
<1>o. ASSUME NEW t \in Threads, NEW j, Becomes(t, j), JobKept(j, pending')
      PROVE  JobsKept'
  BY <1>o, OnlyJob DEF JobsKept
<1>1. ASSUME NEW t \in Threads, Work(t)
      PROVE  JobsKept'
  <2>1. job'[t].call = job[t].call /\ job'[t].note = job[t].note
    BY <1>1, HandlerKeepsRequest DEF Work
  <2>2. \A u \in Threads : u = t
    BY DEF OneThread
  <2>3. pending' = pending
    BY <1>1 DEF Work, clientVars
  <2>4. QED
    BY <2>1, <2>2, <2>3 DEF JobsKept, JobKept
<1>2. ASSUME NEW t \in Threads, Reply(t)
      PROVE  JobsKept'
  BY <1>2, <1>o DEF Reply, JobKept, Idle
<1>3. ASSUME NEW t \in Threads, HangUp(t)
      PROVE  JobsKept'
  <2> DEFINE j == [job[t] EXCEPT !.client = NoCard]
  <2>1. j.call = job[t].call /\ j.note = job[t].note
    BY DEF Job
  <2>2. JobKept(j, pending')
    BY <1>3, <2>1 DEF HangUp, JobsKept, JobKept
  <2>3. QED
    BY <1>3, <1>o, <2>2 DEF HangUp
<1>4. ASSUME NEW t \in Threads, NEW c \in Cards, Download(t, c)
      PROVE  JobsKept'
  <2>1. ASSUME NEW j, j.call # "notify", Take(t, c, j)
        PROVE  JobsKept'
    BY <1>o, <2>1 DEF Take, JobKept
  <2>2. /\ Request(c, "initiate", "init_insert").call = "initiate"
        /\ Request(c, "authenticate", "auth_list").call = "authenticate"
        /\ \A d : [Request(c, "package", "bpp_lock") EXCEPT !.card = d].call
                    = "package"
    BY DEF Request, Idle
  <2>3. QED
    BY <1>4, <2>1, <2>2 DEF Download, Initiate, Authenticate, GetBpp
<1>5. ASSUME NEW t \in Threads, NEW n \in pending, Notify(t, n)
      PROVE  JobsKept'
  <2> DEFINE m(form) == [n EXCEPT !.form = form]
             j(form) == [Idle EXCEPT !.pc = "note_read", !.call = "notify",
                                    !.client = n.card, !.card = n.card,
                                    !.note = m(form)]
  <2>1. PICK form \in Forms : Take(t, n.card, j(form))
    BY <1>5 DEF Notify
  <2>2. n \in Note /\ n.form = "intact"
    BY DEF WitnessInv, NotesGenuine
  <2>3. Intact(m(form)) = n
    BY <2>2 DEF Note, Intact
  <2>4. j(form).note = m(form)
    BY DEF Idle
  <2>5. pending' = pending
    BY <2>1 DEF Take, clientVars
  <2>6. JobKept(j(form), pending')
    BY <2>3, <2>4, <2>5 DEF JobKept
  <2>7. QED
    BY <1>o, <2>1, <2>6 DEF Take
<1>6. ASSUME NEW c \in Cards, Operate(c)
      PROVE  JobsKept'
  <2>1. pending \subseteq pending'
    BY <1>6 DEF Operate, Sign
  <2>2. QED
    BY <1>6, <1>q, <2>1 DEF Operate, serverVars
<1>7. CASE OrderAdd \/ \E o \in OrderIds : OrderReset(o)
  BY <1>7, <1>q DEF OrderAdd, OrderReset, serverVars, clientVars
<1>8. CASE Crash
  BY <1>8 DEF Crash, JobsKept, JobKept, Idle
<1>9. CASE UNCHANGED vars
  BY <1>9, <1>q DEF vars, serverVars, clientVars
<1>10. QED
  BY <1>1, <1>2, <1>3, <1>4, <1>5, <1>6, <1>7, <1>8, <1>9 DEF Next

LEMMA IssuedStep ==
  ASSUME TypeInv, NamedInv, ProfilesKnown, issued \subseteq Signed, [Next]_vars
  PROVE  issued' \subseteq Signed
<1> USE TypeParts
<1>1. ASSUME NEW t \in Threads, Reply(t)
      PROVE  issued' \subseteq Signed
  BY <1>1, InstallSigns DEF Reply, clientVars
<1>2. ASSUME NEW c \in Cards, Operate(c)
      PROVE  issued' \subseteq Signed
  BY <1>2, OperateSigns
<1>3. CASE UNCHANGED issued
  BY <1>3
<1>4. QED
  BY <1>1, <1>2, <1>3
     DEF Next, vars, clientVars, Work, HangUp, Download, Initiate,
         Authenticate, GetBpp, Notify, Take, OrderAdd, OrderReset, Crash

LEMMA InitSigned == Init => SignedInv
BY DEF Init, StoreInit, ServerInit, SignedInv, ProfilesKnown, Present, NoRow,
       JobsKept, JobKept, Idle

-----------------------------------------------------------------------------
(* Each step is an entry of the ledger or none.                            *)

LEMMA InitRefines == Init => Ledger!Init
BY DEF Init, StoreInit, ServerInit, NoRow, Ledger!Init

(* No entry: nothing the ledger speaks of has changed.                     *)
LEMMA Stutters ==
  ASSUME UNCHANGED <<orders, notifications, authed, issued, pending>>
  PROVE  UNCHANGED Ledger!vars
BY DEF Ledger!vars, Ledger!orderVars, Ledger!noteVars

(* What a statement does to the columns the ledger keeps.                  *)
LEMMA SetStateEntry ==
  ASSUME TypeInv, NEW o \in OrderIds, NEW s \in OrderStates, SetState(o, s)
  PROVE  /\ statusBar' = [statusBar EXCEPT ![o] = s]
         /\ UNCHANGED <<numberBar, holderBar>>
BY TypeParts, StatementsGrow DEF statusBar, numberBar, holderBar

LEMMA BindEntry ==
  ASSUME TypeInv, NEW o \in OrderIds, NEW c \in Cards, BindEuicc(o, c)
  PROVE  /\ holderBar' = [holderBar EXCEPT ![o] = c]
         /\ UNCHANGED <<statusBar, numberBar>>
BY TypeParts, StatementsGrow DEF statusBar, numberBar, holderBar

LEMMA AuthSessionEntry ==
  ASSUME TypeInv, OfferInv, NEW t \in Threads, AuthSession(t),
         UNCHANGED clientVars
  PROVE  Ledger!Next
<1>0. PICK o \in OrderIds, c \in Cards : o = job[t].order /\ c = job[t].card
  BY TypeParts DEF AuthSession, At, JobsOK, JobOK, AuthPoints
<1>1. /\ orders[o].state \in Ledger!OnOffer
  BY <1>0 DEF AuthSession, At, OfferInv,
     JobOffers, Offering, Ledger!OnOffer
<1>2. Ledger!Prove(o, c)
  BY <1>0, <1>1 DEF AuthSession, Ledger!Prove, storeVars, clientVars, Ledger!noteVars
<1>3. QED
  BY <1>2 DEF Ledger!Next

LEMMA AuthBindEntry ==
  ASSUME TypeInv, WitnessInv, OfferInv, NamedInv, Dependable,
         NEW t \in Threads, AuthBind(t),
         UNCHANGED clientVars
  PROVE  Ledger!Next
<1>0. PICK o \in OrderIds, c \in Cards : o = job[t].order /\ c = job[t].card
  BY TypeParts DEF AuthBind, At, JobsOK, JobOK, AuthPoints
<1>1. /\ orders[o].state \in Ledger!OnOffer
      /\ c \in authed[o] /\ job[t].known
  BY <1>0 DEF AuthBind, At, OfferInv,
     JobOffers, Offering, Ledger!OnOffer, WitnessInv, JobsWitnessed, JobWitness,
     NamedInv, JobsNamed, JobNamed
<1>2. BindEuicc(o, c)
  BY <1>0, <1>1 DEF AuthBind, OrFault, Dependable
<1>3. /\ holderBar' = [holderBar EXCEPT ![o] = c]
      /\ UNCHANGED <<statusBar, numberBar>>
  BY <1>2, BindEntry
<1>4. Ledger!Name(o, c)
  BY <1>1, <1>3
     DEF AuthBind, Ledger!Name, clientVars, Ledger!noteVars, statusBar,
         numberBar, holderBar
<1>5. QED
  BY <1>4 DEF Ledger!Next

LEMMA AuthStateEntry ==
  ASSUME TypeInv, WitnessInv, OfferInv, NamedInv, Dependable,
         NEW t \in Threads, AuthState(t),
         UNCHANGED clientVars
  PROVE  Ledger!Next
<1>0. PICK o \in OrderIds : o = job[t].order
  BY TypeParts DEF AuthState, At, JobsOK, JobOK
<1>1. /\ orders[o].state \in Ledger!OnOffer
      /\ orders[o].cert \in authed[o]
  BY <1>0 DEF AuthState, At, OfferInv, JobOffers, Offering,
     Ledger!OnOffer, WitnessInv, CertsAuthenticated, NamedInv, JobsNamed,
     JobNamed, Named
<1>2. SetState(o, "Bound")
  BY <1>0 DEF AuthState, OrFault, Dependable
<1>3. /\ statusBar' = [statusBar EXCEPT ![o] = "Bound"]
      /\ UNCHANGED <<numberBar, holderBar>>
  BY <1>2, SetStateEntry DEF OrderStates
<1>4. Ledger!Bind(o)
  BY <1>1, <1>3
     DEF AuthState, Ledger!Bind, Ledger!Becomes, clientVars, Ledger!noteVars,
         statusBar, numberBar, holderBar
<1>5. QED
  BY <1>4 DEF Ledger!Next

LEMMA BppStateEntry ==
  ASSUME TypeInv, WitnessInv, OfferInv, NamedInv, Dependable,
         NEW t \in Threads, BppState(t),
         UNCHANGED clientVars
  PROVE  Ledger!Next
<1>0. PICK o \in OrderIds : o = job[t].order
  BY TypeParts DEF BppState, At, JobsOK, JobOK
<1>1. /\ orders[o].state # "Absent"
      /\ orders[o].cert \in authed[o]
  BY <1>0, WritesPresent
     DEF BppState, At, Present, WitnessInv, CertsAuthenticated, NamedInv,
         JobsNamed, JobNamed, Named
<1>2. SetState(o, "Downloaded")
  BY <1>0 DEF BppState, OrFault, Dependable
<1>3. /\ statusBar' = [statusBar EXCEPT ![o] = "Downloaded"]
      /\ UNCHANGED <<numberBar, holderBar>>
  BY <1>2, SetStateEntry DEF OrderStates
<1>4. Ledger!HandOut(o)
  BY <1>1, <1>3
     DEF BppState, Ledger!HandOut, Ledger!Becomes, clientVars, Ledger!noteVars,
         statusBar, numberBar, holderBar
<1>5. QED
  BY <1>4 DEF Ledger!Next

(* The row handle_notification adds is of the notification it was given.   *)
LEMMA NoteRecordEntry ==
  ASSUME TypeInv, FilingInv, SignedInv, NotesGenuine, Dependable,
         NEW t \in Threads, NoteRecord(t), UNCHANGED clientVars
  PROVE  Ledger!Next
<1> USE TypeParts
<1> DEFINE note == job[t].note
           row == [order |-> job[t].order, raw |-> note,
                   verified |-> job[t].verified, installed |-> Verdict(job[t])]
<1>1. PICK n \in Signed : n = Intact(note) /\ n \in pending
  BY DEF NoteRecord, At, JobsOK, JobOK, NotePoints, SignedInv, JobsKept,
         JobKept, NotesGenuine
<1>2. note.form # "unreadable"
  BY DEF NoteRecord, At, FilingInv, JobsFiled, JobFiled, NotePoints
<1>3. notifications' = notifications \cup {row}
  BY <1>2 DEF NoteRecord, OrFault, RecordNotification, Dependable
<1>4. Original(row.raw) = n
  BY <1>1 DEF Original, Intact
<1>5. filedBar' = filedBar \cup {n}
  BY <1>3, <1>4 DEF filedBar
<1>6. Ledger!File(n)
  BY <1>1, <1>5
     DEF NoteRecord, Ledger!File, clientVars, Ledger!orderVars, filedBar
<1>7. QED
  BY <1>6 DEF Ledger!Next

(* The order a verified result moves names the eUICC that signed it.       *)
LEMMA NoteStateEntry ==
  ASSUME TypeInv, WitnessInv, OfferInv, NamedInv, FilingInv, SignedInv,
         Dependable, NEW t \in Threads, NoteState(t), UNCHANGED clientVars
  PROVE  Ledger!Next
<1> USE TypeParts
<1>0. PICK o \in OrderIds : o = job[t].order
  BY DEF NoteState, At, JobsOK, JobOK
<1>1. PICK n \in Signed : n = job[t].note /\ n \in issued
  BY DEF NoteState, At, WitnessInv, JobsWitnessed, JobWitness, SignedInv
<1>2. n.kind = "result" /\ orders[o].iccid = n.iccid /\ orders[o].cert = n.card
  <2>1. n.form # "unreadable" /\ job[t].order # NoOrder
    BY <1>0, <1>1 DEF Signed, OrderIds, NoOrder
  <2>2. QED
    BY <1>0, <1>1, <2>1
       DEF NoteState, At, WitnessInv, JobsWitnessed, JobWitness, NamedInv,
           JobsNamed, JobNamed
<1>3. PICK s \in OrderStates : s = IF n.ok THEN "Downloaded" ELSE "Failed"
  BY DEF OrderStates
<1>4. SetState(o, s)
  BY <1>0, <1>1, <1>3 DEF NoteState, OrFault, Dependable
<1>5. /\ statusBar' = [statusBar EXCEPT ![o] = s]
      /\ UNCHANGED <<numberBar, holderBar>>
  BY <1>4, SetStateEntry
<1>6. Ledger!Report(o, n)
  BY <1>1, <1>2, <1>3, <1>5
     DEF NoteState, Ledger!Report, Ledger!Becomes, clientVars, Ledger!noteVars,
         statusBar, numberBar, holderBar
<1>7. QED
  BY <1>6 DEF Ledger!Next

LEMMA SignEntry ==
  ASSUME NEW n \in Signed, issued' = issued \cup {n}, pending' = pending \cup {n},
         UNCHANGED <<orders, notifications, authed>>
  PROVE  Ledger!Next
<1>1. Ledger!Sign(n)
  BY DEF Ledger!Sign, Ledger!orderVars
<1>2. QED
  BY <1>1 DEF Ledger!Next

(* A 204 that arrives is of a notification the table keeps.                *)
LEMMA ForgetEntry ==
  ASSUME TypeInv, WitnessInv, FilingInv, SignedInv, NEW t \in Threads,
         At(t, "reply"), job[t].call = "notify",
         pending' = pending \ {Intact(job[t].note)},
         UNCHANGED <<issued, orders, notifications, authed>>
  PROVE  Ledger!Next
<1>1. PICK n \in Signed : n = Intact(job[t].note)
  BY DEF SignedInv, JobsKept, JobKept, WitnessInv, NotesGenuine
<1>2. Filed(n, notifications)
  BY <1>1 DEF At, FilingInv, JobsFiled, JobFiled
<1>3. n \in filedBar
  BY <1>2 DEF Filed, Intact, Original, filedBar
<1>4. Ledger!Forget(n)
  BY <1>1, <1>3 DEF Ledger!Forget, Ledger!orderVars, filedBar
<1>5. QED
  BY <1>4 DEF Ledger!Next

LEMMA ReplyEntry ==
  ASSUME TypeInv, WitnessInv, NamedInv, FilingInv, SignedInv, NEW t \in Threads,
         Reply(t)
  PROVE  [Ledger!Next]_(Ledger!vars)
<1>1. UNCHANGED <<orders, notifications, authed>>
  BY DEF Reply, storeVars
<1>2. CASE UNCHANGED <<issued, pending>>
  BY <1>1, <1>2, Stutters
<1>3. CASE /\ job[t].client # NoCard
           /\ job[t].reply = "ok" /\ job[t].call = "package"
           /\ Install(job[t].client, job[t].order)
  <2>1. CASE \E n \in Signed : /\ issued' = issued \cup {n}
                               /\ pending' = pending \cup {n}
    BY <1>1, <2>1, SignEntry
  <2>2. QED
    BY <1>2, <1>3, <2>1, InstallSigns DEF Reply, SignedInv
<1>4. CASE /\ job[t].call = "notify"
           /\ pending' = pending \ {Intact(job[t].note)}
           /\ UNCHANGED issued
  BY <1>1, <1>4, ForgetEntry DEF Reply
<1>5. QED
  BY <1>2, <1>3, <1>4 DEF Reply, clientVars, Intact

LEMMA OrderAddEntry ==
  ASSUME TypeInv, NamedInv, OrderAdd
  PROVE  Ledger!Next
<1> USE TypeParts
<1>1. PICK o \in OrderIds, iccid \in Iccids, profile \in Iccids :
        AddOrder(o, iccid, profile)
  BY DEF OrderAdd
<1>2. orders[o].state = "Absent" /\ orders[o].cert = NoCard
  BY <1>1 DEF AddOrder, Present, NamedInv, AbsentUnnamed, Named
<1>3. /\ statusBar' = [statusBar EXCEPT ![o] = "Available"]
      /\ numberBar' = [numberBar EXCEPT ![o] = iccid]
      /\ holderBar' = holderBar
  BY <1>1, <1>2 DEF AddOrder, statusBar, numberBar, holderBar
<1>4. Ledger!Add(o, iccid)
  BY <1>2, <1>3
     DEF OrderAdd, Ledger!Add, Ledger!Becomes, clientVars, serverVars,
         Ledger!noteVars, statusBar, numberBar, holderBar
<1>5. QED
  BY <1>4 DEF Ledger!Next

LEMMA OrderResetEntry ==
  ASSUME TypeInv, NEW o \in OrderIds, OrderReset(o)
  PROVE  Ledger!Next
<1>1. /\ statusBar' = [statusBar EXCEPT ![o] = "Available"]
      /\ UNCHANGED <<numberBar, holderBar>>
  BY SetStateEntry DEF OrderReset, OrderStates
<1>2. Ledger!Reset(o)
  BY <1>1
     DEF OrderReset, Present, Ledger!Reset, Ledger!Becomes, Ledger!noteVars,
         statusBar, numberBar, holderBar
<1>3. QED
  BY <1>2 DEF Ledger!Next

LEMMA WorkEntry ==
  ASSUME TypeInv, WitnessInv, OfferInv, NamedInv, FilingInv, SignedInv,
         Dependable, NEW t \in Threads, Work(t)
  PROVE  [Ledger!Next]_(Ledger!vars)
<1>1. UNCHANGED clientVars
  BY DEF Work
<1>2. CASE AuthSession(t)
  BY <1>1, <1>2, AuthSessionEntry
<1>3. CASE AuthBind(t)
  BY <1>1, <1>3, AuthBindEntry
<1>4. CASE AuthState(t)
  BY <1>1, <1>4, AuthStateEntry
<1>5. CASE BppState(t)
  BY <1>1, <1>5, BppStateEntry
<1>6. CASE NoteRecord(t)
  BY <1>1, <1>6, NoteRecordEntry DEF WitnessInv
<1>7. CASE NoteState(t)
  BY <1>1, <1>7, NoteStateEntry
<1>8. CASE \/ InitInsert(t, Fresh) \/ InitFail(t) \/ AuthList(t) \/ AuthFail(t)
           \/ BppLock(t) \/ BppBuild(t) \/ BppFail(t) \/ NoteRead(t)
  <2>1. UNCHANGED <<orders, notifications, authed, issued, pending>>
    BY <1>1, <1>8
       DEF clientVars, storeVars, InitInsert, InitFail, AuthList, AuthFail,
           BppLock, BppBuild, BppFail, NoteRead
  <2>2. QED
    BY <2>1, Stutters
<1>9. QED
  BY <1>2, <1>3, <1>4, <1>5, <1>6, <1>7, <1>8 DEF Work, Handler

LEMMA LedgerStep ==
  ASSUME Dependable
  PROVE  TypeInv /\ WitnessInv /\ OfferInv /\ NamedInv /\ FilingInv /\ SignedInv
           /\ [Next]_vars => [Ledger!Next]_(Ledger!vars)
<1> SUFFICES ASSUME TypeInv, WitnessInv, OfferInv, NamedInv, FilingInv,
                    SignedInv, [Next]_vars
             PROVE  [Ledger!Next]_(Ledger!vars)
  OBVIOUS
<1>s. ASSUME UNCHANGED <<orders, notifications, authed, issued, pending>>
      PROVE  [Ledger!Next]_(Ledger!vars)
  BY <1>s, Stutters
<1>1. ASSUME NEW t \in Threads, Work(t) \/ Reply(t)
      PROVE  [Ledger!Next]_(Ledger!vars)
  BY <1>1, WorkEntry, ReplyEntry
<1>2. ASSUME NEW c \in Cards, Operate(c)
      PROVE  [Ledger!Next]_(Ledger!vars)
  <2>1. PICK n \in Signed : /\ issued' = issued \cup {n}
                            /\ pending' = pending \cup {n}
    BY <1>2, OperateSigns DEF SignedInv
  <2>2. UNCHANGED <<orders, notifications, authed>>
    BY <1>2 DEF Operate, serverVars, storeVars
  <2>3. QED
    BY <2>1, <2>2, SignEntry
<1>3. CASE OrderAdd \/ \E o \in OrderIds : OrderReset(o)
  BY <1>3, OrderAddEntry, OrderResetEntry
<1>4. ASSUME \/ \E t \in Threads : HangUp(t)
             \/ \E t \in Threads, c \in Cards : Download(t, c)
             \/ \E t \in Threads, n \in pending : Notify(t, n)
             \/ Crash
             \/ UNCHANGED vars
      PROVE  [Ledger!Next]_(Ledger!vars)
  BY <1>4, <1>s
     DEF HangUp, Download, Initiate, Authenticate, GetBpp, Notify, Take, Crash,
         vars, clientVars, serverVars, storeVars
<1>5. QED
  BY <1>1, <1>2, <1>3, <1>4 DEF Next

(* On one thread, when no write fails, what the library accepted can be    *)
(* read and a notification arrives readable, everything the server, the    *)
(* command line, crashes and lost connections do to the orders and the     *)
(* notifications is an entry of the ledger.                                *)
THEOREM ImplementsTheLedger ==
  ASSUME OneThread, Dependable
  PROVE  Spec => ImplementsLedger
<1>0. NoBadWrites /\ Reliable
  BY DEF Dependable, NoBadWrites, Reliable
<1>1. Init => OfferInv /\ FilingInv /\ SignedInv /\ Ledger!Init
  BY InitOffer, InitFiling, InitSigned, InitRefines
<1>2. TypeInv /\ OfferInv /\ [Next]_vars => OfferInv'
  BY OfferStep
<1>3. TypeInv /\ FilingInv /\ [Next]_vars => FilingInv'
  BY <1>0, FilingStep
<1>4. TypeInv /\ WitnessInv /\ OfferInv /\ NamedInv /\ SignedInv /\ [Next]_vars
        => SignedInv'
  BY KeptStep, ProfilesStep, IssuedStep DEF SignedInv
<1>5. TypeInv /\ WitnessInv /\ OfferInv /\ NamedInv /\ FilingInv /\ SignedInv
        /\ [Next]_vars => [Ledger!Next]_(Ledger!vars)
  BY LedgerStep
<1>6. Spec => []NamedInv
  BY <1>0, NamedInvariant
<1>7. QED
  BY <1>1, <1>2, <1>3, <1>4, <1>5, <1>6, TypeInvariant, WitnessInvariant, PTL
     DEF Spec, ImplementsLedger, Ledger!Spec

-----------------------------------------------------------------------------
(* The ledger is worth implementing: what the system promises of the       *)
(* orders and the notifications follows from it alone.                     *)

LedgerInv ==
  /\ authed \in [OrderIds -> SUBSET Cards]
  /\ issued \subseteq Signed
  /\ CertsAuthenticated
  /\ BoundHasEuicc
  /\ NoNotificationLost

(* The ledger's entries, in the columns the system has for them.           *)
LEMMA Columns ==
  /\ \A o \in OrderIds : /\ statusBar[o] = orders[o].state
                         /\ numberBar[o] = orders[o].iccid
                         /\ holderBar[o] = orders[o].cert
                         /\ statusBar'[o] = orders'[o].state
                         /\ numberBar'[o] = orders'[o].iccid
                         /\ holderBar'[o] = orders'[o].cert
  /\ NoNotificationLost <=> \A n \in issued : n \in pending \/ n \in filedBar
  /\ NoNotificationLost' <=> \A n \in issued' : n \in pending' \/ n \in filedBar'
BY DEF statusBar, numberBar, holderBar, filedBar, Original, NoNotificationLost

OrderColumnsKept ==
  /\ \A o \in OrderIds : /\ orders'[o].state = orders[o].state
                         /\ orders'[o].cert = orders[o].cert
  /\ authed' = authed

NoteColumnsKept == UNCHANGED <<issued, pending, filedBar>>

(* Only one order's state is written, and to what the ledger allows.       *)
LEMMA StateKeeps ==
  ASSUME LedgerInv, NEW o \in OrderIds, NEW s, UNCHANGED authed,
         \A p \in OrderIds : /\ orders'[p].cert = orders[p].cert
                             /\ p # o => orders'[p].state = orders[p].state,
         orders'[o].state = s,
         s \in Past => orders[o].cert \in authed[o],
         NoNotificationLost', UNCHANGED issued
  PROVE  LedgerInv'
<1>1. CertsAuthenticated'
  BY DEF LedgerInv, CertsAuthenticated
<1>2. BoundHasEuicc'
  <2> SUFFICES ASSUME NEW p \in OrderIds, orders'[p].state \in Past
               PROVE  orders'[p].cert \in authed'[p]
    BY DEF BoundHasEuicc, Past
  <2>1. CASE p = o
    BY <2>1
  <2>2. CASE p # o
    BY <2>2 DEF LedgerInv, BoundHasEuicc, Past
  <2>3. QED
    BY <2>1, <2>2
<1>3. issued' \subseteq Signed' /\ authed' \in [OrderIds -> SUBSET Cards]
  BY DEF LedgerInv, Signed
<1>4. QED
  BY <1>1, <1>2, <1>3 DEF LedgerInv

LEMMA StateWritten ==
  ASSUME LedgerInv, NEW o \in OrderIds, NEW s,
         statusBar' = [statusBar EXCEPT ![o] = s], holderBar' = holderBar,
         UNCHANGED authed, NoteColumnsKept,
         s \in Past => orders[o].cert \in authed[o]
  PROVE  LedgerInv'
<1>1. \A p \in OrderIds : /\ orders'[p].cert = orders[p].cert
                          /\ p # o => orders'[p].state = orders[p].state
  BY Columns DEF statusBar
<1>2. orders'[o].state = s
  BY Columns DEF statusBar
<1>3. NoNotificationLost' /\ UNCHANGED issued
  BY Columns DEF LedgerInv, NoteColumnsKept
<1>4. QED
  BY <1>1, <1>2, <1>3, StateKeeps

LEMMA NotesWritten ==
  ASSUME LedgerInv, OrderColumnsKept, issued' \subseteq Signed,
         \A n \in issued' : n \in pending' \/ n \in filedBar'
  PROVE  LedgerInv'
<1>1. NoNotificationLost'
  BY Columns
<1>2. QED
  BY <1>1 DEF LedgerInv, OrderColumnsKept, CertsAuthenticated, BoundHasEuicc

LEMMA LedgerKeeps ==
  ASSUME LedgerInv, [Ledger!Next]_(Ledger!vars)
  PROVE  /\ LedgerInv'
         /\ \A o \in OrderIds : orders[o].state \in {"Downloaded", "Failed"}
                               => orders'[o].state # "Bound"
<1> DEFINE Kept == \A o \in OrderIds : orders[o].state \in {"Downloaded", "Failed"}
                                      => orders'[o].state # "Bound"
<1>k. ASSUME statusBar' = statusBar
      PROVE  Kept
  BY <1>k, Columns
<1>w. ASSUME NEW o \in OrderIds, NEW s, statusBar' = [statusBar EXCEPT ![o] = s],
             s # "Bound" \/ orders[o].state \in {"Available", "Bound"}
      PROVE  Kept
  BY <1>w, Columns DEF statusBar
<1>c. \A o \in OrderIds : orders[o].cert # NoCard => orders[o].cert \in authed[o]
  BY DEF LedgerInv, CertsAuthenticated
<1>1. ASSUME NEW o \in OrderIds, NEW i \in Iccids, Ledger!Add(o, i)
      PROVE  LedgerInv' /\ Kept
  <2>1. /\ statusBar' = [statusBar EXCEPT ![o] = "Available"]
        /\ holderBar' = holderBar /\ UNCHANGED authed /\ NoteColumnsKept
    BY <1>1 DEF Ledger!Add, Ledger!Becomes, Ledger!noteVars, statusBar,
                holderBar, filedBar, NoteColumnsKept
  <2>2. QED
    BY <1>w, <2>1, StateWritten DEF Past
<1>2. ASSUME NEW o \in OrderIds, Ledger!Bind(o)
      PROVE  LedgerInv' /\ Kept
  <2>1. /\ statusBar' = [statusBar EXCEPT ![o] = "Bound"]
        /\ holderBar' = holderBar /\ UNCHANGED authed /\ NoteColumnsKept
        /\ orders[o].cert \in authed[o]
        /\ orders[o].state \in {"Available", "Bound"}
    BY <1>2 DEF Ledger!Bind, Ledger!Becomes, Ledger!OnOffer, Ledger!noteVars,
                statusBar, holderBar, filedBar, NoteColumnsKept
  <2>2. QED
    BY <1>w, <2>1, StateWritten
<1>3. ASSUME NEW o \in OrderIds, Ledger!HandOut(o)
      PROVE  LedgerInv' /\ Kept
  <2>1. /\ statusBar' = [statusBar EXCEPT ![o] = "Downloaded"]
        /\ holderBar' = holderBar /\ UNCHANGED authed /\ NoteColumnsKept
        /\ orders[o].cert \in authed[o]
    BY <1>3 DEF Ledger!HandOut, Ledger!Becomes, Ledger!noteVars, statusBar,
                holderBar, filedBar, NoteColumnsKept
  <2>2. QED
    BY <1>w, <2>1, StateWritten
<1>4. ASSUME NEW o \in OrderIds, Ledger!Reset(o)
      PROVE  LedgerInv' /\ Kept
  <2>1. /\ statusBar' = [statusBar EXCEPT ![o] = "Available"]
        /\ holderBar' = holderBar /\ UNCHANGED authed /\ NoteColumnsKept
    BY <1>4 DEF Ledger!Reset, Ledger!Becomes, Ledger!noteVars, statusBar,
                holderBar, filedBar, NoteColumnsKept
  <2>2. QED
    BY <1>w, <2>1, StateWritten DEF Past
<1>5. ASSUME NEW o \in OrderIds, NEW n \in Signed, Ledger!Report(o, n)
      PROVE  LedgerInv' /\ Kept
  <2> DEFINE s == IF n.ok THEN "Downloaded" ELSE "Failed"
  <2>1. /\ statusBar' = [statusBar EXCEPT ![o] = s]
        /\ holderBar' = holderBar /\ UNCHANGED authed /\ NoteColumnsKept
        /\ n.card = orders[o].cert
    BY <1>5 DEF Ledger!Report, Ledger!Becomes, Ledger!noteVars, statusBar,
                holderBar, filedBar, NoteColumnsKept
  <2>2. orders[o].cert \in authed[o]
    BY <1>c, <2>1, StoreAssumption DEF Signed
  <2>3. s # "Bound"
    OBVIOUS
  <2> HIDE DEF s
  <2>4. QED
    BY <1>w, <2>1, <2>2, <2>3, StateWritten
<1>6. ASSUME NEW o \in OrderIds, NEW c \in Cards, Ledger!Prove(o, c)
      PROVE  LedgerInv' /\ Kept
  <2>1. /\ statusBar' = statusBar /\ holderBar' = holderBar /\ NoteColumnsKept
        /\ authed' = [authed EXCEPT ![o] = @ \cup {c}]
    BY <1>6 DEF Ledger!Prove, Ledger!noteVars, statusBar, holderBar, filedBar,
                NoteColumnsKept
  <2>2. /\ authed' \in [OrderIds -> SUBSET Cards]
        /\ \A p \in OrderIds : authed[p] \subseteq authed'[p]
    BY <2>1 DEF LedgerInv
  <2>3. \A p \in OrderIds : /\ orders'[p].state = orders[p].state
                            /\ orders'[p].cert = orders[p].cert
    BY <2>1, Columns
  <2>4. NoNotificationLost'
    BY <2>1, Columns DEF LedgerInv, NoteColumnsKept
  <2>5. QED
    BY <1>k, <2>1, <2>2, <2>3, <2>4
       DEF LedgerInv, NoteColumnsKept, CertsAuthenticated, BoundHasEuicc
<1>7. ASSUME NEW o \in OrderIds, NEW c \in Cards, Ledger!Name(o, c)
      PROVE  LedgerInv' /\ Kept
  <2>1. /\ statusBar' = statusBar /\ NoteColumnsKept /\ UNCHANGED authed
        /\ holderBar' = [holderBar EXCEPT ![o] = c] /\ c \in authed[o]
    BY <1>7 DEF Ledger!Name, Ledger!noteVars, statusBar, holderBar, filedBar,
                NoteColumnsKept
  <2>2. \A p \in OrderIds : /\ orders'[p].state = orders[p].state
                            /\ orders'[p].cert = IF p = o THEN c
                                                ELSE orders[p].cert
    BY <2>1, Columns DEF holderBar
  <2>3. NoNotificationLost'
    BY <2>1, Columns DEF LedgerInv, NoteColumnsKept
  <2>4. QED
    BY <1>k, <2>1, <2>2, <2>3
       DEF LedgerInv, NoteColumnsKept, CertsAuthenticated, BoundHasEuicc
<1>8. ASSUME NEW n \in Signed, Ledger!Sign(n) \/ Ledger!File(n) \/ Ledger!Forget(n)
      PROVE  LedgerInv' /\ Kept
  <2>1. /\ statusBar' = statusBar /\ holderBar' = holderBar /\ UNCHANGED authed
        /\ \/ /\ issued' = issued \cup {n} /\ pending' = pending \cup {n}
              /\ filedBar' = filedBar
           \/ /\ UNCHANGED <<issued, pending>> /\ filedBar' = filedBar \cup {n}
           \/ /\ n \in filedBar /\ issued' = issued
              /\ pending' = pending \ {n} /\ filedBar' = filedBar
    BY <1>8 DEF Ledger!Sign, Ledger!File, Ledger!Forget, Ledger!orderVars,
                statusBar, holderBar, filedBar
  <2>2. OrderColumnsKept
    BY <2>1, Columns DEF OrderColumnsKept
  <2>3. \A m \in issued : m \in pending \/ m \in filedBar
    BY Columns DEF LedgerInv
  <2>4. QED
    BY <1>k, <2>1, <2>2, <2>3, NotesWritten DEF LedgerInv
<1>9. CASE UNCHANGED Ledger!vars
  <2>1. /\ statusBar' = statusBar /\ holderBar' = holderBar /\ UNCHANGED authed
        /\ NoteColumnsKept
    BY <1>9 DEF Ledger!vars, Ledger!orderVars, Ledger!noteVars, statusBar,
                holderBar, filedBar, NoteColumnsKept
  <2>2. OrderColumnsKept
    BY <2>1, Columns DEF OrderColumnsKept
  <2>3. \A m \in issued : m \in pending \/ m \in filedBar
    BY Columns DEF LedgerInv
  <2>4. QED
    BY <1>k, <2>1, <2>2, <2>3, NotesWritten DEF LedgerInv, NoteColumnsKept
<1>10. QED
  BY <1>1, <1>2, <1>3, <1>4, <1>5, <1>6, <1>7, <1>8, <1>9 DEF Ledger!Next

(* Whatever implements the ledger names an authenticated eUICC in every    *)
(* order past Available, writes Bound over none that is done, and loses no *)
(* notification: nothing of the handlers is needed to see it.              *)
THEOREM LedgerSuffices ==
  ImplementsLedger => []BoundHasEuicc /\ []NoNotificationLost /\ NotRebound
<1>1. Ledger!Init => LedgerInv
  <2> SUFFICES ASSUME Ledger!Init PROVE LedgerInv
    OBVIOUS
  <2>1. /\ \A o \in OrderIds : statusBar[o] = "Absent" /\ holderBar[o] = NoCard
        /\ authed = [o \in OrderIds |-> {}] /\ issued = {}
    BY DEF Ledger!Init, statusBar, holderBar
  <2>2. \A o \in OrderIds : orders[o].state = "Absent" /\ orders[o].cert = NoCard
    BY <2>1, Columns
  <2>3. QED
    BY <2>1, <2>2
       DEF LedgerInv, CertsAuthenticated, BoundHasEuicc, NoNotificationLost
<1>2. LedgerInv /\ [Ledger!Next]_(Ledger!vars) => LedgerInv'
  BY LedgerKeeps
<1>3. LedgerInv /\ [Ledger!Next]_(Ledger!vars) =>
        [\A o \in OrderIds : orders[o].state \in {"Downloaded", "Failed"}
                            => orders'[o].state # "Bound"]_vars
  BY LedgerKeeps
<1>4. LedgerInv => BoundHasEuicc /\ NoNotificationLost
  BY DEF LedgerInv
<1>5. QED
  BY <1>1, <1>2, <1>3, <1>4, PTL DEF ImplementsLedger, Ledger!Spec, NotRebound

=============================================================================
