----------------------------- MODULE Es9Server ------------------------------
(***************************************************************************)
(* The four ES9+ handlers (crates/smdp/src/server/es9.rs) over the session *)
(* map (server/sessions.rs), the store and the euicc-rsp library.          *)
(*                                                                         *)
(* A handler is an async fn without an await: once started it runs to its  *)
(* end on the runtime thread that took it, whatever its client does.  It   *)
(* is cut here into one action per access to shared state -- a critical    *)
(* section of the session mutex or a statement of the store -- which is    *)
(* where another thread, the command line, or a crash can come between.    *)
(* `smdp serve` uses tokio's current_thread flavour, one thread; router()  *)
(* is Send + Sync and may be hosted by more, so Threads is a parameter.    *)
(*                                                                         *)
(* Only GetBoundProfilePackage keeps the session mutex across a store      *)
(* access, so the mutex is held exactly while some job is at "bpp_build".  *)
(***************************************************************************)
EXTENDS OrderStore

CONSTANTS Threads,  \* the runtime's worker threads
          Tids,     \* transactionIds
          NoTid,
          Faults    \* which fallible calls may fail, see below

(* "read", "write": a SELECT / an INSERT or UPDATE returns a StoreError.   *)
(* "decode": DpSession::eid, euicc_cert or authenticate_fields cannot read *)
(* what the library returned from an AuthenticateClient it accepted.       *)
ASSUME ServerAssumption ==
  /\ Faults \subseteq {"read", "write", "decode"}
  /\ NoTid \notin Tids

VARIABLES sessions,  \* Sessions::by_transaction, a total map with "open"
          job,       \* per thread: the request it is working on
          handed,    \* history: packages built for an order since its reset
          authed     \* history: eUICCs that authenticated against an order

serverVars == <<sessions, job, handed, authed>>

(* An Entry: the DpSession's eUICC and the order whose metadata the        *)
(* library was given, and Entry::order_id.  "born" is left out: any        *)
(* session may have passed MAX_AGE when a sweep looks.                     *)
Session == [open  : BOOLEAN,
            card  : Cards \cup {NoCard},
            meta  : OrderIds \cup {NoOrder},
            order : OrderIds \cup {NoOrder}]

NoSession == [open |-> FALSE, card |-> NoCard, meta |-> NoOrder,
              order |-> NoOrder]

NewSession == [NoSession EXCEPT !.open = TRUE]

(* A Bound Profile Package: the order its UPP came from, the order its     *)
(* metadata came from and the eUICC it was bound to.                       *)
Package == [order : OrderIds, meta : OrderIds \cup {NoOrder},
            card : Cards \cup {NoCard}]

Points == {"idle", "init_insert", "auth_list", "auth_session", "auth_bind",
           "auth_state", "bpp_lock", "bpp_build", "bpp_state", "note_read",
           "note_record", "note_state", "reply"}

Calls == {"none", "initiate", "authenticate", "package", "notify"}

(* A thread's program point and handler locals.  "client" is the LPA still *)
(* connected, "card" the eUICC whose signature the request carries,        *)
(* "known" whether eid and cert are both Some.                             *)
Job == [pc       : Points,
        call     : Calls,
        client   : Cards \cup {NoCard},
        card     : Cards \cup {NoCard},
        tid      : Tids \cup {NoTid},
        order    : OrderIds \cup {NoOrder},
        known    : BOOLEAN,
        note     : Note,
        verified : BOOLEAN,
        reply    : {"none", "ok", "failed"}]

Idle == [pc |-> "idle", call |-> "none", client |-> NoCard, card |-> NoCard,
         tid |-> NoTid, order |-> NoOrder, known |-> FALSE, note |-> NoNote,
         verified |-> FALSE, reply |-> "none"]

ServerTypeOK ==
  /\ sessions \in [Tids -> Session]
  /\ job \in [Threads -> Job]
  /\ handed \in SUBSET Package
  /\ authed \in [OrderIds -> SUBSET Cards]

ServerInit ==
  /\ sessions = [s \in Tids |-> NoSession]
  /\ job = [t \in Threads |-> Idle]
  /\ handed = {}
  /\ authed = [o \in OrderIds |-> {}]

-----------------------------------------------------------------------------
At(t, pc) == job[t].pc = pc

(* Thread t goes on as job j. *)
Becomes(t, j) == job' = [job EXCEPT ![t] = j]

Goto(t, pc) == Becomes(t, [job[t] EXCEPT !.pc = pc])

Answer(t, reply) ==
  Becomes(t, [job[t] EXCEPT !.pc = "reply", !.reply = reply,
                            !.known = FALSE, !.verified = FALSE])

(* A variant the checks must reject: the guard dropped before the store is *)
(* read, as if nothing had to be excluded meanwhile.                       *)
SessionsFree_Dropped == TRUE

(* The session mutex is free.                                              *)
SessionsFree == \A t \in Threads : ~At(t, "bpp_build")

(* A statement that may also fail; every handler discards the error of its *)
(* writes (`let _ =`) and carries on.                                      *)
OrFault(kind, write, vars) == write \/ (kind \in Faults /\ UNCHANGED vars)

-----------------------------------------------------------------------------
(* initiate_authentication.                                                *)

(* Sessions::insert: sweep whichever sessions are past MAX_AGE, then add    *)
(* the new entry.  16 random bytes never repeat an identifier that is      *)
(* still in the map or remembered by someone: "fresh" are those nobody     *)
(* remembers.                                                              *)
InitInsert(t, fresh) ==
  /\ At(t, "init_insert")
  /\ SessionsFree
  /\ \E old \in SUBSET {s \in Tids : sessions[s].open} :
       \E tid \in {s \in fresh : sessions[s].open => s \in old} :
         /\ sessions' = [s \in Tids |-> IF s = tid THEN NewSession
                                       ELSE IF s \in old THEN NoSession
                                       ELSE sessions[s]]
         /\ Becomes(t, [job[t] EXCEPT !.pc = "reply", !.reply = "ok",
                            !.tid = tid])
  /\ UNCHANGED <<handed, authed, storeVars>>

(* A challenge that is not 16 bytes, an smdpAddress that is not this       *)
(* server's, an EUICCInfo1 the library cannot use.                         *)
InitFail(t) ==
  /\ At(t, "init_insert")
  /\ Answer(t, "failed")
  /\ UNCHANGED <<sessions, handed, authed, storeVars>>

-----------------------------------------------------------------------------
(* authenticate_client.                                                    *)

(* Variants the checks must reject: an unfinished download not offered     *)
(* again (what an earlier version did, es9.rs:150), a finished one that is.*)
Offered_AvailableOnly == {o \in OrderIds : orders[o].state = "Available"}
Offered_Downloaded ==
  {o \in OrderIds : orders[o].state \in {"Available", "Bound", "Downloaded"}}

(* The orders on offer.                                                    *)
Offered == {o \in OrderIds : orders[o].state \in {"Available", "Bound"}}

(* list_orders: exactly one order on offer is the one this download is     *)
(* for; with none or several there is no way to tell.                      *)
AuthList(t) ==
  /\ At(t, "auth_list")
  /\ \/ \E o \in OrderIds :
          /\ Offered = {o}
          /\ Becomes(t, [job[t] EXCEPT !.pc = "auth_session", !.order = o])
     \/ /\ \/ \A o \in OrderIds : Offered # {o}
           \/ "read" \in Faults
        /\ Answer(t, "failed")
  /\ UNCHANGED <<sessions, handed, authed, storeVars>>

(* Under the session mutex: find the entry, let the library check the      *)
(* eUICC's answer, remember the order.  The library may refuse, and is     *)
(* taken to leave its session as it was when it does.                      *)
AuthSession(t) ==
  LET j == job[t] IN
  /\ At(t, "auth_session")
  /\ SessionsFree
  /\ sessions[j.tid].open
  /\ sessions' = [sessions EXCEPT ![j.tid].card = j.card,
                                  ![j.tid].meta = j.order,
                                  ![j.tid].order = j.order]
  /\ authed' = [authed EXCEPT ![j.order] = @ \cup {j.card}]
  /\ \/ Becomes(t, [job[t] EXCEPT !.pc = "auth_bind", !.known = TRUE])
     \/ "decode" \in Faults /\ Goto(t, "auth_bind")
     \/ "decode" \in Faults /\ Answer(t, "failed")
  /\ UNCHANGED <<handed, storeVars>>

(* Variants the checks must reject: a refused eUICC named by the order all *)
(* the same; the order remembered before the library has agreed.           *)
AuthFail_NamedAnyway(t) ==
  /\ At(t, "auth_session")
  /\ SessionsFree
  /\ Becomes(t, [job[t] EXCEPT !.pc = "auth_bind", !.known = TRUE])
  /\ UNCHANGED <<sessions, handed, authed, storeVars>>

AuthFail_OrderKept(t) ==
  /\ At(t, "auth_session")
  /\ SessionsFree
  /\ Answer(t, "failed")
  /\ sessions' = [sessions EXCEPT ![job[t].tid].order =
                                    IF sessions[job[t].tid].open
                                    THEN job[t].order ELSE @]
  /\ UNCHANGED <<handed, authed, storeVars>>

(* No such session, or the library says no.                                *)
AuthFail(t) ==
  /\ At(t, "auth_session")
  /\ SessionsFree
  /\ Answer(t, "failed")
  /\ UNCHANGED <<sessions, handed, authed, storeVars>>

(* A variant the checks must reject: the state written before the eUICC.   *)
AuthBind_StateFirst(t) ==
  /\ At(t, "auth_bind")
  /\ SetState(job[t].order, "Bound")
  /\ Goto(t, "auth_state")
  /\ UNCHANGED <<sessions, handed, authed, notifications>>

AuthBind(t) ==
  LET j == job[t] IN
  /\ At(t, "auth_bind")
  /\ IF j.known
     THEN OrFault("write", BindEuicc(j.order, j.card), orders)
     ELSE UNCHANGED orders
  /\ Goto(t, "auth_state")
  /\ UNCHANGED <<sessions, handed, authed, notifications>>

AuthState(t) ==
  /\ At(t, "auth_state")
  /\ OrFault("write", SetState(job[t].order, "Bound"), orders)
  /\ Answer(t, "ok")
  /\ UNCHANGED <<sessions, handed, authed, notifications>>

-----------------------------------------------------------------------------
(* get_bound_profile_package.                                              *)

(* A variant the checks must reject: the order_id of the entry used        *)
(* without asking whether there is one.                                    *)
BppLock_Unchecked(t) ==
  /\ At(t, "bpp_lock")
  /\ SessionsFree
  /\ IF sessions[job[t].tid].open
     THEN Becomes(t, [job[t] EXCEPT !.pc = "bpp_build",
                                    !.order = sessions[job[t].tid].order])
     ELSE Answer(t, "failed")
  /\ UNCHANGED <<sessions, handed, authed, storeVars>>

(* Take the session mutex and look the entry up; without an entry, or with *)
(* one that has not authenticated, the guard is dropped with the refusal.  *)
BppLock(t) ==
  LET s == sessions[job[t].tid] IN
  /\ At(t, "bpp_lock")
  /\ SessionsFree
  /\ IF s.open /\ s.order # NoOrder
     THEN Becomes(t, [job[t] EXCEPT !.pc = "bpp_build", !.order = s.order])
     ELSE Answer(t, "failed")
  /\ UNCHANGED <<sessions, handed, authed, storeVars>>

(* Still holding it: read the UPP, build the package, drop the session.    *)
(* The library binds the package to the eUICC of the session, which must   *)
(* be the one that signed the request.                                     *)
BppBuild(t) ==
  LET j == job[t]
      s == sessions[j.tid] IN
  /\ At(t, "bpp_build")
  /\ s.card = j.card
  /\ handed' = handed \cup {[order |-> j.order, meta |-> s.meta,
                             card |-> s.card]}
  /\ sessions' = [sessions EXCEPT ![j.tid] = NoSession]
  /\ Goto(t, "bpp_state")
  /\ UNCHANGED <<authed, storeVars>>

(* The read fails or the library says no: the session stays.               *)
BppFail(t) ==
  /\ At(t, "bpp_build")
  /\ Answer(t, "failed")
  /\ UNCHANGED <<sessions, handed, authed, storeVars>>

(* A variant the checks must reject: the order left as it is.              *)
BppState_Skipped(t) ==
  /\ At(t, "bpp_state")
  /\ Answer(t, "ok")
  /\ UNCHANGED <<sessions, handed, authed, storeVars>>

BppState(t) ==
  /\ At(t, "bpp_state")
  /\ OrFault("write", SetState(job[t].order, "Downloaded"), orders)
  /\ Answer(t, "ok")
  /\ UNCHANGED <<sessions, handed, authed, notifications>>

-----------------------------------------------------------------------------
(* handle_notification.                                                    *)

(* A variant the checks must reject: the signature not checked.            *)
Verifies_Unsigned(note, cert) ==
  cert = note.card \/ (note.kind = "other" /\ cert = NoCard)

(* verify_notification.  A ProfileInstallationResult needs the certificate *)
(* of the eUICC that signed it; an OtherSignedNotification brings its own, *)
(* and a certificate given as well must be that one.                       *)
Verifies(note, cert) ==
  /\ note.form = "intact"
  /\ cert = note.card \/ (note.kind = "other" /\ cert = NoCard)

(* A variant the checks must reject: any certificate on file will do.      *)
NoteRead_AnyCertificate(t) ==
  LET note == job[t].note IN
  /\ At(t, "note_read")
  /\ \E o \in OrderIds \cup {NoOrder} :
       /\ IsOrderByIccid(o, note.iccid)
       /\ Becomes(t, [job[t] EXCEPT !.pc = "note_record", !.order = o,
                            !.verified =
                              \E p \in OrderIds : Verifies(note, orders[p].cert)])
  /\ UNCHANGED <<sessions, handed, authed, storeVars>>

(* Read the ICCID, look up the order and its certificate, verify.  Bytes   *)
(* that cannot be read have no ICCID; a failed lookup is no order.         *)
NoteRead(t) ==
  LET note  == job[t].note
      iccid == IF note.form = "unreadable" THEN NoIccid ELSE note.iccid IN
  /\ At(t, "note_read")
  /\ \E o \in OrderIds \cup {NoOrder} :
       LET cert == IF o = NoOrder THEN NoCard ELSE orders[o].cert IN
       /\ \/ IsOrderByIccid(o, iccid)
          \/ "read" \in Faults /\ o = NoOrder
       /\ Becomes(t, [job[t] EXCEPT !.pc = "note_record", !.order = o,
                            !.verified = Verifies(note, cert)])
  /\ UNCHANGED <<sessions, handed, authed, storeVars>>

Verdict(j) ==
  IF j.verified /\ j.note.kind = "result"
  THEN IF j.note.ok THEN "yes" ELSE "no"
  ELSE "null"

(* Variants the checks must reject: only what verifies is kept (what an    *)
(* earlier version did, es9.rs:325-327), or moves the order unverified.    *)
NoteRecord_VerifiedOnly(t) ==
  LET j == job[t] IN
  /\ At(t, "note_record")
  /\ IF ~j.verified
     THEN UNCHANGED notifications
     ELSE RecordNotification([order |-> j.order, raw |-> j.note,
                              verified |-> TRUE, installed |-> Verdict(j)])
  /\ IF j.verified /\ j.order # NoOrder /\ j.note.kind = "result"
     THEN Goto(t, "note_state")
     ELSE Answer(t, "ok")
  /\ UNCHANGED <<sessions, handed, authed, orders>>

NoteRecord_MovesUnverified(t) ==
  LET j == job[t] IN
  /\ At(t, "note_record")
  /\ RecordNotification([order |-> j.order, raw |-> j.note,
                         verified |-> j.verified, installed |-> Verdict(j)])
  /\ IF j.order # NoOrder /\ j.note.kind = "result"
     THEN Goto(t, "note_state")
     ELSE Answer(t, "ok")
  /\ UNCHANGED <<sessions, handed, authed, orders>>

(* Keep what can be read, verified or not; then only a verified            *)
(* installation result that was matched to an order goes on to move it.    *)
NoteRecord(t) ==
  LET j == job[t] IN
  /\ At(t, "note_record")
  /\ IF j.note.form = "unreadable"
     THEN UNCHANGED notifications
     ELSE OrFault("write",
                  RecordNotification([order     |-> j.order,
                                      raw       |-> j.note,
                                      verified  |-> j.verified,
                                      installed |-> Verdict(j)]),
                  notifications)
  /\ IF j.verified /\ j.order # NoOrder /\ j.note.kind = "result"
     THEN Goto(t, "note_state")
     ELSE Answer(t, "ok")
  /\ UNCHANGED <<sessions, handed, authed, orders>>

NoteState(t) ==
  LET state == IF job[t].note.ok THEN "Downloaded" ELSE "Failed" IN
  /\ At(t, "note_state")
  /\ OrFault("write", SetState(job[t].order, state), orders)
  /\ Answer(t, "ok")
  /\ UNCHANGED <<sessions, handed, authed, notifications>>

-----------------------------------------------------------------------------
(* One step of thread t inside a handler.                                  *)
Handler(t, fresh) ==
  \/ InitInsert(t, fresh) \/ InitFail(t)
  \/ AuthList(t) \/ AuthSession(t) \/ AuthFail(t) \/ AuthBind(t) \/ AuthState(t)
  \/ BppLock(t) \/ BppBuild(t) \/ BppFail(t) \/ BppState(t)
  \/ NoteRead(t) \/ NoteRecord(t) \/ NoteState(t)

=============================================================================
