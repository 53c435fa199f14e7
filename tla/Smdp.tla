-------------------------------- MODULE Smdp --------------------------------
(***************************************************************************)
(* The whole system: `smdp serve` (Es9Server), the `smdp order` command    *)
(* line working on the same database, a crash of the server, and the world *)
(* it serves -- eUICCs and the LPAs that carry their requests, modelled    *)
(* from what the handlers, their comments and tests/http.rs expect.        *)
(*                                                                         *)
(* A request is taken when a thread starts its handler and answered when   *)
(* the handler is done and the client is still there.  A client that is    *)
(* not answered, or told "failed", tries again or starts over.             *)
(***************************************************************************)
EXTENDS Es9Server, FiniteSets

CONSTANTS Forms,          \* what may become of a notification on its way
          Kinds,          \* notifications the eUICCs send
          IccidOverride,  \* whether `order add --iccid` may contradict
                          \* the metadata
          MaxNotes,       \* bound: notifications eUICCs sign
          MaxMishaps      \* bound: crashes and lost connections together

ASSUME SmdpAssumption ==
  /\ Forms \subseteq {"intact", "tampered", "unreadable"}
  /\ Kinds \subseteq {"result", "other"}
  /\ IccidOverride \in BOOLEAN
  /\ MaxNotes \in Nat
  /\ MaxMishaps \in Nat

VARIABLES lpa,       \* per eUICC: how far its LPA is in a download
          pending,   \* notifications still on an eUICC
          issued,    \* history: notifications eUICCs ever signed
          received,  \* history: packages of "handed" that reached an eUICC
          mishaps    \* crashes and lost connections so far

clientVars == <<lpa, pending, issued, received>>
vars == <<storeVars, serverVars, clientVars, mishaps>>

Stages == {"idle", "initiated", "authenticated"}

Lpa == [stage : Stages, tid : Tids \cup {NoTid}]

NoDownload == [stage |-> "idle", tid |-> NoTid]

TypeOK ==
  /\ StoreTypeOK
  /\ ServerTypeOK
  /\ lpa \in [Cards -> Lpa]
  /\ pending \in SUBSET Note
  /\ issued \in SUBSET Note
  /\ received \in SUBSET Package
  /\ mishaps \in 0..MaxMishaps

Init ==
  /\ StoreInit
  /\ ServerInit
  /\ lpa = [c \in Cards |-> NoDownload]
  /\ pending = {}
  /\ issued = {}
  /\ received = {}
  /\ mishaps = 0

-----------------------------------------------------------------------------
(* Requests.  An LPA has one outstanding at a time.                        *)

Waiting(c) == \E t \in Threads : job[t].client = c

Take(t, c, request) ==
  /\ At(t, "idle")
  /\ ~Waiting(c)
  /\ Becomes(t, request)
  /\ UNCHANGED <<sessions, handed, authed, storeVars, clientVars, mishaps>>

Request(c, call, pc) ==
  [Idle EXCEPT !.pc = pc, !.call = call, !.client = c, !.card = c,
               !.tid = lpa[c].tid]

Initiate(t, c) ==
  /\ lpa[c].stage = "idle"
  /\ Take(t, c, Request(c, "initiate", "init_insert"))

Authenticate(t, c) ==
  /\ lpa[c].stage # "idle"
  /\ Take(t, c, Request(c, "authenticate", "auth_list"))

(* The eUICC signs a PrepareDownloadResponse over what AuthenticateClient  *)
(* answered; asked too early, there is none of its signing to send.        *)
GetBpp(t, c) ==
  /\ lpa[c].stage # "idle"
  /\ Take(t, c, [Request(c, "package", "bpp_lock") EXCEPT
                   !.card = IF lpa[c].stage = "authenticated"
                            THEN c ELSE NoCard])

Notify(t, n) ==
  /\ n \in pending
  /\ \E form \in Forms :
       Take(t, n.card, [Idle EXCEPT !.pc = "note_read", !.call = "notify",
                                   !.client = n.card, !.card = n.card,
                                   !.note = [n EXCEPT !.form = form]])

-----------------------------------------------------------------------------
(* Answers.                                                                *)

(* Try the same call again, or give the download up.                       *)
RetryOrGiveUp(c) ==
  lpa' = lpa \/ lpa' = [lpa EXCEPT ![c] = NoDownload]

Advance(c, stage, tid) ==
  lpa' = [lpa EXCEPT ![c] = [stage |-> stage, tid |-> tid]]

(* An eUICC signs a notification.                                          *)
Sign(c, kind, iccid, ok) ==
  LET n == [kind |-> kind, card |-> c, iccid |-> iccid, ok |-> ok,
            form |-> "intact"] IN
  /\ n \in issued \/ Cardinality(issued) < MaxNotes
  /\ issued' = issued \cup {n}
  /\ pending' = pending \cup {n}

(* The package arrives: the eUICC installs its Profile or refuses it, and  *)
(* signs a ProfileInstallationResult either way.                           *)
Install(c, o) ==
  /\ received' = received \cup {p \in handed : p.order = o /\ p.card = c}
  /\ IF "result" \in Kinds
     THEN \E ok \in BOOLEAN : Sign(c, "result", orders[o].profile, ok)
     ELSE UNCHANGED <<pending, issued>>

Reply(t) ==
  LET j == job[t]
      c == j.client IN
  /\ At(t, "reply")
  /\ Becomes(t, Idle)
  /\ \/ c = NoCard /\ UNCHANGED clientVars
     \/ /\ c # NoCard /\ j.reply = "failed"
        /\ RetryOrGiveUp(c)
        /\ UNCHANGED <<pending, issued, received>>
     \/ /\ c # NoCard /\ j.reply = "ok" /\ j.call = "initiate"
        /\ Advance(c, "initiated", j.tid)
        /\ UNCHANGED <<pending, issued, received>>
     \/ /\ c # NoCard /\ j.reply = "ok" /\ j.call = "authenticate"
        /\ Advance(c, "authenticated", j.tid)
        /\ UNCHANGED <<pending, issued, received>>
     \/ /\ c # NoCard /\ j.reply = "ok" /\ j.call = "package"
        /\ Advance(c, "idle", NoTid)
        /\ Install(c, j.order)
     \/ /\ c # NoCard /\ j.reply = "ok" /\ j.call = "notify"
        /\ pending' = pending \ {[j.note EXCEPT !.form = "intact"]}
        /\ UNCHANGED <<lpa, issued, received>>
  /\ UNCHANGED <<sessions, handed, authed, storeVars, mishaps>>

(* The connection is lost; the handler, which awaits nothing, does not     *)
(* notice.                                                                 *)
HangUp(t) ==
  LET c == job[t].client IN
  /\ c # NoCard
  /\ mishaps < MaxMishaps
  /\ mishaps' = mishaps + 1
  /\ Becomes(t, [job[t] EXCEPT !.client = NoCard])
  /\ RetryOrGiveUp(c)
  /\ UNCHANGED <<sessions, handed, authed, storeVars, pending, issued,
                 received>>

(* An eUICC that has installed a Profile enables, disables or deletes it.  *)
Operate(c) ==
  /\ "other" \in Kinds
  /\ \E n \in issued : /\ n.card = c /\ n.kind = "result" /\ n.ok
                       /\ Sign(c, "other", n.iccid, FALSE)
  /\ UNCHANGED <<lpa, received, serverVars, storeVars, mishaps>>

-----------------------------------------------------------------------------
(* The command line, a process of its own.                                 *)

(* order add: the ICCID comes out of the metadata unless it is given.      *)
OrderAdd ==
  /\ \E o \in OrderIds, profile \in Iccids :
       \E iccid \in IF IccidOverride THEN Iccids ELSE {profile} :
         AddOrder(o, iccid, profile)
  /\ UNCHANGED <<notifications, serverVars, clientVars, mishaps>>

(* A variant the checks must reject: the eUICC cleared with the state, as  *)
(* if no request could be between naming it and writing Bound.             *)
OrderReset_Forgets(o) ==
  /\ Present(o)
  /\ orders' = [orders EXCEPT ![o].state = "Available", ![o].cert = NoCard]
  /\ handed' = {p \in handed : p.order # o}
  /\ received' = {p \in received : p.order # o}
  /\ UNCHANGED <<notifications, sessions, job, authed, lpa, pending, issued,
                 mishaps>>

(* order reset, of any order there is, whatever its state.                 *)
OrderReset(o) ==
  /\ Present(o)
  /\ SetState(o, "Available")
  /\ handed' = {p \in handed : p.order # o}
  /\ received' = {p \in received : p.order # o}
  /\ UNCHANGED <<notifications, sessions, job, authed, lpa, pending, issued,
                 mishaps>>

-----------------------------------------------------------------------------
(* Failure of the process.                                                 *)

(* The process dies and is started again: the database stays, the sessions *)
(* and the requests being worked on are gone.                              *)
Crash ==
  /\ mishaps < MaxMishaps
  /\ mishaps' = mishaps + 1
  /\ job' = [t \in Threads |-> Idle]
  /\ sessions' = [s \in Tids |-> NoSession]
  /\ UNCHANGED <<handed, authed, storeVars, clientVars>>

-----------------------------------------------------------------------------
Fresh == {s \in Tids : /\ \A c \in Cards : lpa[c].tid # s
                       /\ \A t \in Threads : job[t].tid # s}

(* A thread works on the request it has taken.                             *)
Work(t) == Handler(t, Fresh) /\ UNCHANGED <<clientVars, mishaps>>

Download(t, c) == Initiate(t, c) \/ Authenticate(t, c) \/ GetBpp(t, c)

Next ==
  \/ \E t \in Threads : Work(t) \/ Reply(t) \/ HangUp(t)
  \/ \E t \in Threads, c \in Cards : Download(t, c)
  \/ \E t \in Threads, n \in pending : Notify(t, n)
  \/ \E c \in Cards : Operate(c)
  \/ OrderAdd
  \/ \E o \in OrderIds : OrderReset(o)
  \/ Crash

Spec == Init /\ [][Next]_vars

(* What an eUICC signs about a Profile. *)
Signed == {n \in Note : /\ n.kind \in Kinds /\ n.form = "intact"
                        /\ n.card \in Cards /\ n.iccid \in Iccids
                        /\ n.kind = "other" => ~n.ok}

(* A handler runs to its end and is answered: nothing in it waits for      *)
(* anything but the two mutexes.                                           *)
ServerRuns == \A t \in Threads : WF_vars(Work(t)) /\ WF_vars(Reply(t))

(* An LPA that is refused over and over starts a new download.             *)
StartOver(t) == /\ job[t].reply = "failed" /\ job[t].client # NoCard
                /\ Reply(t)
                /\ lpa'[job[t].client].stage = "idle"

(* LPAs keep asking, and the library does not refuse a genuine one for     *)
(* ever.                                                                   *)
LpasDownload ==
  /\ \A t \in Threads, c \in Cards :
       /\ SF_vars(Initiate(t, c))
       /\ SF_vars(Authenticate(t, c))
       /\ SF_vars(lpa[c].stage = "authenticated" /\ GetBpp(t, c))
  /\ \A t \in Threads :
       /\ SF_vars(StartOver(t))
       /\ SF_vars(Work(t) /\ InitInsert(t, Fresh))
       /\ SF_vars(Work(t) /\ AuthSession(t))
       /\ SF_vars(Work(t) /\ BppBuild(t))

(* LPAs keep delivering what is pending.                                   *)
LpasDeliver == \A t \in Threads, n \in Signed : SF_vars(Notify(t, n))

FairSpec == Spec /\ ServerRuns /\ LpasDownload /\ LpasDeliver

-----------------------------------------------------------------------------
(* Properties.                                                             *)

(* get_bound_profile_package takes the UPP from the order the session      *)
(* remembers and the metadata from what AuthenticateClient gave the        *)
(* library.  Whatever calls, refusals, retries, restarts and changes of    *)
(* the orders came before, both are the same order's, and the eUICC the    *)
(* package is bound to authenticated against that order.                   *)
PackageConsistent ==
  \A p \in handed : p.meta = p.order /\ p.card \in authed[p.order]

(* The handler building a package keeps the session mutex across its read  *)
(* of the store (es9.rs:239-283): nobody else builds meanwhile, and the    *)
(* session is still the one looked up, of the order looked up -- not       *)
(* swept, not authenticated anew, not consumed by another request.         *)
BuilderHoldsSession ==
  \A t \in Threads : At(t, "bpp_build") =>
    /\ \A u \in Threads \ {t} : ~At(u, "bpp_build")
    /\ sessions[job[t].tid].open
    /\ sessions[job[t].tid].order = job[t].order

(* authenticate_client looks at the orders, and only two critical sections *)
(* later writes Bound.  On the one thread `smdp serve` has, that is never  *)
(* over an order that has been handed out or refused meanwhile, whatever   *)
(* the command line does in between.                                       *)
NotRebound ==
  [][\A o \in OrderIds : orders[o].state \in {"Downloaded", "Failed"}
                          => orders'[o].state # "Bound"]_vars

(* An order whose package has reached an eUICC is not on offer until it is *)
(* reset: `order list` and authenticate_client both say so by its state    *)
(* (es9.rs:152-154).                                                       *)
ReceivedIsNotOffered ==
  \A p \in received : orders[p.order].state \in {"Downloaded", "Failed"}

(* Past Available an order names an eUICC, and one that authenticated      *)
(* against it (store/mod.rs:13): the bind comes before the state, and no   *)
(* crash or other request between the two statements shows otherwise.      *)
BoundHasEuicc ==
  \A o \in OrderIds : orders[o].state \in {"Bound", "Downloaded", "Failed"}
                       => orders[o].cert \in authed[o]

(* A notification leaves the eUICC only on a 204, and by then a row keeps  *)
(* it, verified or not (es9.rs:322-327): across lost answers, redelivery,  *)
(* crashes and damage on the way, it exists in at least one place.  (The   *)
(* older comment es9.rs:299-303, by which a rejected notification leaves   *)
(* "nothing in the store", says the contrary; the code does this.)         *)
NoNotificationLost ==
  \A n \in issued :
    n \in pending \/ \E r \in notifications : [r.raw EXCEPT !.form = "intact"] = n

(* A row says verified (and only then what the installation came to), and  *)
(* an order says Failed, only on the word of an eUICC that signed exactly  *)
(* that and, for an installation result, that once authenticated against   *)
(* the very order it was matched with.                                     *)
VerifiedByItsOwnEuicc ==
  /\ \A r \in notifications :
       /\ r.verified =>
            /\ r.raw \in issued
            /\ r.raw.kind = "result" => /\ r.order \in OrderIds
                                        /\ r.raw.card \in authed[r.order]
       /\ r.installed # "null" =>
            /\ r.verified /\ r.raw.kind = "result"
            /\ r.raw.ok <=> r.installed = "yes"
  /\ \A o \in OrderIds : orders[o].state = "Failed" =>
       \E n \in issued : /\ n.kind = "result" /\ ~n.ok
                         /\ n.iccid = orders[o].iccid
                         /\ n.card \in authed[o]

(* An unfinished download does not strand its order (es9.rs:147-152): as   *)
(* long as an eUICC keeps asking, what is on offer is handed out.          *)
NotStranded ==
  \A o \in OrderIds : orders[o].state \in {"Available", "Bound"}
                       ~> orders[o].state \in {"Downloaded", "Failed"}

(* What an eUICC has to report arrives in the notifications table, be it   *)
(* in a copy that does not verify: it is recorded too (es9.rs:322-339,     *)
(* against es9.rs:299-303).                                                *)
NotificationArrives ==
  \A n \in Signed :
    n \in pending
      ~> \E r \in notifications : [r.raw EXCEPT !.form = "intact"] = n

-----------------------------------------------------------------------------
(* What the repository says and the code does not do.                      *)

(* "a Profile already handed out must not be handed out again" (tests/     *)
(* http.rs:336): between two resets an order goes to one eUICC.  But       *)
(* get_bound_profile_package never looks at the state of the order, so     *)
(* every eUICC that authenticated while it was on offer gets a package.    *)
HandedOutOnce ==
  \A p, q \in handed : p.order = q.order => p = q

(* "Remember which eUICC this went to" (es9.rs:221): once the package has  *)
(* arrived, the order names its recipient.  But another eUICC may          *)
(* authenticate between the recipient's two calls and be the one named.    *)
RemembersRecipient ==
  \A p \in received : orders[p.order].cert = p.card

(* "an unfinished download leaves the Profile here and still wanted"       *)
(* (bin/smdp.rs:88): Downloaded means a package that arrived or is on its  *)
(* way.  But the state is written before the answer is sent, and an answer *)
(* that is lost leaves the order neither on offer nor downloaded.          *)
UnfinishedStaysWanted ==
  \A o \in OrderIds : orders[o].state = "Downloaded" =>
    \/ \E p \in received : p.order = o
    \/ \E t \in Threads : /\ job[t].call = "package" /\ job[t].order = o
                          /\ job[t].client # NoCard

=============================================================================
