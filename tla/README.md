# TLA+ verification of euicc-smdp

`euicc-smdp` is an SM-DP+ (SGP.22): a server that hands an eSIM Profile, as a
package bound to one eUICC, to the LPA that asks for it, and keeps in SQLite
which eUICC was given what and what that eUICC reported back. This directory
holds a model of it in TLA+, the TLC configurations that check the model on small
instances, and proofs, checked by TLAPS, of the properties that matter most for
instances of any size.

Paths below are relative to `src/crates/smdp/src/` unless they start with `src/`.

## 1. The system

### Components

| Component | State | Operations | Where |
| --- | --- | --- | --- |
| ES9+ handlers | the locals of each request | `initiate_authentication`, `authenticate_client`, `get_bound_profile_package`, `handle_notification` | `server/es9.rs` |
| RSP session map | transactionId -> (library session, order id, birth), behind one mutex; in memory only | `insert` (sweeps what is past `MAX_AGE` first), lookup, `remove` | `server/sessions.rs` |
| Store | tables `orders` and `notifications` in one SQLite file, one connection behind a mutex | `add_order`, `list_orders`, `order_by_iccid`, `bind_euicc`, `set_state`, `record_notification` | `store/mod.rs`, `store/sqlite.rs` |
| Schema migration | `PRAGMA user_version` and which tables and columns exist | `SqliteStore::open`, `migrate` | `store/sqlite.rs` |
| Order service | none | `create_order`, `iccid_from_metadata`, `generate_matching_id` | `service.rs` |
| Command line | none of its own; a process beside the server on the same file | `order add`, `order reset`, `order list`, `serve` | `bin/smdp.rs` |
| euicc-rsp wrapper | one C session per download | `DpSession::{initiate, authenticate_client, get_bound_profile_package, eid, euicc_cert}`, `verify_notification`, `notification_metadata` | `rsp/` |
| Configuration, nonces | none | transactionId, challenge, ephemeral key | `server/mod.rs` |
| ES9+ JSON binding | none | `to_hex_upper`, `from_hex`, base64 fields, response headers | `es9/` |
| LPAs and eUICCs | the peers | requests, retries, lost answers; installing, enabling, deleting; notifications | outside the repository, as `tests/http.rs` and the handlers' comments expect them |

### How they interact

An LPA calls the handlers in the order initiate, authenticate, package; after the
eUICC has installed (or refused) the Profile it signs a notification, which the
LPA delivers until it is answered 204 and then removes. The handlers share the
session map (mutex) and the store (mutex per statement). The order goes
`Available -> Bound` in `authenticate_client`, `-> Downloaded` in
`get_bound_profile_package`, `-> Downloaded` or `Failed` in
`handle_notification`, and back to `Available` by `order reset`. The command line
changes the same rows from another process at any moment. The database outlives
the server process; the sessions do not.

### What is hard about it

* No handler contains an `await`: once started it runs to its end, even if its
  client has gone. `smdp serve` has one thread, so two handlers never
  interleave there; the command line and a crash still fall between any two
  statements. `router()` is `Send + Sync` and may be hosted by several threads.
* Only `get_bound_profile_package` keeps the session mutex across a store access.
  Elsewhere what was read before is used after: the order chosen from a list, the
  certificate of an order, the schema version.
* Errors of store writes are dropped (`let _ =`) and success is answered.
* An answer may be lost after everything it announces has been done.
* A String's length is in bytes, its characters are not: `from_hex` and `parse_iccid`
  check the one and walk or slice the other.
* ICCIDs are not unique, and `--iccid` may contradict the metadata; a notification
  is matched to an order by ICCID alone.

### What makes each component correct

* Session map and package: the UPP (read from the order the entry remembers) and
  the metadata (given to the library at authentication) are one order's; the
  builder has its session to itself.
* Order states: an order whose package arrived is not on offer; a Bound order
  names an eUICC that authenticated against it; nothing rebinds a finished order;
  a download that broke off does not strand its order.
* Notifications: none is lost, all arrive; only the right eUICC's signature marks
  one verified or moves an order.
* Binding and command line: every request is answered, whatever its text; the
  transactionId of an answer names the session that was meant; the answer says
  whether the library said no or could not be asked; an ICCID is taken from where
  it stands and from nowhere else.
* Migration: an open store has every column its statements name, and every table
  save the one a file of the earlier version may lack; old rows say what their
  writer knew; a later version's file is untouched.

## 2. The modules

| Module | What it is | Proofs about it |
| --- | --- | --- |
| `OrderStore` | the two tables and one operator per SQL statement | |
| `Es9Server` (extends `OrderStore`) | sessions and the four handlers, one action per access to shared state | |
| `Smdp` (extends `Es9Server`) | LPAs, eUICCs, command line, crashes; the whole specification and its properties | `SmdpTypeProof`, `SmdpSessionProof`, `SmdpNotificationProof`, `SmdpFilingProof`, `SmdpSerialProof` (each extends the one before it) |
| `OrderLedger` | abstract specification: what the two tables promise, with no request, session or crash in it | `SmdpLedgerProof` |
| `SmdpLedger` (extends `Smdp`) | the refinement mapping and `ImplementsLedger` | `SmdpLedgerProof` |
| `MCSmdp` (extends `SmdpLedger`) | symmetry set for the TLC instances of `Smdp` | |
| `Schema` | a database file opened and migrated by several processes | `SchemaProof` |
| `Codec` | the conversions: hexadecimal, ICCIDs, MatchingIDs, as operators over texts and byte strings | `BoundaryProof` |
| `Boundary` (extends `Codec`) | the four calls and `order add` at the edge: text in, session, reason code and text out | `BoundaryProof` |
| `MCBoundary` | the texts, identifiers and metadata files of its TLC instance | |

### Smdp: state and actions against the code

* `orders`, `notifications`: the tables. EID and certificate are always written
  together and are one value, the card. `profile` is the ICCID inside an order's
  UPP and metadata, `iccid` the indexed column. `matching_id` is read by no
  handler and left out.
* `sessions`: the map, total over `Tids`, with `open` for presence. The entry's
  birth is left out: `InitInsert` sweeps an arbitrary set of open sessions, which
  includes what any clock would make it sweep.
* `job`: per thread, the program point of its handler and the locals still needed
  there. A point is a place just before an access to shared state:

  | Points | Handler |
  | --- | --- |
  | `init_insert` | `Sessions::insert` |
  | `auth_list`, `auth_session`, `auth_bind`, `auth_state` | `list_orders`; the critical section with the library call; `bind_euicc`; `set_state(Bound)` |
  | `bpp_lock`, `bpp_build`, `bpp_state` | the mutex is taken at the first and kept until the second is done (read the order, build, remove the session); `set_state(Downloaded)` |
  | `note_read`, `note_record`, `note_state` | ICCID, order and verification; `record_notification`; `set_state` |
  | `reply` | done, the answer not yet delivered |

  The mutex is held exactly when some job is at `bpp_build` (`SessionsFree`); every
  other critical section is one action.
* The library is its contract: `AuthFail`, `BppFail` and `InitFail` let it refuse
  anything, `BppBuild` requires the eUICC of the session to have signed the
  request, `Verifies` is `verify_notification`. A refusal is one value, "failed",
  whatever its reason code: the peers only retry or give up.
* `handed`, `authed`, `issued`, `received` are history variables: packages built
  and packages arrived since the order's last reset, eUICCs that authenticated
  against an order, notifications eUICCs ever signed. No guard of the server reads
  them. (`Sign` reads `issued` for its bound and because an eUICC reports on a
  Profile it has.)
* `lpa`, `pending`, `Initiate`, `Authenticate`, `GetBpp`, `Notify`, `Reply`,
  `HangUp`, `Operate`: the peers. A client has one request at a time, is answered
  or loses the connection, retries the same call or starts over.
* `OrderAdd`, `OrderReset`: the command line, enabled in every state.
  `order list` changes nothing and has no action.
* `Crash`: sessions and jobs go, the database stays, mid-handler or not.

Failures of single calls are switched by `Faults`: `"read"` and `"write"` make any
SELECT or any INSERT/UPDATE fail, `"decode"` makes `eid`, `euicc_cert` or
`authenticate_fields` fail after an accepted AuthenticateClient. A lookup by ICCID
and `list_orders` can return nothing because of it, and a failed write changes
nothing while the handler goes on, exactly as `let _ =` does.

Two handlers share no data except through these points, so cutting them finer
would add no behaviour; cutting them coarser (a handler as one action) would hide
the command line, crashes and other threads between two statements.

### Schema

One action per statement of `migrate()`, which runs without a transaction, for any
number of processes on one file. The version is read once, the existence of the
`notifications` table once, and both are acted on later. `Exit` stands for the end
of a command, a refused or failed open, a failing statement and a crash. The
files to start from are the ones the code and its tests name: a new one, one whose
creation an earlier version did not finish, one that version wrote (with its orders
table, or with `notifications` alone as in the test at `store/mod.rs:234-247`), and
one of a later version. `partial` is a history variable, read by no action: the
file came with `notifications` and no `orders`. `Record` uses an open store, so
that migration meets rows that are not old.

### OrderLedger and its refinement mapping

`OrderLedger` has an order's state, ICCID, the eUICC it names and the eUICCs that
authenticated against it, and the notifications signed, kept by eUICCs and filed.
Its actions say who may change what: an order on offer may name an eUICC that has
authenticated against it and become `Bound`; it is handed out (to whom, the ledger
does not say) only if it names one;
only a signed result of the eUICC it names, for the ICCID it is filed under, moves
it afterwards; a notification may leave its eUICC only when it is filed. They come
from the comments of `store/mod.rs` on `OrderState`, `bind_euicc` and
`record_notification` and from the handlers that call these.

`SmdpLedger` maps `Smdp` onto it: `status`, `number` and `holder` are the columns
`state`, `iccid` and the certificate, `known` is `authed`, `signed`, `kept` and
`filed` are `issued`, `pending` and the bytes of the rows, where a row filed from
damaged bytes counts as the notification it was (`Original`). Requests, sessions,
program points, crashes and lost connections are stutters. What makes the
refinement hold is not visible in one handler: that an order is still on offer
when a request that listed it earlier names an eUICC and writes `Bound` needs the
single thread, and that a result comes from the eUICC the order *now* names needs
that nothing runs between `note_read` and `note_state` but the command line, which
leaves the certificate alone. It is checked where writes succeed and every
notification can be read, and proved there for instances of any size (section 4).

### Codec and Boundary

A text is the sequence of its characters' code points, a byte string a sequence of
0..255. Arithmetic follows the code: `str::len` counts UTF-8 bytes (`ByteLen`),
`from_hex` pairs characters, `parse_iccid` slices bytes and leaves each pair to
`u8::from_str_radix`, which allows a plus sign; an index or slice that does not
exist yields `"panic"`. `IccidOctets` is 10 in the code, and a parameter here.

`Boundary` is complementary to `Es9Server`: calls are atomic (their interleavings
are `Smdp`'s subject), but the transactionId is text, and answers keep their HTTP
status, subject and reason code. `entries` is the session map, `io` the last call
with its text, how that was read, what the library returned (`0`, `-1`, `-2`) and
the answer. There is one action for each way a handler can return. Store, eUICC and
library come out any way they can; whether the order on offer exists is one of
these. `AddTyped` and `AddRead` are the two sources of `order add`'s ICCID.

## 3. What is checked

All passing runs together take about six minutes on two cores, each less than
three. `Cards`, `Iccids`, `Tids` and `Threads` are interchangeable, and symmetry
over them is used in the safety runs of `Smdp` only, never for liveness.

| Run | Instance | Checks |
| --- | --- | --- |
| `serial` | 2 eUICCs, 2 orders, 2 transactionIds, 1 thread, 1 mishap, failing reads | `TypeOK`, `PackageConsistent`, `ReceivedIsNotOffered`, `BoundHasEuicc`, `NotRebound`, `ImplementsLedger` |
| `threaded` | 1 eUICC, 2 orders, 2 threads, 1 mishap, all faults | `PackageConsistent`, `BuilderHoldsSession` |
| `notify` | 2 eUICCs, 1 order, 2 ICCIDs that may contradict the metadata, 2 notifications of either kind, damage, 1 mishap | `NoNotificationLost`, `VerifiedByItsOwnEuicc`, `ImplementsLedger` |
| `progress` | 1 eUICC, 1 order, 1 notification, damage, 2 mishaps, fair | `NotStranded`, `NotificationArrives` |
| `migrate` (`Schema`) | 2 processes, 2 rows | `TypeOK`, `OpenIsUsable`, `VerdictsKept`, `NewerUntouched` |
| `boundary` (`Boundary`) | 2 sessions, every text of up to 4 characters of 8, 2 ICCID octets, every cut of 32 metadata files | `TypeOK`, `AlwaysAnswered`, `MetadataIccidRead`, `EchoNamesSession`, `AnswerSaysWhy` |
| `handed_out`, `recipient`, `write_error`, `lost_answer`, `interrupted`, `typed_iccid` | smallest that shows it | one violated property each, see section 5 |

The properties, in words:

* `PackageConsistent`: no package mixes two orders, and its eUICC authenticated
  against the order. A refused AuthenticateClient after an accepted one on the
  same session must not move the session to another order.
* `BuilderHoldsSession`: while a package is built, nobody else builds, and the
  session is the one looked up.
* `ReceivedIsNotOffered`: an order whose package arrived is `Downloaded` or
  `Failed` until reset.
* `BoundHasEuicc`: past `Available`, the order names an eUICC that authenticated
  against it, also between the two UPDATEs.
* `NotRebound`: no step takes an order from `Downloaded` or `Failed` to `Bound`.
  True on one thread only: on two, the late `Bound` of one request overwrites the
  `Downloaded` of another. `serve` has one thread (`bin/smdp.rs:123`).
* `NoNotificationLost`: what an eUICC signed is still on the eUICC or in the table.
* `VerifiedByItsOwnEuicc`: a verified row was signed as it stands and, for an
  installation result, by an eUICC that authenticated against the matched order; a
  `Failed` order has such a result that says so.
* `ImplementsLedger`: the whole system is `OrderLedger` seen through the mapping above.
* `NotStranded`, `NotificationArrives`: progress, under the fairness below.
* `OpenIsUsable`: an open store has `notifications` with every column, and `orders` if
  and only if the file did not come with `notifications` alone: no death halfway and
  no other process makes an incomplete file look current, and no process completes
  that one (section 5).
* `VerdictsKept`, `NewerUntouched`: see section 1, migration.
* `AlwaysAnswered`: no text of a request makes its handler panic.
* `MetadataIccidRead`: `iccid_from_metadata`, which skips the BER length without
  looking at it, returns the ICCID of a StoreMetadataRequest written by its own
  reference definition (`BeginsWithIccid`), for every length form, and an error
  exactly for what is none.
* `EchoNamesSession`: the transactionId of a successful answer is upper-case
  hexadecimal, the one asked about up to letter case, and read back it names the
  session whose state the call changed.
* `AnswerSaysWhy`: reason 3.8 if and only if the library said no, 4.2 if it could not
  be asked, and "no session" only of a text that names no open one.

### Bounds, and why they are enough

* Two eUICCs and two orders: every property relates one order, one package or one
  notification to at most one other of each kind (a second eUICC that binds the
  order, a second order that a session or an ICCID might be confused with).
* `Tids` bounds the sessions open or remembered at a time. `Fresh` reuses an
  identifier only when no LPA and no request remembers it, which is what 16 random
  bytes amount to. Two let a new session live beside an old or swept one.
* `MaxMishaps` bounds crashes and lost connections together. One is enough to leave
  a handler working for nobody, and so to have two requests for one session; two
  (in `progress`) let a second one hit the recovery from the first.
* `MaxNotes` bounds what is signed; two (in `notify`) let a result be followed by a
  second one or by an operation on the Profile. In `progress` an eUICC has one
  result to report, which it may sign again after every download.
* `MaxOrders` bounds the table, `RowIds` the rows of `Schema`. `progress` has one
  order: with several on offer the server refuses by design (`src/README.md`, the
  limitation on `ctxParams1`), so nothing progresses until the command line acts.
  Two rows under one ICCID are in no run's bounds; `VerifiedByOwnEuicc` is proved
  with them.
* `IccidOctets` is 2 and `MaxChars` 4: enough for each error and each pair of
  neighbouring octets; the conversions treat every octet and every pair of
  characters alike. The characters are two digits, a letter in both cases, the plus
  sign, a letter that is no digit, and one character of each UTF-8 width, so texts
  whose byte length is even and whose number of characters is odd are among them.
  The theorems of section 4 have no bound on any length.

All faults are on in `threaded` only, reads alone may fail in `serial`, because
with failing writes `ReceivedIsNotOffered`, `BoundHasEuicc` and
`NoNotificationLost` do not hold, as `write_error` shows for the last: the code
discards those errors.

### Fairness

`ServerRuns` is weak fairness of each thread's next step and of its answer: a
handler waits for nothing but the two mutexes, whose holders never wait for
anything. `LpasDownload` is strong fairness of an LPA's requests, of starting over
after a refusal, and of the library accepting a genuine request; strong because a
request is possible only while a thread is idle and the LPA has none outstanding,
and because a refusal may always come in between. An LPA that retries one dead
session for ever, or a library that always refuses, would otherwise be the
counterexample. `LpasDeliver` is strong fairness of delivering a pending
notification, for the same reason. Nothing is assumed of the command line, of
crashes, of damage on the way, or of `Operate`. In `NotStranded` the command line
may reset an order at any time, which the property allows: it asks that whatever
is on offer leaves that state again.

All of it is one specification, `FairSpec`, used by `progress` only.

## 4. What is proved

The proofs are about the specifications TLC checks, unchanged, for every value of
the constants. Every safety and action property of every passing run is the
statement of a theorem. The assumptions on constants are the named ones of the
models: `StoreAssumption` (`NoCard` is no card, `NoIccid` no ICCID),
`ServerAssumption`, `SmdpAssumption`, `CodecAssumption`, `BoundaryAssumption` (the
inputs are texts and byte strings). Except for the hypotheses in the table,
threads, eUICCs and ICCIDs need not be finite, any call may fail, and ICCIDs may
repeat.

| Theorem | States | Further hypotheses |
| --- | --- | --- |
| `TypeCorrect` | `Spec => []TypeOK` | none |
| `PackagesConsistent`, `BuildersHoldSessions` | `Spec => []PackageConsistent`, `[]BuilderHoldsSession` | none |
| `VerifiedByOwnEuicc` | `Spec => []VerifiedByItsOwnEuicc` | none |
| `NothingIsLost` | `Spec => []NoNotificationLost` | `Reliable` |
| `NeverRebound` | `Spec => NotRebound` | `OneThread` |
| `ReceivedNotOffered` | `Spec => []ReceivedIsNotOffered` | `OneThread`, no `"write"` |
| `BoundNamesEuicc` | `Spec => []BoundHasEuicc` | `OneThread`, `NoBadWrites` |
| `ImplementsTheLedger` | `Spec => ImplementsLedger` | `OneThread`, `Dependable` |
| `LedgerSuffices` | `ImplementsLedger => []BoundHasEuicc /\ []NoNotificationLost /\ NotRebound` | none |
| `SchemaTypeCorrect`, `OpenStoreUsable`, `VerdictsAreKept`, `NewerFilesKept` | the four properties of `Schema` | none |
| `BoundaryTypeCorrect`, `EveryRequestAnswered`, `OnlyTheIccidIsRead`, `AnswersSayWhy` | four properties of `Boundary` | none |
| `EchoesNameSessions` | `Spec => EchoNamesSession` | `TransactionIdSized` |
| `HexRoundTrip`, `HexUpToCase`, `IccidRoundTrip`, `MatchingIdUnbiased` | the operators of `Codec` | none |

What the hypotheses mean, and what goes wrong without them:

* `OneThread`: `smdp serve` builds its runtime with one thread (`bin/smdp.rs:123`).
  On two, the order one request found on offer may have been handed out by another
  before the first writes `Bound`.
* `NoBadWrites`: `"write"` and `"decode"` are not in `Faults`. `authenticate_client`
  drops the error of `bind_euicc` and writes `Bound` all the same
  (`server/es9.rs:225-228`); it does so too when `eid` or `euicc_cert` failed and there
  was nothing to bind; and when `authenticate_fields` fails it returns with the
  order already in the session (`server/es9.rs:205`), which a package can then be
  built from. Each way an order gets past `Available` naming nobody.
* `Reliable`: no write fails, no notification is `"unreadable"`. A failed INSERT is
  answered 204, and an unreadable notification is answered 204 unrecorded; the LPA
  removes its copy either way (the run `write_error`).
* `Dependable`: only reads fail, no notification is unreadable. It is `NoBadWrites`
  and `Reliable` in one.
* `TransactionIdSized`: a transactionId has 1 to 16 bytes; `Nonces::transaction_id`
  draws 16. The upper bound is what keeps the echo within the 32 characters of
  section 6.5.2.6.

The arguments:

* `TypeCorrect`, in `SmdpTypeProof`. `TypeOK` is not inductive: that `AuthSession`
  writes a well-typed session needs that a job at that point names a session and
  an order. `TypeInv` adds what a job has at each program point, and that an LPA in
  a download holds a transactionId.
* `PackagesConsistent` and `BuildersHoldSessions`, in `SmdpSessionProof`, from
  `SessionInv`: both properties and `SessionsConsistent` (an entry with an order
  has that order's metadata and an eUICC that authenticated against it). The
  metadata in a package is the session's, the UPP is that of the order the builder
  read at the lookup; they agree only because the mutex kept the entry unchanged
  in between, so the two properties are proved together. Most steps are "quiet"
  (they touch no session and let nobody start building) and share one lemma.
* `VerifiedByOwnEuicc`, in `SmdpNotificationProof`, from `WitnessInv`, which
  follows a notification through its handler. What the handler establishes at
  `note_read` must still be true at `note_record` and `note_state`, though other
  threads, the command line and other eUICCs change the order meanwhile. It is,
  because it is made of facts that only grow (`Grows`): who signed, who
  authenticated against an order, which rows exist and their ICCIDs. That the
  certificate on file can be overwritten between lookup and use does no harm,
  because every certificate ever on file authenticated (`CertsAuthenticated`).
* `NothingIsLost`, in `SmdpFilingProof`. Any number of threads, crashes and lost
  answers. The invariant follows one notification from `Notify` to the answer: a
  job past `note_record` has filed what it was sent, so an LPA that sees the 204
  and removes its copy removes the second one. Rows are never deleted.
* `NeverRebound`, in `SmdpSerialProof`. `OfferInv`: from `auth_list` until
  `auth_state` has run, the order the job works on is still on offer. The command
  line cannot break this (`add` touches no existing row, `reset` puts it on offer),
  a crash ends the job, and `OnlyAuthStateBinds` says nothing else writes `Bound`.
  Failing calls are allowed.
* `ReceivedNotOffered`, in `SmdpSerialProof`, from `OfferInv` and `ReceivedInv`:
  when the answer carrying a package is ready, its order is done, or has been reset
  since and the package no longer counts.
* `BoundNamesEuicc`, in `SmdpSerialProof`. That an order past `Available` names an
  eUICC is not inductive: `auth_state`, `bpp_state` and `note_state` write a state
  and leave the certificate alone. `NamedInv` adds what makes each of them right: a
  job about to write a state works on an order that names somebody, and one that
  records a verified result on the order that names its signer (`JobsNamed`); an
  order a session remembers is named, or the job that is about to name it is still
  running (`SessionsNamed`), which is what `bpp_lock` relies on; and a row that is
  not there names nobody (`AbsentUnnamed`). `reset` keeps the certificate, so a crash
  between `bind_euicc` and `set_state` leaves an order that is named too early and
  never too late. That the eUICC authenticated is `CertsAuthenticated`, again.
* `ImplementsTheLedger`, in `SmdpLedgerProof`. One lemma per action says which entry
  of the ledger it makes, or that it makes none; `LedgerStep` puts them together
  under the conjunction of `TypeInv`, `WitnessInv`, `OfferInv`, `NamedInv`,
  `FilingInv` and `SignedInv`. Each entry's guard is one of these: `Prove`, `Name` and
  `Bind` need `OfferInv`, `Name` also what `WitnessInv` says of the request's eUICC;
  `Bind`, `HandOut` and `Report` need `NamedInv`, `Report` also that the result was
  signed (`WitnessInv`); `Forget` needs `FilingInv`. `SignedInv` is new: what
  was signed is what the ledger lets be signed, so an eUICC reports on ICCIDs of
  Profiles there are (`ProfilesKnown`), and what an LPA is delivering is still on its
  eUICC (`JobsKept`).
* `LedgerSuffices`, in `SmdpLedgerProof`. A refinement is worth what its abstract
  specification promises. `LedgerInv` is inductive for `OrderLedger`, seen through
  the mapping; no action of `Smdp` is mentioned.
* `SchemaTypeCorrect`, `OpenStoreUsable`, `VerdictsAreKept` and `NewerFilesKept`, in
  `SchemaProof`, from `MigrationInv`: each process acts on a version and a table it
  looked up earlier, which is sound because tables are only ever made or upgraded,
  the version is written last, and nothing makes an old table. A file without `orders`
  is either on its way to be created or partial for ever, because only the branch
  that found no `notifications` creates tables. `NewerInv` adds that nobody gets past
  the version of a later file.
* `EveryRequestAnswered`, in `BoundaryProof`, from `FromHexNeverPanics`: if every
  character is a digit, the text has as many bytes as characters (`AsciiIsBytes`:
  the set of pairs `ByteLen` counts is empty), so an odd number of them has been
  refused already.
* `HexRoundTrip`, `IccidRoundTrip`: what `to_hex_upper` and `hex` write is read back
  by `from_hex` and `parse_iccid` as the same bytes, for any length. Both rest on
  `HalvesOf`, that digits `2k - 1` and `2k` are the halves of byte `k`. `HexUpToCase` is
  the other direction: what `from_hex` accepts is written back as itself in upper
  case, so different identifiers never share a text.
* `EchoesNameSessions`, from `HexRoundTrip` and `HexUpToCase`: the echo is made from
  the bytes the lookup used, so read again it finds the same entry.
* `AnswersSayWhy`, from what `FromRspError` answers for each library code, and
  `HexRoundTrip` for "no session": a text that is, up to letter case, some open
  session's identifier would have been read as that identifier.
* `BoundaryTypeCorrect`: what is read from a text is a byte string (`HexReadIsBytes`,
  `IccidReadIsBytes`, `MetadataReadIsBytes`), so answers are texts; and every way to
  fail puts a subject code and a reason code in their places.
* `OnlyTheIccidIsRead`, from `MetadataRead`: skipping the length octets unread finds
  the same place as the reference definition, for files of any length, because the
  first of them determines how many there are (`LengthForms`).
* `MatchingIdUnbiased`: each of the 32 symbols is drawn by exactly 8 of 256 bytes, as
  `service.rs:44` says; it needs that no symbol occurs twice in the alphabet.

Model-checked only: `NotStranded` and `NotificationArrives`, because the prover has no
`ENABLED` and so no fairness. Nothing here is proved by induction over data: the
conversions are sequences given position by position, and the proofs follow their
positions.

## 5. Where the repository and the code disagree

The first six are runs that TLC must find violated.

* `handed_out`: `get_bound_profile_package` never looks at the order's state. Every
  eUICC that authenticated while the order was on offer gets a package, against
  `tests/http.rs:336` ("a Profile already handed out must not be handed out
  again"), which tests only a client that authenticates later.
* `recipient`: the last eUICC to authenticate is the one recorded, not the one the
  package went to (`server/es9.rs:221`, "Remember which eUICC this went to").
* `write_error`: a failed INSERT of a notification is answered 204
  (`server/es9.rs:322`, "Everything that arrives is kept"); the LPA then removes the
  only copy. A notification that cannot be parsed meets the same end
  (`Forms = {"unreadable"}` shows it); the other forms are kept.
* `lost_answer`: the order is `Downloaded` before the package is sent; if the
  connection is lost it is neither wanted nor downloaded (`bin/smdp.rs:88`, "an
  unfinished download leaves the Profile here and still wanted").
* `interrupted`: a migration broken off before the version is written leaves a
  current file at version 0, which every later open tries to ALTER again, and fails
  (`store/sqlite.rs:55`, "The two are told apart by whether the tables are there at
  all").
* `typed_iccid`: `parse_iccid` takes `+9` for an octet, and panics where it slices
  through a character of several bytes (`bin/smdp.rs:102`, "an ICCID is 20
  hexadecimal digits").

Three more have no run of their own:

* What becomes of a notification that does not verify. The comment at
  `server/es9.rs:299-303` says that "what a rejection does is leave nothing in the
  store, and that absence is the record"; the one at `server/es9.rs:322-327`, that
  "everything that arrives is kept, verified or not". The code does the second: it
  records the row with `verified = false`. `NoNotificationLost`, `NotificationArrives`
  and the ledger's `Forget` state the second, and the runs that cover damaged
  notifications show that it holds of them. For a notification that cannot even be
  parsed the first is what happens, see `write_error`.
* `src/README.md:67-70` says of notifications that "nothing collects or checks one";
  `handle_notification` does both.
* A file with a `notifications` table and no `orders` table, as the migration test
  builds it (`store/mod.rs:234-247`), is altered, stamped version 2 and opened, but
  never given an `orders` table, against `store/sqlite.rs:42` ("Bring an existing
  database up to [`SCHEMA_VERSION`]"); the test looks at the notifications only.
  `OpenIsUsable` says so, exactly of these files, and is checked and proved.

## 6. What is not modelled

* Message texts, field names and base64 of the JSON binding, HTTP headers, TLS and
  the listener (`es9/mod.rs`, `bin/smdp.rs`): nothing the properties speak of depends
  on them, and serde, base64, axum and rustls do the work.
* The contents of the protocol messages and euicc-rsp itself, which is not in this
  repository; the wrapper's pointer handling and ownership (`rsp/owned.rs`) and the
  generated bindings (`src/crates/rsp-sys/`).
* Session age as time: a sweep may take anything. That a server which gets no
  further InitiateAuthentication never sweeps (against `server/sessions.rs:13`,
  "must not pin memory forever") follows from the code directly.
* `add_order`'s unique `matching_id`: a refused `order add` changes nothing, and no
  handler reads the MatchingID.
* A row that cannot be decoded (`row_to_order`: an ICCID of the wrong length, an
  unknown state) makes the SELECT that meets it fail: `"read"` in `Faults`.
* `Schema` has no newer program: a file of a later version is there from the start or
  never, and none comes while another process migrates.
* Failing reads together with notifications are in no run (too many states); the
  theorems about notifications cover them.
* A notification delivered twice is two rows in the database and one element of the
  model's set: rows differ by their contents only.

## 7. Plan

1. Done: `OrderStore`, `Es9Server`, `Smdp` and their runs; `Schema`; `OrderLedger`
   and the refinement; `Codec` and `Boundary`.
2. Done: every safety and action property of the passing runs proved, and
   `Spec => Ledger!Spec`.
3. Open: which part of `OrderLedger` the system still implements when writes fail or
   there are several threads (nothing is moved by an unsigned result, no
   notification is marked verified wrongly), as a weaker ledger of its own; and
   the uniqueness of MatchingIDs, should a handler ever read one.
