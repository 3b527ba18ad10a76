# A TLA+ model of the windows-cors-caster NTRIP caster

This directory models the caster's server (`src/main.py`, `src/src/*.py`, and what it
uses of the RTCM decoder in `src/pyrtcm`): GNSS
base stations ("sources") upload RTCM corrections to mount points, rovers download
them, a web interface administers users and mount points and looks into the
streams. It is a multi-threaded Python program: a thread per connection, a broadcast
thread, parser threads, web workers, a signal handler on the main thread; they
share tables guarded by half a dozen locks. Most of the models are about those
interleavings; `Request`, `RoverGGA` and `Decoder` are about streams of bytes that
arrive in pieces, and about who may do what.

Line references without a directory are to `src/src/`; `main.py` is `src/main.py`, and
`rtcm*.py` other than `rtcm2.py` and `rtcm2_manager.py` are in `src/pyrtcm/`.

Contents: [1 The system](#1-the-system) - [2 Plan](#2-plan) -
[3 Modules and code](#3-modules-and-code) - [4 Runs](#4-runs) -
[5 Fairness](#5-fairness) - [6 Proofs](#6-proofs) -
[7 Where the code disagrees](#7-where-the-code-disagrees) -
[8 Not modelled](#8-not-modelled) - [9 Running it](#9-running-it)

## 1 The system

| Component | State | Operations | Hard behaviour | What makes it correct |
|---|---|---|---|---|
| **Upload session** - `NTRIPHandler.handle_upload`, `_receive_rtcm_data`, `_cleanup` (ntrip.py 1201-1449, 1795-1839) | handler thread, socket, `mount_connection_established` | sweep, refresh, verify, register, respond, receive, upload, count, clean up | a handler of a replaced source cleans up late; a response fails after the registration | the registered source is the one that is received; nothing it made outlives it |
| **Mount table** - `ConnectionManager` (connection.py) | `online_mounts` under `mount_lock` | `add_mount_connection` (takeover by address), `remove_mount_connection`, `cleanup_zombie_connections`, `force_refresh_connections` | snapshot-then-act sweeps, removal by name or by socket | an entry is removed by its owner or by a named cause only |
| **User table** - `ConnectionManager` | `online_users`, `user_connection_count` under `user_lock` | `add_user_connection`, `remove_user_connection`, limits | four removers of one entry, limit checks in other critical sections | the count is the number of entries |
| **Forwarder** - `SimpleDataForwarder` (forwarder.py) | `mount_buffers`, rings, `clients`, `next_buffer_index` | `upload_data`, `add_client`, `activate_client`, `_broadcast_data_for_mount`, `remove_client`, `remove_mount_buffer`, `force_disconnect_*` | buffers are replaced under clients' indices; sends with the lock held | order, no repeats, no gap inside the ring |
| **Caster** - `NTRIPCaster` (ntrip.py 1841-2111) | queue, pool, `client_sockets`, `active_connections` | listen, queue, dispatch, serve, stop | a count changed by two threads after the fact; a stop at any moment | the count does not drift, no open socket is unknown |
| **Parser threads** - `RTCMParserThread` (rtcm2.py) | startup state, socket pair, subscription, `result` | start, subscribe, read, process, time out, stop | stop during start; a full pair; lock held in a blocking send | "ready" means nothing is missed; ended means unsubscribed; the result is what the station said |
| **RTCM decoder** - `RTCMReader`, `RTCMMessage`, `parse_msm` (rtcmreader.py, rtcmmessage.py, rtcmhelpers.py, tables) | the bytes of the frame being read | find a frame, check its CRC, take the payload apart by its layout | frames cut by chunks, junk that looks like a frame, masks that size other fields | in step again after anything; nothing is made up |
| **Parser manager** - `RTCM2ParserManager` (rtcm2_manager.py), STR correction (connection.py 690-806) | three dictionaries, `current_web_mount` | start, stop, web-only stop, correction's waiting thread | by-name stops of a parser that is another's by now | the dictionaries agree, one web parser, no forgotten parser |
| **Service** - `ServiceManager` (main.py 111-481) | `running`, `shutdown_started`, events, parts | start, signals, `stop_all_services` | signals at any instruction of the main thread, nested; steps that raise | one cleanup; every part stopped |
| **Logins and import** - `WebManager` (web.py 198-326), `UserImport` (user_import_web.py), `import_users_atomic` (database.py 442-490) | `_admin_logins`, `_socket_logins`, previews, slots, users | login, logout, prune, sockets; preview, confirm, cancel, commit | two locks, waits between checks, races of confirmations | an import is what was shown, once, and still wanted |
| **Accounts and mount points** - `DatabaseManager`, web API | SQLite tables | add, rename, change password, bind, delete, each a look-up, a disconnect and a write | several calls per request, rows found by name and written by id, ids given out again | names are unique, a mount point's owner exists, who changed is disconnected |
| **Request parsing, authentication, RTSP** - `NTRIPHandler.handle_request` and what it calls (ntrip.py 84-1200, 1653-1793), `verify_*` (database.py 16-160, 507-565) | bytes read, protocol, version, RTSP session of a handler | receive, parse, route, verify, answer, hand on | a header cut anywhere; four dialects, seven verbs, three ways to show a password; rows that change meanwhile | who is served was verified for it; no byte behind the header is lost; every request ends |
| **Rover positions** - `RoverGGAAccumulator` (rover_gga.py) | bytes of an unfinished sentence | `feed`, `_bound_incomplete_data` | pieces of sentences, lines that never end | the position is the last complete sentence's |
| **STR text, rover status** - connection.py 538-619, 809-965 | STR fields; age of a position | format, age | - | not modelled (section 8) |
| Configuration, logging, front end, health check, deployment | - | - | - | not modelled (section 8) |

How they interact:

* An **upload handler** calls the mount table (`add_mount_connection`), the forwarder
  (`upload_data`, `remove_mount_buffer`), the parser manager through
  `start_str_correction`, whose start it waits for, and indirectly the subscribers of
  its raw data (`subscriber.send`).
* A **download handler** registers in the user table, then in the forwarder
  (`add_client`), answers `ICY 200 OK`, and activates the client. The **broadcast
  thread** sends; a failed send removes the client from both registries.
* The **web workers** delete rows and force disconnects through the same tables;
  start and stop parsers; bind Socket.IO connections to logins.
* The **main thread** starts everything; a signal handler, a web request or the end of
  `main` stops it: the listener's socket, the connections, the web server, the parsers
  and the forwarder, the pool.

## 2 Plan

The modules are ordered by what a mistake would cost.

1. `SourceSession`: sources and the mount table (done, with proofs).
2. `Broadcast`, and `StreamDelivery` as what it promises (done).
3. `DownloadSession`: rovers and the two registries (done).
4. `CasterPool` (done).
5. `ParserThread`, `ParserManager` (done).
6. `Service` (done).
7. `UserImport`: logins, previews, import (done).
8. `Accounts`: users and mount points under the web API (done).
9. `RequestSyntax`, `Request`, `RoverGGA`: a connection from its first byte (done).
10. `RtcmMessage`, `Decoder`: what the parser threads make of a stream (done).

What is left: a composition of `Accounts` with the entries of `SourceSession` and
`DownloadSession` (`Request` composes verification with the deletion of a mount point,
and `Accounts` with the rovers of a user, so far); an abstract specification of the mount
table (a register with owner, take, release) that `SourceSession` implements, beside
`StreamDelivery`; the status of rovers and the STR text.

The proofs follow the modules, and every component with state of its own has them:
`SourceSession`, `Accounts`, `ParserThread` with `Decoder`, `ParserManager`, `CasterPool`,
`DownloadSession`, `Broadcast` (with its refinement), `UserImport`, `Service` and `Request`
with `RoverGGA`. Every safety invariant that a run checks is a theorem; the one about what
stations say, `ResultIsAsSent`, has a hypothesis about the station (section 6). All modules are written for it: constants with named assumptions, one action per
operation, invariants as named parts, recursion as recursive functions or folds.

Two proof modules hold the proofs of two components each, `AccountsAndPool_proofs` and
`BroadcastAndService_proofs`. The components in them have nothing to do with each other;
they share the lemmas' library and nothing else. `CasterPool` and `Service` name their
`Init`, `Next`, `Spec`, `vars` and `TypeOK` after themselves (`PoolInit`, `ServiceSpec`,
...) so that they can stand beside another specification.

## 3 Modules and code

One convention holds throughout: what a thread does under one lock is one action; what
it does between two critical sections is an action of its own, because other
threads run there. A blocking call (`recv`, `send`, a wait) ends an action. Unordered
loops over a snapshot (`suspects`, `todo`, sockets to close) take their elements in any
order. Mutated forms of definitions, marked `Mutant:`, stand in front of the definitions
they vary; they show that a property would notice the bug.

### SourceSession

`pc[s]` is the handler of session `s`: `accepted` -> `sweeping` -> `refreshing` ->
`verifying` -> `registering` -> `starting` -> the receive loop (`recv`, `check`,
`create`, `append`, `stats`, `stats2`) -> `cleanup` -> `dropBuffer` -> `closing` ->
`done`. `online` is `online_mounts` (an entry is named by its session, or
`Initialized` for the socketless entry of `api_initialize_mount`), `buf` says whether the
forwarder has a buffer, `suspects` is the snapshot of a zombie sweep, `seen` the size of
the dictionary when an unlocked iteration began (a change raises RuntimeError).
`upload_data` is three actions (look for the buffer, create it, append), because it
leaves `buffer_lock` between them. The administration (`InitializeMount`, `CreateRow`,
`UpdateRow`, `DeleteRow` then `DeleteEntry`, `AdminDisconnect`) and the shutdown
(`ShutdownSocket`, `ShutdownSnapshot`, `ShutdownEntry`) act on the same tables.
`sock` separates a peer that hung up from a socket the caster closed: only the second
makes the next `recv` fail at once, both end the loop.

What a source says before it is verified is `Request`'s subject, and the one outcome of
`Verify` here.

### Broadcast and StreamDelivery

The buffers a mount point has had are generations; `write` is `_write_index`, `base`
where a generation starts in everything that was uploaded, so that an item has one
number whatever buffer it is in. The broadcast thread is `CopyTable`, `TakeLock`,
then per client `Fetch` and `SendSucceeds` or `SendFails`, and `ReleaseLock`, with
`client_lock` held from `TakeLock` on. Clients read the index, are registered, answered,
activated; the removal of a user's oldest connection at its limit is one of the removals
here, and is modelled with its cause in `DownloadSession`.
`StreamDelivery` knows only published items, members and what each received. The
mapping is in the module (`Delivery == INSTANCE StreamDelivery WITH ...`).

### DownloadSession

The handler of a rover over `conns`/`count` (user table) and `clients` (forwarder).
A removal is three steps (out of the registry, out of the user table, close the socket);
who does the first does the others, with `client_lock` held when it is an evicting
newcomer, the broadcast thread or `force_disconnect_mount` (`lock`, `victim`). Deleting a
user on the page is a snapshot of its clients, removed one by one. The sessions are those
of one mount point that matter to each other; other users' clients show only in
`Evicted`, where the list of the mount point may have been kept by one of them. `burst` is
a history variable: the most connections of a user that were between `CheckLimit` and the
entry in the user table at one time.

### CasterPool

`listener`, `dispatcher` and `stop` are the three threads of `NTRIPCaster` as records of
a step and the connection in hand, `queue` the bounded queue, `task` what the pool has
of a connection. `active` changes where the code changes it: up by the dispatcher after
`submit`, down by the worker, possibly before. The shutdown does, as `main.py`
drives it, `stop_accepting`, `close_client_connections`, and `stop`, which repeats both.

### ParserThread

`thread`, `startup`, `stopping`, `subscribed` and `pipe` per mount point, the upload
handler beside it. A mount point has one parser here, of either mode (`AcceptOnly` for a
source without correction, `StartWeb` for the page); who gets the slot is
`ParserManager`'s subject. `deaf` is a thread whose buffered reader timed out once: Python
raises at every later read, and the loop takes that for another time-out
(rtcm2.py 293-295). `lock` is `subscriber_lock`, held through `subscriber.send`.

### RtcmMessage and Decoder

`RtcmMessage` has no state: a payload as bits, the layouts of the messages that the caster
uses (1005, 1006, 1033 and the MSM types 1 to 7), and `RTCMMessage`, which folds
`_set_attribute` over a layout; `_getsatcellmaps` turns the three masks into satellites and
cells. Message numbers are the real ones; the widths of bytes, fields and masks are
constants, and fields that nothing depends on are left out, as are labels and
scaling. A field's value is found by its name and index, as the attributes
`DF030_01`, ... are.

`Decoder` takes the steps of `ParserThread` and adds what they do to the stream. A stream
is a sequence of tokens: bytes, and for the three bytes of a CRC one token which is what
the CRC was computed from, so that a frame is accepted when and only when it is whole and
unchanged (a CRC that matches by chance is not modelled). The chunks in the socket pair and
in the buffered file are intervals of the source's stream. `NextToken` is `read` and
`_parse_rtcm3` one byte at a time, with the frame so far as its only state; `Parse` is the
call of `next(reader)` up to a message or the end of the buffer, with what the loop
does with the message (`Process`), since both are the thread's own. `running` and
the duration are looked at between two calls only (`EnterRead`, `Leave`). `got` is a
history variable, the ends of the frames that were decoded.

### ParserManager

`mgr` is the manager's whole state as one record, and the operations are functions from
such a record to the next (`StopParser`, `StartParser`, `StopWebParserOnly`), each under
the manager's lock, as the methods are. `fate` says what became of each thread.
`correction` is `start_str_correction` and its `wait_and_correct` thread. `asked` is a
history variable: the mount point that each web request has asked for, which
`CorrectionStoppedOnlyBy` compares with the one whose correction ends.

### Service

`main` is the main thread's program, `frames` the calls of `stop_all_services` that
signal handlers have pushed on it, `other` the call of a web request. Locks are not
reentrant, so a handler can wait for a lock of the frame below; this is modelled.
`started` is a history variable: the shutdown was claimed after the start was over.

### UserImport

`grants`, `sids`, `sockets`, `previews`, `epoch` are the tables under `_admin_lock`;
an operation under that lock alone is one action, and the two places that keep it
across a database call hold `auth`. `req` is a request from `dispatch` to its answer.
Time is a flag on a login or a preview that can go up at any moment. A file is the set
of its accounts. `shown` is a history variable.

### Accounts

`users` and `mounts` are the tables by row id. `IsFresh` is SQLite's id for a new row of
an `INTEGER PRIMARY KEY` without `AUTOINCREMENT`: one more than the highest in use, so
that the id of a deleted last row comes back. A request is a record of its step and what it
has read; each database call is one action, as each takes `db_lock` by itself. A stored
password is what was hashed and how many times (`Hash`), since a rename hashes the
stored value again. A rover is verified (`verify_download_user`) and
then registered (`add_client`), and carries the row it was verified with. `excused` is
a history variable: the rovers that `StaleRoverOnlyBy` says may be stale, each put in where
the cause occurs. The passwords of mount points, and sources, are left to `SourceSession`.

### RequestSyntax, Request and RoverGGA

`RequestSyntax` has the pure part of ntrip.py 215-732: what `_parse_request_line` makes of
a line, the version (`_determine_ntrip_version`), whether the request is valid, and where
it goes. A request line, its headers and its credentials are a record of what the code
tells apart; the bytes of the header matter only by their number and line ends.

`Request` is the handler around it. `RecvPiece` takes any number of bytes, up to
`BUFFER_SIZE`, and looks for the end of the header; what came with it goes to `rest`, from
where the upload or the rover's accumulator gets it first. `Handle` parses and routes;
`VerifyUser`, `Digest`, `UploadRows`, `DownloadMountRow`, `DownloadUserRow`, `Limit` are
`verify_user` with a step for each call of the database and of the connection manager,
because the pages run in between: `DisconnectMount`, `DeleteRow` and `RemoveSource` are the
DELETE of a mount point, `DisconnectMount` and `UpdateRow` the PUT, which gives the row
another password, owner or name and leaves its source alone. `RtspCommand` answers and, for PLAY
and RECORD, verifies again as a download and an upload. `InitialRoverGga`, `UploadPiece`,
`RoverPiece` and `ServePiece` hand on data, `ServeEnds` ends it.
`seen`, `late` and `moved` are history variables: the rows a client was verified with, the
sources registered after their mount point had been deleted or renamed, and those under
which it was renamed.

A stored password is a word as it is, or its hash (`Stored`, `hash_password`). The text of
a hash is nothing that any word equals, and `verify_password` compares a hash only with the
hash of what was given, so that a client that shows the hash itself is refused; the
instance has such clients, by Basic and by Digest. `ServedIsVerified` does not use
`verify_password`: a user is shown by the word behind the entry. The second and third
word of a SOURCE or ADMIN line are the password and the mount point whatever they look
like (`AsThreeWords`): `SOURCE /A HTTP/1.1` is the password `/A` for a mount point
`HTTP/1.1`, and gets a 401.

`RoverGGA` is the accumulator: `feed` splits what it holds at line ends, gives the position
of each line that became complete, at its newline, and bounds the unfinished rest. A
sentence is the characters `$`, a fix and `*`; `parse_gga_sentence` accepts exactly these.
`Sentences` and `LastPosition` say the same of a whole stream, without a buffer and without
pieces: they are the reference that `PositionIsLastGga` compares with. `EndsInTime` is its
premise. A sentence is dropped when so many carriage returns follow it that its `$` has left
the buffer before the newline comes; `_bound_incomplete_data` counts them, and `rstrip` takes
them away only afterwards (rover_gga.py 143, 156-165). The property was stated without
that premise at first, and its proof did not go through; `MCRequest` has such a sentence.

## 4 Runs

All runs give every constant its value in the cfg, and switch the deadlock check off:
each session, request and signal is used once, so every system here comes to rest
when they are used up. Whether it rests where it should is what the `~>`
properties say.

| Run | Question | Bounds, and why they are enough |
|---|---|---|
| `SourceSession` | `LiveSourceOwnsMount`, `NoLeakedMount`, `NoLeakedBuffer`, who closes a live source, that departed sources release the table and shutdown drains | 2 sessions behind one address (a takeover, a late cleanup), which an initialised entry refuses, 2 mount points (the size of the table changes under an iteration), one request of the pages (a DELETE is two steps); larger instances, a local source that follows an initialised entry and rivals included, are covered by the proofs |
| `SourceSession_v_stale` | finding 1 | 2 sessions, 2 chunks (the first makes the buffer) |
| `Broadcast_path` | order, gaps, implementation of `StreamDelivery`, progress | ring of 2 and 3 items overrun it; 2 generations reconnect once; 2 clients: one can fail or lag while the other is served |
| `DownloadSession` | both registries exact, the limit per mount point kept, the user's limit exceeded only by a burst, nothing left | 2 rovers of one user, with both limits at 1: a registration next to another evicts, and the burst can exceed the user's limit; 2 requests of the pages, so that one removal runs into another |
| `CasterPool` | count, register, bound, stop | 4 connections exceed queue (1), pool (1) and limit (1) together; `ActiveIsBounded`'s bound is reached |
| `Decoder` | start, stop and subscription; nothing missed; the result is what was sent | one source with a stream of 3 to 7 items and a parser of either mode, or a short one next to a second source that takes the lock; chunks of 4, 5 or 7 tokens, or all of the rest at any time, cut the frames (10 to 20 tokens) at every kind of place; the streams have positions with negative coordinates, texts longer than the kept part, MSM with two satellites and two signals and a hole in the mask, a strength of 0, an MSM2, an unknown and a too short message, a broken CRC, junk, and false headers of which one swallows a frame |
| `ParserThread_v_blocked` | finding 2 | 1 mount point, 3 chunks: one read, one in the pair, one that blocks |
| `ParserManager` | dictionaries, web parser, who stops what | 2 mount points, a source that returns, 2 web requests, 1 stop |
| `Service` | one cleanup, all parts, end | 2 signals nest once; 1 failing step |
| `UserImport` | logins, previews, commits | 3 requests: a preview and two that race; 2 logins, one can replace the other; 1 socket; limits are constants (2 slots, 2 logins, 1 preview) so that each is hit |
| `Request` | who is served was verified; no byte lost; a rover's position; why a source is left without a row; every request ends | some 700 requests alone, that is every verb, dialect, target and way to show a password, a stored hash shown as the password among them, and 10 pairs, a rover, a source and three RTSP verbs next to a rover and a source of the same mount point or user; headers at and above the limit of 8 bytes, pieces of any size up to 5 for those that the cut matters to; 1 request to the pages, a DELETE or a PUT that changes password and owner, the owner alone or the name; 3 mount points, 3 users with a hashed, a plain and no password |
| `Accounts` | rows agree, who stays stale | 3 requests: one that has looked up an id, one that deletes the row, one that gets the id for a new row; 2 users, 2 mount points, 2 passwords; 1 rover. Names, passwords and requests are symmetric: no definition orders them |

A type invariant is stated in each module with state of its own and proved
(`TypesHold`, `PoolTypesHold`, `RequestTypes`, and as a part of `ServiceInvariant`), so that
the runs spend their time on the other properties; that of `Accounts`, which says what
a request carries from one call to the next, is part of its run as well.

Each property has a mutant of the code's definition that breaks it
(`PROJECT.json`, `mutants`), such as a removal that does not check the owner
(`RemovesUnchecked`), a sweep that takes open sockets (`SweepOneUnchecked`) or a commit
that does not look at the login again (`EnterCommitGuardUnchecked`).

What the runs show, beyond the table:

* `LiveSourceClosedOnlyBy` lists the causes for which a live source is cut off. One of
  them was a surprise of the model: see 7.
* `NoLeakedBuffer` holds *because* of the unconditional removal that finding 1
  complains about; a repair has to keep both.
* `UploadsReachClients` needed the condition that no pass over an older buffer is under
  way: the code's read index survives its buffer (see 7).
* `StaleRoverOnlyBy` names the only two ways a rover is served on an account that has
  changed: it was between its verification and its registration (or logged in) while the
  request was between the disconnect and the write, or a request wrote a row by an id
  that had become another user's.
* `CorrectionStoppedOnlyBy` lists who stops a running correction: a correction of the same
  mount point that starts or that has waited, the shutdown, and a web request that asks for
  real-time parsing of the very same mount point.
* `OrphanSourceHasReason` names the two ways a source feeds a mount point without a row: it
  was verified before and registered after the row went, or the row was renamed under it.
* `ActiveIsBounded` is `MaxConnections + QueueSize + 1`, not `MaxConnections`.
* `ShutdownEnds` excludes signals: with one, the main thread may wait for itself. No
  property watches that hazard. `OnlyRaisersStayUp` speaks of shutdowns that began after
  the start; of an earlier one `CleanedOnce` says only that it cleans up once.
* `OpenSocketIsRegistered` says nothing of a connection that is being closed or drained;
  how the count and the register come apart there is left to `CountDoesNotDrift`.

## 5 Fairness

* `SourceSession`: weak fairness of each handler's own steps and of a shutdown that has
  begun. The network's actions (data, time-outs, hang-ups) and the administration are
  not fair. A socket closed or hung up lets `recv` return (`ReceiveEnd`, a handler step).
  Weak is enough: no handler blocks on a lock held across actions.
* `Broadcast`: weak fairness of the broadcast thread, a daemon loop. Nothing of clients.
* `DownloadSession`: strong fairness of handlers, because they wait for `client_lock`,
  which others take again and again, and a Python lock does not starve a waiter for
  ever under the switching interval; weak fairness of removals in progress, of the
  holder of the lock, and of the shutdown.
* `CasterPool`: weak fairness of the three threads, of pool workers starting tasks when
  free and closing, and of a handler's return **once its socket is closed**; a handler on
  an open socket may stay for ever.
* `ParserThread`: strong fairness of threads and handlers, again for the lock. Only the
  run of finding 2 uses it, so that its counterexample is a blocked source and not one
  that merely stops.
* `Service`: weak fairness of the main thread, of the web and caster threads and of a
  shutdown call; signals and requests are not fair.
* `Request`: weak fairness of each handler's own steps; the time-out of a `recv` before the
  end of the header is one of them (`settimeout`, ntrip.py 179), what the peer sends and the
  pages' requests are not fair.
* `ParserManager`, `UserImport`, `Accounts`, `Decoder` and `SourceSession_v_stale` check
  safety only.

## 6 Proofs

`SourceSession_proofs` proves, for every set of sessions, addresses and chunks and every
finite set of mount points:

| Theorem | Statement |
|---|---|
| `TypesHold` | `Spec => []TypeOK` |
| `LiveSourcesOwnTheirMounts` | `Spec => []LiveSourceOwnsMount` |
| `NoMountIsLeaked` | `Spec => []NoLeakedMount` |
| `NoBufferIsLeaked` | `Spec => []NoLeakedBuffer` |
| `LiveSourcesAreClosedOnlyBy` | `Spec => LiveSourceClosedOnlyBy` |

The only assumption is `ConstantsAssumption`: `Mount` is finite (the size of the table is
compared), the two marks for "no entry" and "initialised" are different and no sessions,
`MountOf` is a function, the bounds are numbers.

The inductive invariant `IInv` adds two facts to the four invariants.
`SocketFollowsHandler`: a handler that has not begun or has returned has no open
socket; without it the invariant says nothing of a handler that would
start again on an open socket. `ShutdownGoesInOrder`: during the first phase of the
shutdown each socket is closed or on the list, and once the mount table's snapshot is
taken all are closed; without it `ShutdownEntry`, which removes entries without asking
for handlers, could take the entry of a live source. `LiveSourceOwnsMount` itself is
needed by the step of `Register` (the entry that is replaced is the live source's, whose
socket is closed in the same action), and by `RemoveMount`. One lemma per conjunct has a
step per action; `StepHolds` joins them. The action property follows from `IInv` and the
step alone (`ClosedByStep`).

`AccountsAndPool_proofs` proves of `Accounts`, for any names, passwords, requests, rovers and number of row
ids:

| Theorem | Statement |
|---|---|
| `TypesHold` | `Spec => []TypeOK` |
| `RowsAlwaysAgree` | `Spec => []RowsAgree` |
| `RoversAreStaleOnlyBy` | `Spec => []StaleRoverOnlyBy` |

from `AccountsAssumption`: `None` is no name, no id and no row, the bound is a number.
`TypeOK` says in `Carries` what a request holds at each step, since a row is written from
what was read some steps before. `RowsAgree` is inductive with the types: the two
looked-for-again names of `InsertUser` and `WriteUser` keep names unique, and `Unbind`
takes the mount points of the row that goes. `StaleRoverOnlyBy` is not:
`RoversAreCurrent` says it for verified rovers too, and that no request past the
disconnection of the rover's user has a write to come; `IsFresh` gives that a new row
is never the row of a rover whose row is still there.

`DownloadSession_proofs` proves, for any rovers, users and limits:

| Theorem | Statement |
|---|---|
| `TypesHold` | `Spec => []TypeOK`, in particular that a count stays a natural number |
| `CountsAreEntries` | `Spec => []CountIsEntries` |
| `UsersKeepTheirLimit` | `Spec => []UserWithinLimit` |
| `OvershootsAreBursts` | `Spec => []OvershootIsBurst` |
| `NothingIsLeftBehind` | `Spec => []NothingLeftBehind` |

`EntryStages` and `ClientStages` say at which steps a handler has an entry and a client;
`EvictorHasRoom` that a newcomer that evicts holds `client_lock` and has room by
then, without which the eviction in several steps would not keep the limit. The
registries start empty and grow by one, so that they are finite whatever `Session` is:
finiteness is part of the invariant and not assumed.

`AccountsAndPool_proofs` proves of `CasterPool`, for any connections and sizes:

| Theorem | Statement |
|---|---|
| `PoolTypesHold` | `PoolSpec => []PoolTypeOK` |
| `CountNeverDrifts` | `PoolSpec => []CountDoesNotDrift` |
| `OpenSocketsAreRegistered` | `PoolSpec => []OpenSocketIsRegistered` |
| `LimitIsExceededByQueueOnly` | `PoolSpec => []ActiveIsBounded` |

`ConnectionsAreHeldOnce` keeps a connection in one place between the listener and the
pool (two places would submit it twice), and `TransitIsBounded` adds to `ActiveIsBounded`
what the listener has let pass and the count does not show yet.

`ParserThread_proofs` proves, for any mount points, sizes and streams:

| Theorem | Statement |
|---|---|
| `TypesHold` | `Spec => []TypeOK` |
| `EndedThreadsAreUnsubscribed` | `Spec => []EndedIsUnsubscribed` |
| `DecoderIsParserThread` | `DecoderSpec => Spec` |
| `DecoderEndsUnsubscribed` | `DecoderSpec => []EndedIsUnsubscribed` |
| `ReadyParsersMissNothing` | `DecoderSpec => []ReadyMissesNothing` |
| `ReadyParsersDecodeAll` | `DecoderSpec => []ReadyDecodesAll` |
| `ResultsAreAsSent` | `StationSays /\ DecoderSpec => []ResultIsAsSent` |

`SubscribedIsAlive` extends the property to the steps before the subscription, and needs
`AcceptedHasNoThread`: a correction is started before anything is received. `Decoder`
refines `ParserThread`, with one step for one step, so that what is proved of the thread
holds with the decoder in it.

`ReadyMissesNothing` is not inductive: nothing in it says why a handler that was told
"ready" has sent nothing before the subscription. `DecoderIInv` adds, for each mount point,
`NothingSentBeforeStart` (while the handler waits the queue and the buffer are empty and
nothing is given), `ToldIsStartup` (`_complete_startup` has an effect once only, so that what
was told stays true), `ReadyHasSubscribed` (the start is announced behind the
subscription) and `QueueIsPipe`. With them the three steps that move the stream keep the
chain of intervals: `DeliverChunk` adds one at its end, `Fill` takes the first, `Parse` moves
the beginning of the buffer only (`ChainIsSentTo`, `ChainIsTaken`, `ChainIsRead`).

`DecoderAssumption` is what the last two assume of the constants: a stream is a finite
sequence of items, the length of a frame's payload is below `4 * 2 ^ ByteBits` (the header
tells it in ten bits, of which a byte of its own holds two), the preamble is none of
that byte's four values, and chunks are not empty. The preamble (0xd3 in the code) matters to
broken frames: a wrong CRC is modelled by the frame without its first byte, which must not
begin as a frame does. Everything else is free: the widths, the masks, what
the payloads are, junk, broken and empty frames, and where the stream is cut.

`ReadyDecodesAll` speaks of everything read so far, and a reader that has read a
part of a frame keeps no memory of what was before. So `ReaderIInv` says where it is:
`Keeps` (the chunks are parts of what was uploaded; what was decoded are the frames
that end before the buffer; and `HeldAt`, the reader in a loop that reads holds exactly the
tokens of the item it is in, `Begun`), `NothingReadBeforeStart` and `Describes` (the source is
as its items make it). `Keeps` is claimed while the handler has been told "ready" and the
thread is subscribed; `NothingMissed` from above is what makes the next chunk the
continuation of the last. A time-out loses the frame begun, but takes the thread out of the
loop that reads. The step that matters is `Parse`. `TokenStep` says, of one
item, that `NextToken` takes in the next token of a frame, drops a byte of clean junk and
drops an empty frame at its third byte, and that a frame is whole with its last token;
`TokenRead` puts that at its place in the stream; `ReadIsInStep` takes it through one call of
`next(reader)`, up to the message that ends it.

`ResultIsAsSent` must hold of every stream, out of step too, after a chunk was lost
before the subscription or a false header swallowed a frame; and it must not
depend on `ready`. So `ResultIInv` says less of the reader and more of the result: what the
reader holds begins with a preamble and is what it has read last (`ReadLast`); the chunks
follow upon each other once the thread has subscribed (`Listens`, also for one whose start
had failed or timed out for the handler); the ends of what was decoded grow
and are ends of frames that were sent (`InOrder`); and the result is `AsSent`. The lemma that
carries it is `DecodedIsSent`: a whole frame whose CRC is right, wherever the reader took its
beginning from, ends with the CRC token of a frame that was sent and is that frame from its
preamble to its end, since a CRC token is what it was computed from. `AsSentGrows` is the
step of `Process`: a frame that ends behind all others is the last of its kind, and is counted
once.

`StationSays` is a hypothesis and no assumption of the module, since the encoder is not part
of the program: what the station says in a frame is what `RTCMMessage` and the loop make
of its payload. It is the only thing the theorem asks of the layouts. For the streams of the
run TLC evaluates it when it starts (`StationIsUnderstood` in `MCDecoder`): there the payloads
are packed bit by bit by an encoder that knows nothing of the decoder.

What `read`, `FlattenSeq` and the recursive functions inside them make of streams of any
length would be induction over data, whose theorems the provers cannot use. Two things
replace it. Such a function is a `CHOOSE`, and `FlattenIsConcat` and `ReadIsSteps` show that
the function chosen is the one that goes on step by step, because one exists. And induction is
over sets of numbers: `AllUpTo` says that a set which has 0 and the successor of each of its
members up to a bound has everything up to it, by the least number that would be missing.

`ParserManager_proofs` proves, for any mount points, sessions and requests:

| Theorem | Statement |
|---|---|
| `TypesHold` | `Spec => []TypeOK` |
| `DictionariesAlwaysAgree` | `Spec => []DictionariesAgree` |
| `AtMostOneWebParser` | `Spec => []OneWebParser` |
| `EndedParsersHaveWaiters` | `Spec => []EndedParserHasWaiter` |
| `CorrectionsAreStoppedOnlyBy` | `Spec => CorrectionStoppedOnlyBy` |

The argument is one lemma for each operation of the manager, which takes a sound state
(`Sound`) to a sound state, since the operations are functions. `CorrectionsAreHome` (a
correction's parser is in its own mount point's slot until its waiting thread has
stopped it) is what the last two need: a web request that takes a parser out of a slot
has taken it from the mount point it asked for.

`BroadcastAndService_proofs` proves of `Broadcast`, for any clients, ring and number of buffers:

| Theorem | Statement |
|---|---|
| `TypesHold` | `Spec => []TypeOK` |
| `DeliversStreams` | `Spec => RefinesDelivery`, that is: the forwarder implements `StreamDelivery` |
| `NothingIsSkipped` | `Spec => NothingSkippedInRing` |

Initial states map to initial states, and each step publishes, welcomes, lets go of or
delivers to a client, or changes nothing that `StreamDelivery` knows
(`StepImplements`). Order needs `BuffersInOrder` (what a buffer holds was uploaded before
the next one was made), `OnlyActiveAreServed` and `SentIsBehindIndex` (what a client has
is at or behind its index); that nothing is skipped needs `IndexFollowsLast` (once a
client has something of the thread's buffer its index is just behind it).

`UserImport_proofs` proves, for any requests, logins, sockets, files and limits:

| Theorem | Statement |
|---|---|
| `TypesHold` | `Spec => []TypeOK` |
| `NothingOutlivesLogins` | `Spec => []NothingOutlivesItsLogin` |
| `ImportsArePreviews` | `Spec => []ImportIsItsPreview` |
| `CommitsAreStillWanted` | `Spec => CommitIsStillWanted` |

`NothingOutlivesItsLogin` is inductive with the types. For the imports, `PreviewsWereShown`
and `TokensAreUnique` follow a token from the request that made it to a login's preview
and on to one confirmation: all steps but those two leave it where it is (`StepStays`).
`CommitIsDue` and `LocksAreHeld` say what the two locks protect: from the last look at the
accounts to the commit `db_lock` is held, and from the last look at the login
`_admin_lock`.

`BroadcastAndService_proofs` proves of `Service`, for any number of signals and failures:

| Theorem | Statement |
|---|---|
| `ServiceInvariant` | `ServiceSpec => []ServiceIInv` |
| `CleansOnce` | `ServiceSpec => []CleanedOnce` |
| `StopsAllButRaisers` | `ServiceSpec => []OnlyRaisersStayUp` |

The frames on the main thread are a sequence of any length, as handlers interrupt handlers.
`OneCleaner` says that among them and the web request's call at most one is in the cleanup,
and that the claim is what says which; `CleanedOnce`, which counts, follows from it, for a
set of cleaners with at most one element. For `OnlyRaisersStayUp` each part has an
invariant of its own (`ListenerStopped`, `WebStopped`, `PushStopped`, `ForwarderStopped`,
`PoolStopped`): once a call is past the step that stops the part it is down unless that step
raised. They hold only for a start that was over when the claim was made, and that it
stays over is `StartStaysOver`; `StartsInOrder` is what the order of the start gives.

`Request_proofs` proves, for any handlers, clients, streams of bytes and cuts, any
database and any number of requests of the pages:

| Theorem | Statement |
|---|---|
| `RequestInvariant` | `Spec => []IInv` |
| `RequestTypes` | `Spec => []TypeOK` |
| `OnlyTheVerifiedAreServed` | `Spec => []ServedIsVerified` |
| `NoByteOfASourceIsLost` | `Spec => []TailIsKept` |
| `ARoverIsWhereItSaidLast` | `Spec => []PositionIsLastGga` |
| `OrphansHaveReason` | `Spec => []OrphanSourceHasReason` |

`RequestAssumption` asks for numbers where the code has numbers, for a sentence that
fits into the accumulator (rover_gga.py has both sizes as constants), and that the marks
are no values, and that edits are edits. `ConversationAssumption` says what a client's stream is: its head ends
where the first end of a header is, if it has one. `DatabaseAssumption` gives the
tables their domains.

The invariant has four parts of each handler. Who its client is (`RequestIsKnown`,
`KeyIsShown`, `RowsAgree`): from the first query on the key is one that was shown in the way
the protocol allows, and the rows that were read, at different moments, agree with it; and
only the word behind an entry verifies against it, hashed or not (`OnlyTheWordVerifies`).
That is what `ServedIsVerified` needs while the pages change the rows, since it speaks
of the rows at the time. Where its bytes are (`TailIsHeld`): what was stored and what is
left over make up the stream behind the header as far as it was read; the step that ends
the header needs that `Find` gives the first delimiter, of the stream and not of the piece.
What its accumulator has heard (`RoverIsHeard`): the position is that of the whole stream,
and the buffer is a suffix of the unfinished line that holds its last `$`. Why it is still
there (`OrphanHasReason`): a row only goes away under the eyes of `RemoveSource`, or to
another name, which puts its source into `moved` (`UpdateHasReason`).

The lemmas about `RoverGGA` are about sequences of any length. Where an argument goes over
their length it is by a least counterexample (`NatHasLeast`, from the well-foundedness of
the order of the numbers, whose theorem the provers can use as it takes no operator):
every set of numbers that is not empty has a least and, if it is bounded, a greatest
element, which is what `Max`, `Least` and `rfind` give.

The named assumptions are all that the theorems assume: marks such as `None` or
`Free` are no members of the sets they are used beside, functions have their domains,
bounds are numbers.

Only model-checked:

* All liveness: `ENABLED` and fairness are beyond the prover.
* `StationSays`, that is, that `RTCMMessage` and the loop make of the payloads of the plans
  what was encoded in them: it depends on the encoder, which is not part of the program, and
  on what the layouts make of a payload field by field.

## 7 Where the code disagrees

Two findings are kept as runs that must fail:

1. **A late cleanup drops its successor's buffer** (`SourceSession_v_stale`). connection.py
   319 says that an old handler's late or repeated cleanup must not remove the new
   socket after a fast reconnection. `_cleanup` keeps to that for the mount entry and then
   calls `remove_mount_buffer` by name (ntrip.py 1821). If the successor is between
   looking for the buffer and appending (forwarder.py 412-416) it gets a KeyError, which
   ends its receive loop.
2. **A parser that timed out once blocks its source** (`ParserThread_v_blocked`). After a
   pause of five seconds the buffered reader of the pair raises at each later read,
   `run` goes on (rtcm2.py 293-295), nothing drains the pair, and `subscriber.send`
   (forwarder.py 672) blocks the upload handler with `subscriber_lock` held; the
   documented promise is that receiving goes on when the correction fails (ntrip.py 1324).

Observed with the models, and worth knowing, but not contradicted by a definite statement
in the repository, or outside the runs kept:

* A zombie sweep that saw an initialised entry (socket `None`) removes whatever is
  registered when it acts, a new live source included (connection.py 242, the comment
  at 218-220); this is the last cause in `LiveSourceClosedOnlyBy`.
* Renaming a user hands the stored hash to `update_user` as its password (web.py 973-987,
  "keep the original password"); `verify_password` does not take a hash for the password it
  was made of, so the hash is hashed again (database.py 202-205) and the user cannot log in
  any more. `UpdateUser` does the same.
* A PUT of a mount point that names no user clears its owner: `update_mount` would keep it
  for `'keep_current'`, which no caller passes (database.py 330, web.py 1220-1225).
* Users and mount points are found by name and written by id in another call, and ids come
  back: a request may change or delete the row of another (web.py 973-987, 1206-1217,
  database.py 507-519).
* An account's rovers are disconnected before the change is written; one that is verified
  in between stays (web.py 971-987, 999-1000, 1016-1017).
* Digest authentication computes with the stored hash instead of the password and then
  gives that text to `verify_password` as if the client had sent it, which refuses it: no
  digest of a user with a hashed password opens anything that asks for the user, whatever it
  was made of (ntrip.py 933-953, database.py 24-35, 525).
* Uploaded packets are counted by mount name in two places (forwarder.py 421, ntrip.py
  1430).
* A DELETE of a mount point or a user between a session's verification and its
  registration leaves a session for a row that is gone (web.py 1015-1017, 1266-1268,
  ntrip.py 1232).
* A client's read index survives the buffer it belongs to; after a source reconnects the
  index may be ahead of the new buffer until that catches up, and a pass under way over
  the old buffer can write the old index back (forwarder.py 428-436, 454-455, 499).
* At a per-mount limit of 1, evicting the only client deletes the list the newcomer is
  about to join: KeyError, the newcomer is refused (forwarder.py 249-259, 361).
* `MAX_CONNECTIONS_PER_USER` is checked during authentication and counted later (ntrip.py
  912, 1360); concurrent requests can exceed it.
* `MAX_CONNECTIONS` overshoots by the queue and one in hand (ntrip.py 1916-1917), and a
  connection the listener queues after the shutdown drained the queue is closed only
  by the register (ntrip.py 2094-2103).
* Starting real-time parsing on a mount point stops its STR correction, one slot per mount
  point (rtcm2_manager.py 29, 169, 191); the correction's waiting thread stops by name
  whatever parser is there (connection.py 762, 798), and files its result with a newer
  session's entry (connection.py 785).
* A signal during the start is followed by the rest of the start: services come up after
  they were stopped (main.py 142, 150, 410). A restart request before `running` is set
  leaves the main loop running.
* Verification: a Digest client that follows RFC 2617 fails (the uri is compared without its
  slash, `qop` is ignored), the nonce is not checked (ntrip.py 969-1009); SOURCE without a
  password that is typed `ntrip0_8` ignores a later Authorization; POST and GET with an
  rtsp URL take the whole URL for the mount point's name; ADMIN always ends in 405.
* RTSP: PLAY is verified as an upload and then again as a download, and answered twice; RECORD
  loses the bytes behind its header; OPTIONS is answered as HTTP/1.1 (ntrip.py 1034-1199).
* A renamed mount point keeps its source online under the old name (web.py 1163-1245); this
  is the second reason in `OrphanSourceHasReason`.
* An MSM2 message with cells never decodes: its signal layout is a set and not a
  dictionary (rtcmtypes_get_msm.py, `MSM_SIG_2`). The counter of 1033's antenna serial
  (DF032) is reported as the serial. A strength of 0 in DF408 falls back to DF403 or DF405
  (rtcm2.py). `CARRIER_INFO` names 110x QZSS and 111x IRNSS where the decoder's tables say
  SBAS and QZSS.
* The decoder's reader takes a D3 byte or a false header for a frame and swallows what
  follows; over data without messages it looks at neither stop nor duration until a
  time-out; a deaf loop spins (rtcmreader.py 109-180, rtcm2.py 275-300).
* The message frequency divides counts that are never reset, where its docstring says ten
  seconds (rtcm2.py).
* A signal handler on the main thread can wait for the inner lock of `shutdown_event`, or for
  `shutdown_lock`, that the interrupted code below it holds (main.py 182, 375, 396, 411,
  447).

## 8 Not modelled

* Of the decoder: other message types than 1005, 1006, 1033 and MSM, nested and
  conditional groups, scaling, the socket wrapper (the caster hands over a file), a CRC that
  matches by chance. Of the parser: coordinates and place names, bit rate, frequencies.
* HTML, JSON, log text, the text of source tables and STR entries, the rovers' list of the
  page. A chunk, an item, a file is a unit in the modules that only hand it on.
* Time, other than as time-outs that may happen at any moment.
* Validation of names and lengths in the web API, the administrators' own passwords, the
  schema and its upgrades.
* Statistics, memory monitor and log output of `ServiceManager`; configuration (read
  once; its limits are constants here); logging; front end; health check; deployment.
* Everything about Python and the operating system other than: unlocked dictionary
  iteration raising when the size changes, `list`/`dict` copies being atomic, locks not
  being reentrant, `socket.close` ending a blocked `recv`, `queue.Queue` and
  `ThreadPoolExecutor` as used, signal handlers running between instructions of the
  main thread.

## 9 Running it

    tlc -workers 2 -config SourceSession.cfg MCSourceSession

and so on for the runs of `PROJECT.json`, and for the proofs

    for m in SourceSession AccountsAndPool ParserThread ParserManager DownloadSession \
             BroadcastAndService UserImport Request; do tlapm ${m}_proofs.tla; done

`PROJECT.json` lists the runs, the source lines of each definition (`map`), the hazards
of the code with the properties that watch them, and the theorems.
