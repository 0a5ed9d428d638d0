# A TLA+ verification of MDesk

MDesk is a remote desktop program in Rust, derived from RustDesk. A *host* registers with
rendezvous servers and lets *peers* see and control its screen. The specifications here model
the host: the registration with the rendezvous servers, the registry of connections, the
services that feed the connections, terminals and the frame rate; and, for file transfers, both
ends. Paths below are relative to the repository.

| Module | Models | Used by |
|---|---|---|
| `Service` | one service (`src/server/service.rs`) and the calls of `Server` on it | `MCService`, `ServiceProofs` |
| `Membership` | what a service promises to `Server`: one set of members | `Service` (refinement) |
| `ServiceProofs` | proofs about `Service` | |
| `VideoService` | the frame loop of one display (`src/server/video_service.rs`) | `MCVideoService`, `VideoServiceProofs` |
| `VideoServiceProofs` | proofs about `VideoService` | |
| `AuthedConns` | authorised connections and what hangs on them (`mod raii` of `src/server/connection.rs`) | `MCAuthedConns`, `AuthedConnsProofs` |
| `AuthedConnsProofs` | proofs about `AuthedConns` | |
| `Mediator` | the rounds of the rendezvous mediator and the option writers | `MCMediator`, `MediatorProofs` |
| `MediatorProofs` | proofs about `Mediator` | |
| `Registration` | the registration of id and key with several servers over UDP | `MCRegistration`, `RegistrationProofs` |
| `RegistrationProofs` | proofs about `Registration` | |
| `Transfer` | a file transfer between client and host with resume (`libs/hbb_common/src/fs.rs`, `src/client/io_loop.rs`, `src/server/connection.rs`, `src/ui_cm_interface.rs`) | `MCTransfer`, `TransferProofs` |
| `TransferProofs` | proofs about `Transfer`: its control, then its data | |
| `Terminal` | a terminal service that outlives connections (`src/server/terminal_service.rs`) | `MCTerminal`, `TerminalProofs` |
| `TerminalBuffer` | the output buffer of a terminal (`OutputBuffer`) | `MCTerminalBuffer`, `TerminalProofs` |
| `TerminalProofs` | proofs about `Terminal` and about `TerminalBuffer` | |
| `VideoQoS` | the frame rate shared by all viewers (`src/server/video_qos.rs`) | `MCVideoQoS`, `VideoQoSProofs` |
| `VideoQoSProofs` | proofs about `VideoQoS` | |

## 1. Inventory

### The host

**Service framework** (`src/server/service.rs`). *State*: `ServiceInner`: two maps of
subscribers, `subscribes` (served) and `new_subscribes` (waiting for a snapshot), an option map
and the flag `need_snapshot`; an `active` flag; one thread per service. *Operations*:
`on_subscribe`, `on_unsubscribe`, `is_subed`, `send*`, `snapshot` with `ServiceSwap` (whose
`Drop` merges the maps), `repeat`/`run`, `join`. *Interaction*: `Server` calls under its own write
lock; the thread takes only the service's lock. *Hard*: a snapshot takes the lock three times
(test, send, swap) and connections come and go in between; `is_subed` takes it twice.
*Correct if* a connection is in at most one map, leaves both when it is removed, holds the value
last published, and is admitted in the end.

**Server registry** (`src/server.rs`). *State*: the maps of connections and services.
*Operations*: `add_connection`, `remove_connection`, `subscribe`, `capture_displays`,
`set_video_service_opt`, `Drop` (joins all services). *Hard*: connections hold a `Weak` and may
outlive it. *Correct if* a connection it has removed receives nothing more.

**Video service** (`src/server/video_service.rs`). *State*: encoder, `VideoFrameController`
(`send_conn_ids`), the statics `FRAME_FETCHED_NOTIFIERS` and `DISPLAY_CONN_IDS`, the refresh option.
*Operations*: `run`, `handle_one_frame`, `try_wait_next`, `try_broadcast_display_changed`; connections
answer with `notify_video_frame_fetched*`. *Hard*: notifications carry no frame number; the frame
is sent before the waiting set is registered; a new viewer needs a key frame. *Correct if* a viewer
starts with a key frame, the thread never waits for ever, queues stay bounded, refreshes happen.

**Authorised connections, sessions, wake lock** (`mod raii`, `src/server/connection.rs`;
`src/server/display_service.rs`). *State*: `AUTHED_CONNS`, `SESSIONS`, the wake lock channel,
`WALLPAPER_REMOVER`, `CHANGED_RESOLUTIONS`, each with a mutex of its own. *Operations*:
`AuthedConnID::new` and `Drop`, `check_wake_lock`, `check_remove_session`, session insert and
expiry, `change_resolution`, `restore_resolutions`. *Hard*: counts are taken under one lock and acted
on under another. *Correct if* the last remote connection restores everything and a session
outlives the connections that do not own it.

**Connection loop** (`src/server/connection.rs`): login, permissions, message dispatch, close path.
Its frame forwarding, close path, resolution change, session handling, file actions, terminal
life cycle and test delay timer are in the modules above and below.
*Hard, not yet modelled*: permission switches against subscriptions, failure counting in login.

**Rendezvous mediator** (`src/rendezvous_mediator.rs`). *State*: `SHOULD_EXIT`, `MANUAL_RESTARTED`,
`SOLVING_PK_MISMATCH`, `RENDEZVOUS_REGISTERED`; in the configuration (`libs/hbb_common/src/config.rs`)
the id and the key flags. *Operations*: `start_all`, `start_udp`, `start_tcp`, `handle_resp`,
`register_peer`, `register_pk`, `handle_uuid_mismatch`, `restart`. *Interaction*: `src/ipc.rs` changes
options and restarts it (`CheckIfRestart`). *Hard*: flags that are read and cleared at different
moments; several servers that refuse ids at the same time; answers without an id over UDP. *Correct
if* a changed option reaches the running round, one ended task ends the round, and the host
ends up registered everywhere under one id.

**Terminal service** (`src/server/terminal_service.rs`). *State*: `TERMINAL_SERVICES` (by service
id), per service its terminals, `is_persistent`, `last_activity`; per terminal pty, child, reader and writer
thread, output buffer; `TERMINAL_TASKS` (children to reap). *Operations*: `get_or_create_service`,
`handle_action` (open, close, data, resize), `read_outputs`, `set_persistent`, `remove_service`,
`cleanup_inactive_services`, `OutputBuffer::append`. *Interaction*: each connection of a client has a
thread that polls all terminals of the service; one cleanup thread for all. *Hard*: services and terminals are
found by name under one lock and changed under another, after which the name may mean another
one. *Correct if* no shell runs that nothing owns, a persistent service survives its connections and a
temporary one does not, and the buffer stays whole and bounded.

**Video QoS** (`src/server/video_qos.rs`). *State*: `VIDEO_QOS`, one mutex: the frame rate, the bitrate ratio,
per user its delays, RTT estimate, counters and wishes. *Operations*: `on_connection_open`/`close`,
`user_network_delay`, `user_delay_response_elapsed`, `user_custom_fps`, `user_image_quality`, `update_display_data`.
*Hard*: every user's samples and every display recompute the one rate from everybody's data. *Correct if* the
rate is in range, a late answer holds it down, and it recovers.

**Hole punching and relay** (`src/rendezvous_mediator.rs`): the duplicate filter `LAST_MSG`,
`LAST_RELAY_MSG`; the rest is socket I/O. **Display list** (`src/server/display_service.rs`):
`SYNC_DISPLAYS` and its publisher. **Audio, clipboard, cursor, focus services**: services of the same framework.
**Portable service**: shared memory with an
elevated helper. **Privacy mode, virtual displays, platform layer, updater, plugins, printer,
whiteboard**: operating system state and I/O.

### The controlling side and the rest

**File transfer** (`libs/hbb_common/src/fs.rs`, driven by `src/client/io_loop.rs` at the client and by
`src/server/connection.rs` with the connection manager `src/ui_cm_interface.rs` at the host). *State*: read
and write jobs, `.download` and `.digest` files next to the destination, the jobs saved in the client's peer
configuration, the pending audits of the host. *Operations*: start, digest and confirmation, blocks,
finalisation, cancel, error, resume. *Hard*: the reader runs ahead of the writer; either end may leave; a later
session resumes what an earlier one left; the outcome is reported by both ends from different
knowledge. *Correct if* a stored file is whole, a partial file can be continued, and what is reported
completed is stored.

**Client session** (`src/client.rs`, `src/client/io_loop.rs`): connection establishment, reconnect; only
its file jobs are modelled. **HTTP API,
recording upload** (`src/hbbs_http`): chunked upload with resume. **User interfaces**, **codecs and
capture** (`libs/scrap`), **MDeskMini** (mostly vendored TigerVNC), **RustCLI**: not modelled.

`PROJECT.json` lists every component with its status and the hazards found in the code.

## 2. Plan

Done: the service framework with its abstract specification, the video service, the
authorised connections, the mediator, the registration, the file transfer, the terminal service
and the frame rate; every invariant the runs check is proved (section 6).

Next, in this order:

1. `Permissions`: `SwitchPermission` and option updates of one connection against the
   subscriptions of several services, composing `Service` (INSTANCE per service), with
   `capture_displays` and `add_service` of `Server`. Property: what a connection receives is what
   its permissions allow once the messages are handled.
2. A second video service with the same index (monitor and camera share the notifiers of
   `VideoService`): extension of `VideoService` by a second thread.
3. `PunchFilter`: `LAST_MSG` and `LAST_RELAY_MSG`, which are read under one lock and written under
   another; property: a relay request is answered once, or twice only for the known race.
4. `LoginFailures`: `check_failure`/`update_failure` of several connections from one address, with
   the 6-per-minute and 30-in-all bounds; abstract specification: one atomic counter.
5. Input and output channels of `Terminal`, the bitrate ratio of `VideoQoS`, `DisplaySync`, TCP registration
   with keep-alive, upload resume.

Proofs worth doing next: abstract specifications for `Terminal` (a service as the set of its shells) and `Transfer` (the
destination as a map from files to versions), with the invariants of section 6 as the means of the refinement; and the
step properties of `VideoQoS` that `RateRecovers` rests on (an answer in time of all users does not lower the rate).

## 3. The modules

### Service and Membership

One action is one acquisition of the service's lock together with the thread-private work around
it. `Server`'s write lock appears as `call` (at most one call in progress), because the thread does
not take it: `SubscribeCall`, `IsSubedSubscribes`, `IsSubedNewSubscribes`, `SubscribeApply` are
the pieces of `Server::subscribe`. `pc` is the thread: `loop` (the test of `active`), `subs`
(`has_subscribes`), `call` (the callback), `snap`, `send`, `drop` (the three acquisitions of a
snapshot), `exit`. The callback is `run_cursor` for a service that needs a snapshot and `run_pos`
for one that does not; `need_snapshot` is chosen in `Init`. `seen` and `late` are history variables.

`Membership` is the abstract specification: one set, changed only by `Server`'s calls. `Service`
implements it under `members <- subscribes \cup new_subscribes`.

### VideoService

The frame loop of one display, with the maps of `Service` (`need_snapshot = true`). `pc` follows
`run()` and `handle_one_frame`: `idle` (outside `run`), `top`, `frame`, `snap`/`check`/`drop_*` (snapshot
inside `handle_one_frame`), `encode`, `sent` (frame sent, `set_send` not yet called), `wait`, `done`. Every
exit from `run` drops `Raii` (`ExitRun`). `SwitchByEnvironment`, `SwitchByDisplayChange` and
`PrivacySwitchInWait` are the SWITCH errors whose cause is outside the thread. Connections in
`AckConns` are web clients, which acknowledge frames with `VideoReceived`; the others notify when they
take a frame from their channel. Encoders are external: the first frame of one is a key frame.
`notes` is the set of ids in the notifier channel; the thread collects ids in a set, so repetitions make no
difference.

### AuthedConns

One action is one acquisition of one mutex. The life of a connection is in `pc`: login, the three
steps of `check_wake_lock`, the session lookup, the wallpaper, changes of resolution, and the steps of
`Drop for AuthedConnID`. Counts are only compared with zero. Other than remote connections are all
one kind, because the code distinguishes only these two here. The session a connection found at its login is
`handle` (`session_last_recv_time`): `live`, or of a session that was forgotten for its age (`aged`), given up by a
remote connection of the peer (`given`) or removed by another one (`taken`). The login of anybody forgets sessions
without news for 30 s (`ExpireSessions`), whoever is authorised: a remote connection that is silent, or whose
sends block, is closed only at a later tick of its timer. The platform call that changes or restores a resolution may
fail, which the code logs; `restore_resolutions` clears the record all the same, and `unrestored` notes it.

### Mediator and Registration

`Mediator` has the loop of `start_all` (`phase`), a task per server, and the writers: IPC connections
(`CheckIfRestart` and the proxy setting) and the ConfigureUpdate branch of `handle_resp`, which runs inside
a server's task. `restart` is two stores and so two actions. `lost` records the two ways in which
a restart gets lost. `Registration` has what the tasks do with their servers: `register_peer`,
`register_pk` and `handle_resp` per server; `NewRound` stands for the end of a round of `Mediator`. The server
and the network are external: a server refuses an id that another machine holds, datagrams are
lost, late and reordered. Ids are numbered in the order in which they are generated.

### Transfer

Two ends, `client` and `host`, and a FIFO channel in each direction; `upload` says who reads. The reader
opens a file and sends its digest (`ReadOpen`), waits for the confirmation, sends blocks (`ReadBlock`) and at
the end Done or Error (`Finish`). The writer answers digests (`DownloadDigest`, `UploadDigest`; in an upload the
question goes back to the client, `UploadNeed`), writes blocks into `part`, and renames `part` to `dst` when
a block of another file or Done arrives (`TakeBlock`, `Done`). The user answers prompts
(`SetConfirmOverrideFile`). A block is its source version and its place, so that a mixture of versions or a
hole shows. `ClientClose`, `ClientCrash` and `HostClose` end a session at any point: what the end had sent may
still arrive, what was sent to it is lost. `Connect` begins the next, with the jobs the client
saved; `Edit` changes the source between sessions. Every step on the file systems can fail, each kind of fault
(`AnyFault`) once: the listing of the source at either end and at the restoring of a job (`SendFilesFault`, `HostStartFault`,
`ConnectFault`), opening and reading (`ReadOpenFault`, `ReadFault`), the look at an existing file
(`DigestFault`), the seek of a resumed job, which fails silently (`Positioned`), creating and writing
(`CreateFault`, `BlockFault`), and each step of the finalisation, at the next file or at Done (`FinalizeFault`,
`DoneFault`). `WriteFails` has what the two ends do about a failed write: a client gives the job up, a host keeps it. `pending` and `audit` are the host's audit of the job, `status` what the client
shows. `skips`, `omitted`, `passed`, `ignored` and `holed` are history variables and name the windows the properties
except.

### Terminal and TerminalBuffer

One service id. An action is a section under one lock; a service (`registered`, numbered by
creation) and a shell have identities, so that a thread or handler which found one by name and uses
it later may meet another. `call` is a handler between `get_service` and its section, `pc` the thread
of a connection (`start` before `run`, `top`, `poll`, `clean` between the two halves of `read_outputs`, `remove` between
the look at `is_persistent` and `remove_service`), `keeper` the cleanup thread between choice and removal. A
service nobody refers to any more takes its shells with it (`Dropped`). `Close` is the same step whether the child is
killed and reaped or the kill fails and the child is dropped (974-976): a shell whose kill failed counts as running
no longer, as its session and pty are gone. `late` records services that changed after
their removal was decided.

`TerminalBuffer` is `OutputBuffer::append` on lines reduced to length and newline; `total_size` has the width
`WordSize`, and `hung` is the trimming loop with nothing left to remove.

### VideoQoS

One action per method of `VideoQoS`, as each runs under its mutex, and `Ask`/`NetworkDelay`/`StillWaiting` for
the timer and the TestDelay answers of a connection. Delays are in milliseconds as in the code, the rates are divided by
five. The division of floats and its `ceil` are done in integers, which agrees for the values that occur.

## 4. Runs

| Run | Bounds | Shows |
|---|---|---|
| `service` | 3 connections, 2 values | `Disjoint`, `GoneIsGone`, `UpToDate`, and that `Service` implements `Membership`, at every interleaving of calls and thread; a waiting subscriber is admitted; `join` ends |
| `video` | 1 desktop and 1 web viewer, queue 2 | `KeyFrameFirst`, `BacklogBounded`, `WaitersRegistered`; the wait ends without anybody's help; a refresh is honoured |
| `authed` | 3 connections, 1 session key | restored when idle, wake lock exact, session kept, while platform calls fail and sessions grow old |
| `mediator` | 2 servers, 2 lists, 1 IPC writer | a stale round has been told to end, unless `lost`; one ends, all end; a stopped service stops |
| `registration` | 2 servers, 3 ids, 1 datagram per server, 2 rounds | a host that calls itself registered is held by a server, also when a server has forgotten a confirmed key; the host settles under one id with both |
| `transfer` | 2 files of 2 blocks, 2 versions, 3 troubles, 6 kinds of fault | stored files are whole and partial ones can be continued; COMPLETED means stored and, in a download, nothing skipped; a waiting reader will be answered |
| `transfer_leftover` | the same, 2 sessions, no faults | **violated**: done, with a file left as `.download` |
| `terminal` | 2 connections, 1 terminal, 2 services, 2 shells, 1 change of persistence | no orphan shell; a persistent service and its running shells survive; a temporary one goes |
| `terminal_buffer` | 6 bytes, 3 lines, reads of 3 bytes, 18 bytes in all | lines whole; what `total_size` is worth |
| `terminal_trim` | the same | **violated**: trimming does not end |
| `qos` | 2 users, 3 events, delays 20 and 250 ms, windows of 2 samples | a late answer holds the rate down; the rate recovers |
| `qos_rtt` | 1 user, delay 250 ms | **violated**: the RTT is not subtracted |

Bounds and why they are enough. *Connections*: the code treats all but the acting one alike; two
are needed for one to be served while the other waits, three for two to overlap while a third
leaves. *Values*: two, so that one can replace another. `MaxTries`: the slices of 300 ms that fit into a
wait, two of ten; only "not the last" and "the last" differ. `MaxQueue`: frames in a queue; two let
a frame queue up behind one that was given up (with three nothing new appears). The guard on `EncodeOk` keeps the queue in its bound; beyond it the real channel
grows without limit, one frame per wait that is given up, which is what `BacklogBounded` says. `Lists`: one
server in both lists and one in only one of them, so that a change starts or ends a task. `MaxId`:
server 1 refuses id 1 and server 2 id 2, so two refusals by different servers happen; `MaxFlight`: datagrams
in flight per server; with one per server an answer is already stale when the other server's refusal has changed the
id meanwhile. `MaxRounds`: one further round, so that confirmed
keys of an old one are met by a new one. The number of option writes and calls is not bounded.
`MaxTrouble` (transfer): sessions, faults and edits together; three allow a session that is cut off, an edit
or a fault, and the session that resumes. Two files make a next file to run ahead into, two blocks a
partial file. `MaxGens`, `MaxShells` (terminal): a service or a shell and the one that takes its
name. Terminal numbers are independent of each other but for the persistence of their service, so one is
enough. `MaxOutput` is three times the buffer, so that a completed line is trimmed while the error of
an earlier one is still in `total_size`. `MaxEvents` (qos) bounds connects, settings and late answers, the samples
are not bounded; `HistoryLen`, `MinSamples` and `WindowSamples` are shortened, as only the relation between the
two estimates matters.

Deadlock is checked for `Mediator` and `Registration`, which run for ever. In the other models
the connections end for good, or a bound is used up, and the system may stop.

Fairness. `Service` and `VideoService`: weak fairness of the thread, which is an operating
system thread nobody stops; in `Service` strong fairness of `Publish`, i.e. the query of the cursor does not fail
for ever while it is retried every second; in `VideoService` no connection has to do
anything. `Mediator`: the loop, ended tasks and begun writes are tokio tasks that are scheduled
(weak); the tick of a task is one ready branch of a `select!`, which picks at random, so it is taken if it is
ready again and again (strong). `Registration`: the same for tick and socket; of the network,
that a kind of request sent again and again is answered again and again, and that an answer is not overtaken for
ever by answers of the other kind. `Terminal`: the threads of the connections and the cleanup thread run, a handler
that was begun returns, and an hour without activity passes. `VideoQoS`: the timers run; and a TestDelay does not
stay outstanding for ever, because a connection that is silent for 30 s is closed with "Timeout"
(`connection.rs:1269`) and leaves. `Transfer` states no liveness: what it needs is said as an invariant
(`ConfirmationComing`). Failures, refreshes and option
writes have no fairness.

## 5. Findings

* `transfer_leftover` (`src/client/io_loop.rs:1448`): for an upload the client saves the number of the file
  its reader is at, which is ahead of the host's writer. After a loss of the session the resumed job starts
  there; the file before it stays a `.download` at the host, is not sent again, and the job is reported
  done.
* `terminal_trim` (`src/server/terminal_service.rs:379`): the bytes that complete a line are not added to `total_size`
  but are subtracted with the line. `SizeDrift` says how large the error is: it only grows. When it
  exceeds what is in the buffer the subtraction wraps (release) or panics (debug), and the wrapped
  loop never ends, with the terminal locked.
* `qos_rtt` (`src/server/video_qos.rs:74`): an average equal to the RTT is not reduced by it, so a link of constant
  delay is treated as congested by its full delay.

Windows that the passing properties except or leave room for, each recorded by a history variable or
stated in the property:

* `is_subed` (`service.rs:102`) takes the lock once per map; a swap in between makes an unsubscribe
  return without effect. The next unsubscribe, or the close, repairs it.
* A notification of an earlier, timed-out frame ends the wait for the current one (`video_service.rs:899`); the
  backlog stays bounded (`BacklogBounded`).
* The last remote connection counts zero and restores while a new one registers; the record it makes
  is cleared (`connection.rs:8198`). And a restoration whose platform call fails is logged, and its record cleared
  (`display_service.rs:140-151`): the display stays changed. `RestoredWhenIdle` shows that there is no third way.
* The login of anybody forgets the session of a remote connection that was silent for 30 s, although it is still
  authorised (`connection.rs:3612`): its retry has to authenticate anew. `SessionKept` excepts these and shows
  that no close of another connection of the peer takes the session away.
* Two connections that overlap between registry and wake lock channel may leave the wake lock wrong until the next
  login or close (`connection.rs:8082-8094`); `WakeLockExact` excepts the overlap.
* A restart requested between the reading of the options and the clearing of `SHOULD_EXIT` is forgotten
  (`rendezvous_mediator.rs:120`); `AppliedUnlessLost` shows that this, and two writers that undo each other's change,
  are the only ways.
* A service that becomes persistent, or gets a terminal, after its removal was decided is removed
  (`late` in `PersistentSurvives`). A thread of a connection that saw a terminal end drops the terminal of that
  number with the `is_persistent` it read at the top of its round (`terminal_service.rs:648-651`, `1086-1092`): if the
  service became persistent and the client reopened the terminal meanwhile, the new shell goes.
  `PersistentSurvives` names both and shows that there is nothing else.
* A write job at another file ignores a resume offset, and a failed seek leaves either job where it was, without
  telling the other end (`fs.rs:2236-2259`; `ignored` in `StoredIntact`); a host that fails to write, to create or to
  finalize a file keeps the job without the block (`holed`).
* A file the user skips in an upload is reported COMPLETED by the host, which is not told
  (`SkippedNotCompleted` is about downloads).
* After a failed read, after a digest that the writer could not compare (`io_loop.rs:2120`), or after a failed write or
  finalisation at the client of a session without audit, a read job waits for ever (`ConfirmationComing`).

## 6. Proofs

`ServiceProofs` proves, for every set of connections and of values (assuming only that the values
differ from the two markers, `ValuesAssumption`), that `Spec` implies `[]TypeOK`, `[]Disjoint`,
`[]GoneIsGone`, `[]UpToDate`, and `Membership` under the mapping above (`Refinement`).

None of the invariants is inductive alone. `IInv` adds: `WaitOnlyForSnapshot` (without a snapshot nobody
waits, needed for `Disjoint` when `on_subscribe` adds to `subscribes`), `CallerOpen` (a call
in progress belongs to an open connection and keeps `Server` alive, needed for `GoneIsGone`, because
`SubscribeApply` no longer looks at the connection), `NothingOutside` (a connection outside the maps has
been sent nothing in its subscription, so that one which enters late holds nothing) and `SnapshotSent` (between
send and swap a waiting subscriber holds the value or is late; the swap turns it into `UpToDate`). The lemmas
`SubscribeKeeps` and `UnsubscribeKeeps` say what the two map operations preserve; `NextInv` has a step per
action; `StepRefines` shows that each action is a step of `Membership` or leaves the set of members alone, and needs
`Disjoint` for the unsubscribe and `CallerOpen` for `SubscribeApply`.

`MediatorProofs` proves, for every set of servers, of server lists (not empty, within the servers) and of IPC
writers, that `Spec` implies `[]TypeOK` and `[]AppliedUnlessLost`. The inductive invariant adds `TasksInRound` (no
task outside spawn and join, so that reading a new list leaves no task without a server) and extends
`AppliedUnlessLost` back to the moment "stop-service" has been read (`RoundApplied`): the store that clears
`SHOULD_EXIT` needs to know that a stale round with the flag down has a writer pending. The argument has
a lemma for each kind of actor: the loop, a task, a writer.

`AuthedConnsProofs` proves `[]TypeOK`, `[]SessionKept`, `[]RestoredWhenIdle` and `[]WakeLockExact` for every set of
connections and of session keys. `Registered` ties the registry to the program counters: `AUTHED_CONNS` holds
exactly the connections between `AuthedConnID::new` and its drop, and only they have a handle on a session;
`LiveSession` says of all of them, remote or not, that a handle which is live is of a session in `SESSIONS`, so that `SessionKept` has to
exclude one thing only: a close that takes it. `RestoredWhenIdle` speaks of the end of a restoration and
needs what holds on the way: whoever restores does so alone (`RestoreAlone`), the record is there before the display
changes and, until a restoration has failed, is of what was before and goes after the display is back (`RecordSound`), and what is to be restored has somebody who will do it
(`Responsible`). `WakeLockExact` needs that without an overlap one connection at a time is between registry
and channel (`OneBusy`), that its count is still right (`CountFresh`), and that the last word in the channel, or
the lock when the channel is empty, is what the registry says (`LastWordTrue`).

`VideoServiceProofs` proves `[]TypeOK`, `[]KeyFrameFirst`, `[]WaitersRegistered` and `[]BacklogBounded` for every finite
set of viewers, every length of the wait and every queue bound (`ConnsAssumption`, `BoundsAssumption`). `KeyedOrTurnover` says
of every subscriber of a running encoder that it has the key frame or replaced viewers that had all left;
`NobodyAwaited` where the waiting set is empty. The core of `BacklogBounded` is an accounting (`Accounted`): the frames in
a queue, plus one for a notification that is still in the channel and may be taken for that of a later frame, are
at most the waits given up, plus one if the thread still waits for this viewer. The lemma `CountsDecide` turns the
code's comparison of two cardinalities into the inclusion the accounting needs.

`RegistrationProofs` proves `[]TypeOK` and `[]RegisteredSound` for every set of servers, whatever ids they refuse (an id
exists, `BoundAssumption`, and one is free, `TakenAssumption`) and however many datagrams are under way. The strengthening
is `NewsTrue`: an answer in flight that reports a registration, or a task that has read one, means that the server holds
this machine. `Finite` lets the guard on the datagrams in flight be reasoned about.

`TerminalProofs` proves `[]TypeOK`, `[]NoOrphanShell` and the action property `PersistentSurvives` for any connections, terminals,
services and shells. `NoOrphanShell` is nearly inductive: `CleansSomething` says that a thread between the two halves of
`read_outputs` does hold a service. The work is in the lemmas: what `Stop`, `Without` and the drop of the last
reference do to the shells (`StopFacts`, `WithoutFacts`, `HolderFacts`, `RemoveFacts`). `DecidedLate` carries the first half of
`PersistentSurvives`: a persistent service with shells whose removal is decided is already in `late`. The second half, about the running
shells, needs that a shell is in one terminal of one service (`Apart`): what a step stops in another service or terminal is another
shell (`ShellLost`).

`TransferProofs` proves `[]ConfirmationComing` and `[]SkippedNotCompleted` for any number of files, blocks, sessions and versions
(`TransferAssumption`). Both are about which messages may be under way together, so channels are reasoned about only by
the types they hold (`Has`, `Single`, `About`), with one lemma for sending (`SentFacts`) and one for receiving
(`TookFacts`). The invariant says: the host is asked to start once and before anything else (`StartFirst`); the reader has one
question out at a time, as a digest, an answer or a prompt, and it is about the file it waits with (`OneQuestion`); while
the reader works its partner is there, or the news that it is not is under way (`PartnerThere`); so a reader that waits
has its question somewhere (`QuestionOut`). For the skipped file: a skip is known to the reader or on its way while
the job runs (`SkipKnown`), and a reader that finishes has no file open, hence no answer under way, hence has noted it.
The invariant names the fields of the jobs but leaves their contents open.

Its second part proves `[]TypeOK`, `[]StoredIntact` and the action property `CompletedIsStored` for the same constants, from
the control above and an invariant of the data (`DInv`). Its idea is that the writer is ready for what comes: for the first
message on its way (`HeadReady`), for each after the one before it (`InOrder`: blocks are in order and end with the empty
block, a digest or Done comes between files, nothing but a cancel comes behind a digest), for what the reader does next when
nothing is on its way (`ReaderReady`, `TailReady`), and for the answer of the user (`Prompts`). *Ready* for block `k` of file
`n` means: its version is the one the digest named, the files before `n` are stored or excepted, save one the writer has
open and complete (`Behind`, `Full`), or the host of an upload has noted an outcome already, since it could not finalize one
(`Settled`), and the writer is at `k - 1`, or will open `n` afresh (`Ready`). What a message says of the
source is true because the source is edited between sessions only (`ToWriter`); the exceptions only grow and what is kept stays
kept while a session lasts (`Lasting`, `KeptGrows`); an answer on its way is one the
writer is ready to act on (`ToReader`). Of a file in `ignored` or `holed` (`Spoiled`, `Ok`) nothing is claimed
but its place. The open file holds the blocks before the writer's position, of the version its
digest names (`PartSound`), so the rename at the next file or at Done makes a whole one (`Finalized`); a finalisation that stops half way leaves a file that is whole or a
partial one without a digest (`Trimmed`, `NotFinalized`); a job that is resumed starts behind files that are kept (`SavedKept`). COMPLETED is noted by two actions only (`AuditedBy`): by Done at the
host of an upload, which finalizes the last file, and at the host of a download by the writer's acknowledgement,
which says that all files are kept.

`TerminalProofs` also proves `[]BufferTypeOK`, `[]LinesWhole` and `[]SizeDrift` of `TerminalBuffer`, for any sizes and any output
such that a read fits into the buffer and `usize` counts all output (`BufferAssumption`); the module extends both
specifications, which share no name. What the bytes of a sequence of lines are is a recursive function, and induction is
done by hand: of the numbers at which a claim fails there is a least one (`LeastNat`), the claim holds before it, so it holds
there. That gives one sum per sequence (`SumsUnique`), the sums of concatenations and parts (`BytesConcat`, `BytesSplit`) and
what extending a line adds (`ExtendKeeps`). The invariant adds `Counted` (no more is in the buffer, or uncounted, than was
written), which keeps differences within one word, so that `%` undoes a single wrap (`Wraps`). The point of `LinesWhole` is that
trimming never takes the line the flag is about: `TrimKeeps` says that an empty rest means nothing was ever
uncounted and the last line alone exceeds the buffer, or the loop hangs. The last line is at most one read, which fits,
unless it was completed just now, and then its end is uncounted (`TrimmedKeeps`).

`VideoQoSProofs` proves `[]TypeOK` and `[]LateHoldsRate` for any users, delays, rates and sizes of the windows
(`QoSAssumption`: `MIN_FPS` is positive and below `INIT_FPS`, and so on; the rates per quality are numbers), in
the integer arithmetic of the model. `QInv` names the parts of the state: the data of every user within their types and the
window within its size (`DataKept`), no user twice among those that set a quality (`AskedKept`), the rest (`SetsKept`), and the
rate in its range and held (`RateKept`). The average of the samples is a number because the recursive sum exists (`SumsExist`,
again by a least counterexample) and the window is not empty when it is divided by (`AddDelayKeeps`, `AvgDelayNat`). The core is
`AdjustFpsBetween`: `adjust_fps` stays between `MIN_FPS` and `MAX_FPS`, and at `MIN_FPS + 1` or less when any user's answer is late,
whatever the rates the other users ask for. Every step then either adjusts the rate after its changes (`AdjustedRate`) or
leaves it and makes nobody late (`SameRate`).

Each inductive invariant was checked by TLC on the constants of the component's run before it was proved.

Only model-checked:

* all liveness properties (`Admission`, `JoinEnds`, `WaitEnds`, `RefreshHonoured`, `OneExitsAllExit`, `StopHonoured`, `Settles`,
  `TemporaryGoes`, `RateRecovers`): fairness is outside the prover's reach;
* the three violated properties, of which TLC shows the counterexample.

## 7. Abstractions and what is left out

* Real time: a timeout may happen whenever its guard allows; a wait is counted in slices.
* Payloads: cursors, frames and options are members of small sets; encoding, encryption and capture
  are left out.
* `AuthedConns`: the retry of a session is only its presence in `SESSIONS`; passwords and 2FA are left
  out. Time is abstracted: any session may be older than `SESSION_TIMEOUT` when somebody logs in. Virtual displays, of which
  `change_resolution` makes no record, are left out.
* `Mediator`: the guard `installing_service()` (`rendezvous_mediator.rs:116`) is left out, and `set_option` and `set_serial` of a
  ConfigureUpdate (354-358) are one step.
* `VideoService`: one display. `try_wait_next` reads and `take_refresh_option` tests and clears in one step
  each.
* `Registration`: TCP registration, latency bookkeeping and rebinding of sockets are left out.
* `Transfer`: one job per session; both ends are recent enough for overwrite detection and resume. The
  connection of the host and its connection manager are one end. Printer and direct download jobs, directories and removal
  are left out, and so are a file list the host rejects (`ui_cm_interface.rs:1110`) and a metadata call that fails on a file just
  opened (`get_current_digest`). Removal of the digest, rename and the change of time are one step when they succeed; the one that
  fails ends it. Removing or writing a `.digest` file always succeeds.
* `Terminal`: input, output, `is_opened`, resize and the list of sessions to restore are left out; one service id,
  so `MAX_SERVICES` is a choice. As input is left out, so is a `stop` that blocks on a full input channel:
  `TemporaryGoes` takes for granted that it returns. `Poll` is one step for the several sections of `read_outputs`, which
  skips a terminal whose lock is taken (`try_lock`) until the next round. A thread about to remove the service by its name is
  no longer counted as holding it (`Holders`), although its reference lives a little longer.
* `VideoQoS`: the bitrate ratio (a product of floats), displays and recording are left out; two users that set a
  quality in the same millisecond are ordered.
* Components listed as `not_modelled` in `PROJECT.json`, with the reason for each.
