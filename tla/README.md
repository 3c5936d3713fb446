# Verification of dockerfile-set

dockerfile-set is a collection of container images. Two of them carry programs of
its own: **tgstate-rust**, a file store that keeps its files in a Telegram channel,
and **sub-hub**, a service that hands out proxy subscriptions. Two more carry long
shell programs (**autobackup**, **warp-socks5**). The rest starts software of others.

This directory models the parts of those programs in which several actors meet, with
TLC configurations that check them on small instances and TLAPS proofs for every
instance. Every action names the function it stands for; `PROJECT.json` ties each
definition to its lines.

## 1. Inventory

### tgstate-rust (Rust, tokio, several worker threads; SQLite through an r2d2 pool)

| component | state | operations | what makes it correct |
|---|---|---|---|
| bot life cycle (`state.rs`, `telegram/bot_polling.rs`, `main.rs`) | `bot_state` (settings snapshot, flags, sender of the task in charge) under a mutex; `settings_lock`; one oneshot channel and one tokio task per start | `start_bot`, `stop_bot`, `apply_runtime_settings` soft and hard, the polling loop and its epilogue, Ctrl-C | no task that cannot be stopped; the flag tells the truth; the snapshot ends up equal to the row; every stopped task and every request ends |
| settings and sessions (`api_settings.rs`, `api_auth.rs`, `config.rs`, `auth.rs`, `middleware/auth.rs`) | the single row of `app_settings`; environment; cookies | save, save and apply, reset, export, import, login, logout, set password | a request changes only the columns it is about; the session in force belongs to the password in force; who is signed in stays so |
| files, folders, visibility (`database.rs`, `api_files.rs`) | tables `files`, `folder_settings`; messages in the channel | upload, move, rename, delete, batch delete, folder rename, folder settings | a row at rest has its message; what is put into a private folder is private; no row is lost |
| WebDAV (`api_webdav.rs`) | the same tables | PUT, DELETE, MOVE, MKCOL, PROPFIND | the method acts on the file it names; a failed method loses nothing |
| chunked upload (`api_upload.rs`, `telegram/service.rs`) | a directory per upload, parts and manifest in the channel | form, WebDAV body, chunk session (init, chunk, complete), download, deletion | a completed upload is the announced file; a failed one can be retried |
| bot updates (`bot_polling.rs`) | `files`, the update offset | new file, deletion notice, the drop of waiting updates at a start | a post that the bot is told of, and does not pass over, has a row; told twice, it has one |
| event bus (`events.rs`, `api_sse.rs`) | a broadcast channel of 200 | publish, subscribe | a client knows when it has missed something |
| rate limiter (`rate_limit.rs`) | a map of clients and windows | check, eviction, cleaner | a bound on the attempts in any interval; nobody is kept out for long |

The components meet in the database (no lock spans two statements), in `bot_state`, in
`settings_lock` and in the channel, which is not transactional.

### sub-hub (Go; SQLite with **one** connection)

| component | state | operations | what makes it correct |
|---|---|---|---|
| tokens, collections, nodes (`db_*.go`, `api.go`) | four tables, three association tables with cascades | create, update, delete, rotate; each several statements | no dangling association; a master token remains; an update changes only what it names |
| subscriptions (`server.go`, `auth.go`, `subscription.go`) | `use_count`, `access_logs`, an external converter | authenticate, resolve, read, charge, convert, log | the limit holds; nothing is delivered for a token in bad standing or outside its collections; the log is bounded |
| backup and restore (`db_misc.go`) | all tables | backup (five reads), restore (one transaction) | a restored backup is the backed-up state |
| public conversion (`public_convert.go`) | a map of challenges, a map of payloads | issue, verify, store, clean up | a challenge is used once, in its five minutes |
| node import, times (`node_import.go`, `util.go`) | none | parsing; RFC3339Nano texts | the order of the texts is that of the times |
| legacy service (`go/`) | `db.json` | whole-file save | a crash loses nothing |

### Scripts

`autobackup` archives, uploads and rotates under `set -e`; `warp-socks5` starts a
tunnel and a watchdog that restarts it. Their hazards are the exit status of a
counted error, the order of rotation and upload, and processes that two shells
wait for. The start scripts of OpenList, Alist, the image bed and nanobot write
configuration files one after the other and are left out, as are front ends,
templates and images without code.

### What is hard here

* tgstate: handlers interleave between any two awaits and database calls; a client
  that disconnects drops its handler at an await; the polling task ends long after it
  was told to, and then writes state that may be its successor's.
* sub-hub: every statement is atomic and no request is; checks and writes are
  statements apart; the request's context may be cancelled, and the process die,
  between any two; the converter calls back into the service.

`PROJECT.json` lists the hazards at their lines, each with the properties that would
catch it, or with the reason why none does.

## 2. Plan

In the order of what a failure costs, and of what later modules build on:

| | modules | composition | state |
|---|---|---|---|
| 1 | **BotLifecycle**, abstract **BotSupervisor** | | checked, proved |
| 2 | **SubHubStore**, **SubHubSubscription**, abstract **UsageQuota** | subscriptions on the store | checked, proved |
| 3 | **FileStore**, **WebDav** | WebDAV and the file API on the same tables | checked, proved |
| 4 | **Upload** | | checked, proved |
| 5 | **RateLimit**, **Settings**, **Web** | limiter, session check and handler on the way of one request | checked, proved |

Every invariant and every action property that a run checks is a theorem; what remains
to TLC alone is liveness (section 8). The proofs are in seven modules, one or two beside
each row of the table: `BotLifecycle_proofs`, `SubHub_proofs` and `SubHubSafety_proofs`,
`WebDav_proofs`, `Upload_proofs`, `RateLimit_proofs` and `Web_proofs`. The next
candidates for modules are backup and restore on SubHubStore and the public challenge of
sub-hub.

Twelve runs ask what the project asks of the system:

| run | module | properties | states (about) |
|---|---|---|---|
| `bot_safety` | BotLifecycle | `TypeOK` `SettingsExclusive` `NoOrphanPoller` `RunningIsTruthful` `StartNeverRefused` `SupervisorSpec` | 0.8 M |
| `bot_live` | BotLifecycle | `SnapshotFresh` `OnlyHardApplyStops` `RequestsEnd` `StoppedPollersEnd` | 130 k |
| `bot_restart` | BotLifecycle | `RestartedWhenReady`, violated | |
| `subhub_requests` | SubHubSubscription | `TypeOK` `QuotaKept` `LogBounded` `QuotaSpec` | 2.7 M |
| `subhub_store` | SubHubStore | `ForeignKeys` `LastMasterNeedsARace` `RestartRevives` `LimitKeptUnlessCrossed` `ConfinementKept` | 6.1 M |
| `subhub_confined` | SubHubSubscription | `ChildConfined`, violated | |
| `files` | WebDav | `TypeOK` `StoreMatchesChannel` `VisibilityIsAskedFor` `MovedOnlyOnRequest` `RemovedUnderItsName` `FolderForgottenOnlyWhenEmptied` | 2.5 M |
| `files_move` | WebDav | `MoveKeepsSource`, violated | |
| `upload` | Upload | `TypeOK` `RecordedWhole` `FormNeedsKey` `DownloadWhole` `NoSilentOrphan` `SessionKeptUntilRecorded` | 1.0 M |
| `upload_limit` | Upload | `LimitRefuses`, violated | |
| `web` | Web | `TypeOK` `SessionOfPassword` `LoginSignsIn` `AttemptsBounded` `RefusalDeserved` `ColumnsKept` `UploadsStayClosed` | 1.9 M |
| `web_apply` | Web | `ApplyStaysSignedIn`, violated | |

## 3. BotLifecycle

### Correspondence

| model | code |
|---|---|
| `bot` | `BotState` in `state.rs`; its critical sections contain no await and are single steps |
| `settings_lock` | `AppState::settings_lock`; held across awaits, hence a variable |
| `chan[p]` | the oneshot channel made by the `p`-th `start_bot`: open, sent, or dropped |
| `poller[p]` | where the spawned task is in `bot_polling.rs` and in the epilogue of `start_bot` |
| `req[r]`, `kind[r]`, `conf[r]` | a settings handler, which one, and the settings in its local variable |
| `db` | the bot's columns of `app_settings`, as one value |
| `Boot`, `CtrlC`, `ShutdownStop`, `Exit` | `main.rs` |
| `DropPendingUpdates` ... `GiveUp`, `Epilogue` | the task |
| `ReadExisting`, `WriteSettings`, `WriteFails` | the handler before `apply_runtime_settings` |
| `AcquireSettings` ... `HardStart` | `apply_runtime_settings`, split where `bot_state` is unlocked |
| `Disconnect` | the handler's future is dropped at an await, with its guards |

The configuration is a member of a small set: what matters is whether it is *ready*
(has token and channel) and whether two configurations are equal. `EnvConfig` is what
`get_app_settings` yields when the database fails.

### Runs

| run | instance | question |
|---|---|---|
| `bot_safety` | 2 requests of any kind, 3 tasks, 3 configurations, failing database, disconnecting clients | mutual exclusion, reachability of every task, truth of the status, the start that is never refused, refinement of BotSupervisor |
| `bot_live` | 2 requests (`apply`, `session`), one of which may be dropped, 3 tasks, a database that answers, fairness | requests end and so does each task that lost its sender; snapshot and row agree at the end; only a hard apply or Ctrl-C stops a healthy bot |
| `bot_restart` (violation) | 1 hard apply, 2 tasks | the bot that was restarted is running |

**Bounds.** `Pollers` bounds the number of starts and `Requests` the load, each request
being used once. Two requests are enough for every conflict about the lock, which a
third would only repeat; three tasks allow both requests to restart the bot that
`main` started, so that an epilogue can meet a successor and its successor, and no
start is ever kept from happening by the bound. Symmetry is used in the safety run only.
Deadlock is not an error in these runs: the process exits and the load ends.

**Fairness.** Weak fairness of `Boot`, `ShutdownStop`, of each task and each request:
the executor polls what is ready, `getUpdates` has a timeout and the sleeps are finite.
Strong fairness of `ObserveShutdown(p)`: `tokio::select!` picks at random among its
ready branches, so a loop that keeps arriving there takes the branch of the resolved
receiver at some point. Strong fairness of `AcquireSettings(r)`: tokio's mutex is fair
(FIFO). None for clients, for Ctrl-C or for `Exit`.

### What it shows

The lock and the channels do what they should: a task that nobody can stop does not
exist, whatever the epilogues do, because an epilogue that clobbers its successor's
sender thereby *stops* the successor. That is the finding of `bot_restart`:
the old task, told to stop, ends after `start_bot` has put the next sender into
`bot_state`; its epilogue (`state.rs:98-104`) clears `bot_running` and drops that
sender; the new task sees its receiver resolved and ends without an error. "Stop the
bot, swap config, and restart if ready" leaves a configured bot stopped.

### Proofs (`BotLifecycle_proofs`)

For every set of tasks, requests and configurations, from the three named assumptions:

* `TypeCorrect`: `TypeOK` is inductive.
* `SettingsAreExclusive`: with `TypeOK`, inductive by itself.
* `NoPollerIsOrphaned`, `StatusIsTruthful`, `StartIsNeverRefused` follow from one
  invariant, `LifecycleInv`. None of the three is inductive: they need that a channel is
  open exactly while `bot_state` holds its sender, that the task of an open channel
  has not ended, that `bot_running` says so, and that between the swap and the start
  the lock holder finds the sender gone and the snapshot ready.
* `SnapshotIsFresh`: the row can be newer than the snapshot only while a request that
  will still apply it is on its way; the invariant says which.
* `SoftRefreshSparesTheBot` (`OnlyHardApplyStops`): by `SoftInv`, only a hard apply
  reaches the steps from stop to start (`PathInv`) and a task is born with its channel
  (`BornInv`); and as long as no hard apply has arrived and Ctrl-C was not pressed, a
  task whose sender is gone has ended by itself and left the error behind
  (`EndedByItself`), so that no epilogue can meet a successor.
* `ImplementsSupervisor`: each step starts, relieves or ends a task of BotSupervisor,
  or stutters.

## 4. SubHubStore and SubHubSubscription

### Correspondence

One connection makes a statement (or a transaction) one step; a handler is a process
whose program counter names its next statement.

| model | code |
|---|---|
| `row[x]` | the row of a master, child, collection or node and its `enabled` column: unborn, on, off, gone |
| `links[x]` | `master_collections`, `child_collections`, `collection_nodes` |
| `secret[t]` | the hash of the token, as the number of rotations |
| `max_uses`, `expires_at`, `use_count` | the columns of `child_tokens` |
| `adm[a]` | a request of `api.go`: its fields (a field the JSON omits is `Unset`) and what it has read |
| `Insert`, `ReadRow`, `ReadLinks`, `Update`, `SetLinks` | create and update, in the order of their statements |
| `CountTokens`, `Delete`, `Cascade` | `DeleteToken` and the other deletes, with `ON DELETE CASCADE` |
| `Boot`, `Seed`, `Crash` | `OpenDB`; the process dies between two statements |
| `sub[s]` | a request of `/sub` or `/s/`, with the principal it has built |
| `Authenticate` ... `WriteConverted` | `serveSubscription`, a statement a step; the converter's callback to `/internal/nodes` is `WriteConverted` |
| `LogAccess`, `PruneLogs`, `LogTimesOut` | `LogAccess`, with its own three seconds |
| `SubCancel`, `AdminCancel` | the request's context is cancelled |

`counted` is a history variable: the code keeps only the size of the set. Names, slugs,
notes, orders, batches and the settings table are left out. The clock counts seconds.
`expires_at` and the time are compared as RFC3339Nano texts (`db_tokens.go:98`), whose
fraction loses its trailing zeros, so that within a second the order of the texts is not
that of the times: `Usable` leaves it open there, once for each comparison.

### Runs

| run | instance | question |
|---|---|---|
| `subhub_requests` | 2 subscriptions, both of one child token, or one of a master with its conversion; 1 administrator who edits, disables or deletes the child; a clock that passes an expiry; the process dies at any point | types, the limit, the abstract quota (no charge above the limit in force or to a child in bad standing), the bound of the log |
| `subhub_store` | 2 administrators with any call on 3 masters (one id kept for the seed), 2 children, 2 collections, 2 nodes; crashes | foreign keys, how the last master can go, that a restart brings one, how a limit or a confinement is lost |
| `subhub_confined` (violation) | 1 subscription of a child whose only collection is off | a child sees its collections only |

**Bounds.** Requests are used once (`Subs`, `Admins`); what a subscription asks for is a
member of `Asks`. Two subscriptions suffice to race for the last use, with a limit of
one; the constraint `MastersAlone` lets a request of a master come alone, since it
shares nothing with those of children but the log, where two of a child meet already.
Two administrators are every pair of statements that can overlap. `MaxFields` bounds the
fields that one request gives: an update with one field is already one that writes the
others back. `Horizon` is one tick, before and after an expiry; one rotation makes a
secret stale; `LogMax` is one, so the first concurrent pair exceeds it. Ids are never
reused (`AUTOINCREMENT`), so each is born once; `Born` are those that exist at first,
`SeedIds` those that only the seed may take. Administrators and subscriptions are
symmetric. No fairness is assumed: these are safety properties.

### What it shows

The conditional `UPDATE` of `ConsumeChildUse` is what keeps the quota, not the
validation before it, and it also closes the gap between authentication and charge.
Links are rolled back when they lose a race. The log exceeds its maximum by the requests
between their insert and their pruning, and by those that were cut off there, until the
next one prunes.

One statement of the documents is not kept (`subhub_confined`): a child token whose
collections are all disabled resolves to an empty list of collections, which the node
query takes for *no filter*.

Three hazards are real, and stated as what does hold. `DeleteToken` counts and deletes
in two statements, so two requests can take the last two masters: `LastMasterNeedsARace`
says that nothing less can, and `RestartRevives` that the next start mints one. An
update that omits `max_uses` writes back the value it has read: `LimitKeptUnlessCrossed`
says that this costs a limit only if another update came in between. Associations are
written back alike, and a master without collections may use all of them:
`ConfinementKept` names the three ways in which a confined master becomes a free one,
the deletion of its only collection and a crossing request among them.

Met while modelling, and described only: `/internal/nodes`, which the converter reads,
lacks the fallback to the legacy nodes that the raw subscription has; a use is charged
before the converter is asked.

### Proofs (`SubHub_proofs`, `SubHubSafety_proofs`)

For any ids, limits, numbers of requests and administrators:

* `TypeCorrect`, from the inductive `Inv`. Types alone are not inductive: an update
  writes what the request has read into the columns of its row, so the invariant says
  that a request names a row of its own kind and links to the table of that kind
  (`WellFormed`), that stored links do (`LinksTyped`), and that what is written for a
  child has been charged (`WellCharged`).
* `KeysHold`: `ForeignKeys`, with `Inv`.
* `LastMasterGoesByRace`: the invariant `CountedInv` says that a request about to delete
  had counted two masters, each of which is still there or was deleted by a request that
  has finished; so when only one is left, another request took one it had counted.
* `ImplementsQuota`: under the mapping *passes = pairs of a token and a request that was
  charged for it*, and with the children that are enabled and whose `expires_at` is not
  past as those in `standing`, each step spends one use, administers a child, or
  stutters.
* `QuotaIsKept` (`QuotaKept`): `UsesCounted` ties the column to the requests:
  `use_count` is the number of the requests that were charged, and it is within the
  limit of a child that no update has touched. Requests that deliver are among the
  charged.
* `LogIsBounded` (`LogBounded`): by `LogInv`, the entries above the maximum are at most
  as many as the requests that have inserted and are about to prune, or were cut off
  there.
* `LimitsAreAskedFor` (`LimitKeptUnlessCrossed`): by `LimitRead`, an update between its
  read and its write holds the limit of the row, unless another update of this child has
  finished meanwhile. What a request can be doing at each statement (`Shaped`) is
  invariant by itself and keeps creates and updates apart.
* `ConfinementIsKept` (`ConfinementKept`): by `EmptyRead`, an update that has read *no
  collections* of a master that now has some was crossed by the one that gave them.
* `RestartLetsIn` (`RestartRevives`), from the types and the step of `Boot` and `Seed`.

## 5. FileStore and WebDav

### Correspondence

Handlers take a connection from the pool for each call and no statement shares a
transaction with another, so a statement is a step; so is a call to Telegram.

| model | code |
|---|---|
| `row[f]` | the row of `files` with `file_id` *f*: folder, name, `link_visibility` |
| `setting[p]` | the row of `folder_settings` of folder *p*, or `"none"` |
| `msg`, `sent` | the messages in the channel now, and those that ever were |
| `told` | the posts that the bot was told of and has not passed over |
| `Ids[f]` | the names that the `short_id` or `file_id` of *f* is equal to |
| `req[r]` | a request: what it does, its next statement, and what it has read |
| `Upload`, `Send`, `Inherit`, `Insert` | `upload_file` from its last byte on; the visibility is looked up folder by folder on the way up |
| `Move`, `Rename`, `Update` | `move_file`, `rename_file` of `api_files.rs` |
| `Link`, `Folder`, `Upsert`, `Spread` | the visibility of a file, of a folder, and of the files in it |
| `Delete`, `Unmessage`, `Missing`, `DropRow` | `delete_file`, `batch_delete_files`: message first, then row |
| `Post`, `Tell` | somebody posts a file, and its update waits at Telegram (or waits again, if it was not confirmed); `process_update` and `handle_new_file`, which passes over the posts in `Skipped` |
| `BotStarts` | `run_bot_polling` drops the updates that wait when it starts |
| `Notice`, `RemoveNoticed` | `handle_deleted_message` |
| `Put`, `DavDelete`, `DavDeleteFolder`, `Forget`, `DavMove`, `DavMoveFolder`, `ShiftFiles`, `ShiftSettings`, `Mkcol`, `Ensure` | the methods of `api_webdav.rs` |
| `StatementFails` | a statement returns an error, which ends the handler |
| `Crash` | the process stops between two steps |

A folder is a sequence of segments. Two details of the SQL are kept: `LIKE` is blind to
case and reads `_` as any character (`Alike`, `SqlBelow`), and `substr` counts
characters where it is given bytes (`Wide`, `Moved`; the model loses the whole of a
one-segment rest, as the code does when the name is short, and does not follow the loss
of single characters). The reads by which a WebDAV request makes up its mind when it
arrives are one step; which of several files at one path it finds is open, as the SQL
has no order there. `lookup_file` takes a path for an id before it takes it for a path,
and a single segment for a bare name after that (`Lookup`): an id finds its file in any
folder. Messages in other chats than the channel are none of the model's. Albums,
passwords of links and expiry dates do not take part.

History: `stale` holds the requests whose reading another one has made obsolete,
`faults` the files for which Telegram refused or broke off, a statement failed, a client
went away, the process died, or the bot was told of a deletion, or of a file again whose
message was gone; `told`; and in a request `found`, the files that it set out to remove,
and `failed`. A SELECT on the way up that fails counts as *no setting here* (`Inherit`),
a DELETE that fails leaves a row without its message (`DropRow`).

### Runs

| run | instance | question |
|---|---|---|
| `files` | 2 requests of any kind (14 operations), 6 files, three of which people post and one of these is passed over, 3 names, two of them ids of files, 5 folders, 3 databases to start from, failing statements, crashes, a bot that starts | types, rows and messages, visibility, moves, removals, folder settings |
| `files_move` (violation) | the same with one file in a private folder | a MOVE leaves the message of the file that it moves |

**Bounds.** Each request is used once; two are every pair that can overlap, and the
properties are about what one request does to what another has read. Five folders are
two levels, a sibling, and a folder with a wide name; the databases hold two files in
one folder, at two levels, or in folder and root. One id is a name that no file has, as
an id usually is, one the name of others. `LikeA` makes one pair of sibling folders
alike to LIKE. No fairness: nothing here waits.

### What it shows

Message and row stay together but for the faults named in `StoreMatchesChannel`, however
uploads, overwrites, moves and deletions cross. What the bot was never told of, because
its update was dropped at a start, and what it passes over stay in the channel without a
row, which nothing in the program repairs. A file becomes public only by a request that
says so or by the settings above it, or in a window in which the folder's settings
change while an upload is on its way up the tree or a SELECT fails there. A rename
undoes a move that came in between (`MovedOnlyOnRequest` names this as the only such
case). A deletion that could not remove every file that it found keeps the settings of
the folder; a file that came in meanwhile does not count.

"Move/rename a folder (and everything under it)" (`database.rs:638`) has one exception,
which `MovedOnlyOnRequest` and `FolderForgottenOnlyWhenEmptied` name by `LikeOnly`: `_`
in the name of a folder is any character to LIKE, and letters have no case. Moving `a_`
takes along what lies in the *subfolders* of `ab`, and deleting `a_` drops their
settings, while their files are still there.

`files_move`: a path without a folder falls back to *any* file of that name, so that
moving `/a/b` to `/b` finds `/a/b` as the target to overwrite, deletes its message and
its row, and then has nothing to rename.

### Proofs (`WebDav_proofs`)

For any requests, files, folders, names and databases to start from. Assumed are a
non-empty set of names, a set of folders that is closed under going up
(`FileConstants`), and paths whose folders are among them (`DavConstants`): what the
code calls a folder is any normalised path, and the set is only there to be enumerated.
The ids are arbitrary.

None of the properties is inductive. `DavInv` adds what a request has in hand at each of
its statements:

* its kind of operation, and where it is going (`Kind`, `PurgeKind`);
* that its files have been sent, and that a row it is about to drop has no message any
  more, or something went wrong (`Known`); that nobody else knows the file of an upload
  before its row is there (`Fresh`, `OneUpload`);
* that what it has read is still so, or it is marked stale: the visibility found on the
  way up (`Reads`), the folder a rename will write back (`Renames`), the place of the
  files it will remove, or that an id is theirs (`Targets`);
* that a folder deletion without a failure has every file it found still to remove, or
  its row is gone (`Empties`).

A request's steps change its own part and the tables. The proof therefore has one lemma
for each action, which shows that the step is of the form `StoreStep` (no row but by an
INSERT, who has read what changes is marked, the file of an upload is new) and that the
request itself stays sound, and one lemma for all others: a sound request stays so under
any `StoreStep` of another. The theorems are `DavInvariant`, `TypeCorrect`,
`RowsMatchMessages` (`StoreMatchesChannel`), and, each by a case split over the
statements that can change the column or drop the row, `VisibilityAsAsked`
(`VisibilityIsAskedFor`), `FilesMoveOnRequest` (`MovedOnlyOnRequest`),
`RowsGoUnderTheirName` (`RemovedUnderItsName`) and `FoldersForgottenEmptied`
(`FolderForgottenOnlyWhenEmptied`).

The attempt to prove them found a case that two requests do not show. A deletion drops
the row of a file that the bot has reported, the bot reports it again, and the row is
back in another folder, while a rename that has read the old one is still to write: the
third request, the INSERT, makes the reading obsolete, too. `Insert` therefore marks it,
as every other statement does that changes a row.

## 6. Upload

| model | code |
|---|---|
| `channel`, `gone` | the messages of the channel, a manifest being one with `parts`; those deleted |
| `x[t]` | an upload: `"form"` (`upload_file`), `"bytes"` (a form that is uploaded from memory), `"body"` (WebDAV), `"chunks"` (`complete_chunk_upload`) |
| `disk` | the directory of a chunk session: metadata, chunk files, `assembled.bin` |
| `KeyField`, `FileField`, `EndForm` | the loop over the fields and `advance_upload_auth_state` |
| `InitSession`, `StartChunk`, `EndChunk`, `Create`, `Copy`, `Reopen`, `Cleanup` | the chunk session; a chunk file is *torn* from the moment `fs::write` has truncated it until it is whole, and stays so if the write fails |
| `RecvForm`, `RecvBody`, `RecvChunks`, `SendPart`, `SendSingle`, `SendManifest`, `Record` | streaming to Telegram, and the row |
| `Fail` | a source breaks, a statement fails, a client goes away |
| `StartDownload`, `FetchPart`, `EndDownload` | `serve_telegram_file` with a manifest |
| `StartDelete`, `DeletePart`, `DeleteMain`, `DeleteRow` | `delete_file_with_chunks` |

The content of a body of *n* units is 1, ..., *n*, so that a lost, doubled or swapped
part shows. History, in `x`: `cut` (a form whose body broke off), `mixed` (a session
whose completion met another completion or a torn chunk), `stored`, and `shown`,
the keys that were seen; `orphans` are messages that a failure has left without a row. A
file is downloaded or deleted, not both at once: to a download, a deletion is a request
to Telegram that fails.

| run | instance | question |
|---|---|---|
| `upload` | two completions of one session of 2 chunks with 3 chunk writes, or a form with one of 7 sequences of fields, or a WebDAV body; bodies of 0, 1, 3 and 4 units, 2 to a message, a limit of 3 | the row names the whole file; no file without a key; downloads are whole; no message is left silently; a session survives its failures |
| `upload_limit` (violation) | a form with one file of 4 units | a body beyond the limit is refused |

**Bounds.** 0, 1, 3 and 4 units are the empty body, a single message, one and a half
messages, and full messages only (beyond the limit); the third chunk write rewrites one
of the two; two completions are what `assembled.bin` is shared by. Forms and bodies
share nothing with other uploads, so one is enough.

`upload_limit`: `while let Ok(Some(bytes))` makes the error of the body limit, and of a
connection that breaks, the end of the file, which is recorded as if it were whole.
`RecordedWhole` says that nothing else does this to a form; for a chunk session only two
completions, a completion and a chunk at the same time, or a chunk whose write has
failed and was not repeated: `complete` asks whether the file of each chunk is there,
not whether it is whole, and compares no size with the announced one. `FormNeedsKey`
holds although the file may be stored before the last key is read: the answer is then a
refusal, and the file stays.

### Proofs (`Upload_proofs`)

For any number of transfers at once, of bodies of any length, any size of a message and
of a session, any limit; assumed is `UploadConstants` alone. The inductive invariant is
`UploadInv`:

* **Content.** What a transfer has sent, and after it what is in its buffer, are
  consecutive slices of the bytes it was given (`Carries`, `Slice`, `Carried`). A slice
  taken from the buffer and sent extends the former; at the manifest the slices, joined,
  are the whole. `Content` and the download join with a fold of the community modules.
  Induction over a sequence being out of reach (section 8), the lemmas about it show
  that the recursive function of the fold exists over the subsets of the positions,
  because a set of numbers that is not empty has a least element, and that the partial
  joins are its values.
* **Sessions.** While one completion alone has `assembled.bin` open, the file is what it
  has written so far; when two have, both are marked `mixed` (`OpenAlone`).
* **Ownership.** No message has two owners among the rows, the transfers and the
  deletion, and only the deletion deletes (`ApartInv`); so neither another upload nor
  its failure can take a part away. No message is without an owner unless it is an
  orphan (`TracedInv`).
* **Authority.** A form that is verified, at work or stored has shown the key or was
  checked before (`Authorized`); `Shape` and `Refers` say what is in hand at each step.
* **Deletion and download.** What is deleted already, and what is delivered and still to
  fetch (`DelInv`, `DownInv`).

A step of one transfer changes one record, the channel at its end, the disk or the rows.
One lemma for each kind of these says what the invariant then needs of the new record;
each action is an instance. Theorems: `UploadsTyped` (`TypeOK`),
`RecordedUploadsAreWhole` (`RecordedWhole`), `FormsNeedTheKey` (`FormNeedsKey`),
`DownloadsAreWhole` (`DownloadWhole`), `NothingIsForgotten` (`NoSilentOrphan`),
`SessionsAreKept` (`SessionKeptUntilRecorded`).

## 7. Settings, RateLimit and Web

| model | code |
|---|---|
| `row`, `backup` | the row of `app_settings`: password, session, upload key, and the rest as one value; the exported database |
| `env` | `Settings::from_env`; `AppSettings` and `ActivePassword` say which source counts |
| `req[r]`, `jar[c]` | a request for settings; the cookie of a browser |
| `Login`, `Logout`, `Call`, `Read`, `Write`, `Export`, `Answer` | the middleware and the handlers of `api_auth.rs` and `api_settings.rs`, a database call a step |
| `NewRow`, `MergeConfig` | what each handler writes, from what it has read |
| `table[b]`, `CheckRate`, `Clean` | a bucket of the limiter; `check_rate` holds its mutex throughout |
| `Arrive`, `Attempt` | limiter, session check and handler, in the order of `main.rs` |

A session token is the number of its drawing; a hash verifies its password. An export
may fail: the client then keeps the backup that it had got before, while the server's
copy, which nothing reads again, is gone (`api_settings.rs:263`). The two
reads of the middleware are one step. The cleaner may run at any time. The API key opens
nothing that the middleware has closed: when a password is set, the upload paths want
the session, too. History: `issued` (for which password a token was drawn), `crossed`,
`late` and `blind` (a request was overtaken before it wrote or after it read; its read
failed, which the code takes for an empty row), `log` and `verdict` of the limiter.

| run | instance | question |
|---|---|---|
| `web` | 3 requests of one browser, 2 passwords, a key, a valid and an invalid configuration, an environment with or without them, a failing database; or 7 attempts of 2 addresses over 2 windows with a table for one | types, sessions, uploads that stay closed, lost columns, the limiter |
| `web_apply` (violation) | set a password, log in, apply another password | who applies settings stays signed in |

**Bounds.** `Loads` divides the instance: settings at one moment (the window of the
limiter is not what they are about), or attempts over time. Three requests are two that
cross and one that comes before or after. The window has two ticks and four pass, so
that a client can straddle an edge; two attempts are the allowance, and the table is
crowded by the second address. `login`, `api` are two buckets of four alike.

`ColumnsKept`, `SessionOfPassword` and `UploadsStayClosed` hold except in the cases that
they name: two requests that cross, and a read that fails. Uploads count as closed when
a visitor without session and key is turned away by the middleware or by
`ensure_upload_auth`; what opens them again is a reset, an import, or a save that clears
whichever of password and key the row has. A key that only the environment has closes
nothing: the NULL column hides it from `get_app_settings`. An address gets at most two
allowances into a window's length and is never refused for attempts that were refused.
`web_apply`: the middleware re-issues the cookie it saw before the handler ran, after
the one that the handler has set, so the administrator who changes the password is
signed out. Met while modelling and described only: a column that is NULL hides the
environment's value (`config.rs:71-86`), so settings of the environment count only while
the database fails, except for the password; before a password is set every path passes
the middleware, `/` being one of the prefixes it lets through.

### Proofs (`RateLimit_proofs`, `Web_proofs`)

For any addresses, allowance, window and size of the table, and for any browsers,
requests, passwords and settings; assumed are a non-empty set of addresses (a verdict is
about one), of browsers, and what `WebConstants` says of the buckets. The invariant is
`WebInv`, the conjunction of the limiter's and of the settings', which meet only in the
request that passes both.

* `RateInv` follows the log of the attempts that one address was admitted with. Those of
  the running window are its last ones, the first of them at the start of the window; an
  allowance before them lies a window before (`Running`), and when the address has no
  entry, because its window ended or it was evicted, its past is far enough back or the
  crowd accounts for it (`Free`). Hence attempts two allowances apart in the log are a
  window apart in time (`Spaced`), whence `AttemptsAreBounded` (`AttemptsBounded`): a
  set of positions without two that far apart has at most two allowances of elements.
  `RefusalIsDeserved` (`RefusalDeserved`): a refused address has a whole allowance in
  the log of the last window (`Exhausted`), or the table was crowded.
* `SessionIsOfPassword` (`SessionOfPassword`): the session of a row fits the password
  that the row puts in force (`Fits`), and so does what each handler is about to write
  (`OthersFit`); a login's token was drawn for the password in force when it began and
  goes with it into the row, unless another request came between (`LoginGoesOn`).
* `LoginIsSignedIn` (`LoginSignsIn`): a login that was written is the session in force
  until it is overtaken (`LoginStays`).
* `ColumnsAreKept` (`ColumnsKept`): between read and write, the columns a request does
  not name are those of the row, unless it was overtaken or its read failed
  (`ColumnsHeld`).
* `UploadsAreKeptClosed` (`UploadsStayClosed`): by `ColumnsHeld` again, a request that
  was neither overtaken nor blind writes back the password and the key it was not asked
  to change, and with a password in the environment some password is in force whatever
  the row holds.
* `TypeCorrect` (`TypeOK`), from `WebInvariant`.

## 8. Only model-checked

Liveness (`StoppedPollersEnd`, `RequestsEnd`) is out of the prover's reach: TLAPS has no
rules for ENABLED, on which fairness rests. Every other property of a passing run is a
theorem; TLC checked each of them, and the strengthened invariants on the same
instances, before the proofs. Induction over data is out of reach, too, since the
library's induction theorems take an operator as a parameter; where a proof needs it
(the fold of section 6, counting in section 7) it argues from a least element instead,
by well-foundedness of the finite subsets of a set. The violations are counterexamples
and need no proof.

## 9. Not modelled

* Of sub-hub: backup and restore, the public challenge and its payloads (candidates for
  the next modules), the importer of node URIs (parsing), batches and orders of nodes,
  the legacy service.
* Of tgstate-rust: the event bus (nothing reads it back but browsers), albums (a
  transaction each), pages, health, headers and error texts (stateless), PROPFIND, GET
  and LOCK (they change nothing), and the front end.
* The scripts, whose behaviour is that of the programs they call, and images without
  code.
* Within the modelled parts: Telegram and the converter (their answers are choices of
  the environment), wording, logging, and `last_used_at`, which nothing reads; what
  people delete in the channel by hand, of which the bot is not told; a SELECT that
  fails in the lookups of WebDAV, which the code takes for *not found*; the order of
  times within a second, which is left open; a restart of tgstate with another
  environment.
* No property is about these, although the models have them: the error that an old
  polling task writes over its successor's status, a hard apply that its client has
  abandoned half-way, a new master whose collections were never set, a file that comes
  into a folder while it is deleted, settings that a failed second statement of
  `rename_folder_path` leaves behind.

## 10. Running

    tlc -config MCBotLifecycle_safety.cfg MCBotLifecycle
    tlc -config MCSubHub_requests.cfg MCSubHub
    tlapm BotLifecycle_proofs.tla
    tlapm SubHub_proofs.tla
    tlapm SubHubSafety_proofs.tla
    tlapm WebDav_proofs.tla
    tlapm Upload_proofs.tla
    tlapm RateLimit_proofs.tla
    tlapm Web_proofs.tla

The other runs are called alike; the longest take about three minutes. Deadlock is
checked in the sub-hub runs only, where the process can always crash and boot; elsewhere
the load of the instance ends. Each property has a mutant, an operator `Mut_...` defined
before the one it replaces and described there as the slip it stands for; under it TLC
refutes the property.
