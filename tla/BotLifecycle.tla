---------------------------- MODULE BotLifecycle ----------------------------
(***************************************************************************)
(* The Telegram bot of tgstate-rust and the settings requests that start,  *)
(* stop and restart it (state.rs, main.rs, the loop of bot_polling.rs and   *)
(* the handlers of api_settings.rs and api_auth.rs that save settings).     *)
(*                                                                         *)
(* Every handler is a tokio task: it is interleaved with the others at each *)
(* `.await` and, the runtime having several threads, between any two        *)
(* database calls.  A critical section of `bot_state` contains no await, so *)
(* it is one step.  `settings_lock` is held across awaits, so it is a       *)
(* variable.                                                               *)
(***************************************************************************)
EXTENDS Naturals, FiniteSets

CONSTANTS
  Pollers,        \* identities of the spawned polling tasks (bounds restarts)
  Requests,       \* settings requests, each used once (bounds the load)
  Configs,        \* values of the bot's settings (token, channel)
  ReadyConfigs,   \* those with both a token and a channel: is_bot_ready
  NoConfig,       \* nothing configured
  EnvConfig,      \* what get_app_settings yields when the database fails
  None,           \* no sender, no lock holder
  Calls,          \* the handlers that clients call
  Disconnecting,  \* requests whose client may close the connection
  DbMayFail       \* whether a database call may fail

ASSUME ConfigAssumption ==
  /\ ReadyConfigs \subseteq Configs
  /\ NoConfig \in Configs \ ReadyConfigs
  /\ EnvConfig \in Configs
ASSUME IdentityAssumption ==
  /\ None \notin Pollers
  /\ None \notin Requests
ASSUME EnvironmentAssumption ==
  /\ Disconnecting \subseteq Requests
  /\ DbMayFail \in BOOLEAN
  /\ Calls \subseteq {"save", "apply", "reset", "import", "session"}

VARIABLES
  server,         \* the process: "boot", "serving", "signalled", "draining", "exited"
  db,             \* the row of app_settings
  settings_lock,  \* the request that holds AppState::settings_lock, or None
  bot,            \* AppState::bot_state
  chan,           \* the oneshot channel of each poller
  poller,         \* where each polling task is
  req,            \* where each request is
  kind,           \* which handler serves the request
  conf            \* the settings the request is working on: merged, then current

vars == <<server, db, settings_lock, bot, chan, poller, req, kind, conf>>
reqVars == <<req, kind, conf>>

-----------------------------------------------------------------------------
\* save_config_only, save_and_apply, reset_config, import_database_backup,
\* and login / set_password ("session").
Kinds == {"save", "apply", "reset", "import", "session"}
Hard(k) == k \in {"apply", "reset", "import"}
ReadsFirst(k) == k \in {"save", "apply", "session"}

Critical == {"soft", "stop", "swap", "start"}     \* settings_lock is held
Finished == {"done", "failed", "dropped"}
Quiescent == \A r \in Requests : req[r] \in Finished \cup {"idle"}

Live(p) == poller[p] \notin {"unborn", "done"}
Fresh(p) == poller[p] = "unborn"

\* Mutant: a select! arm `Ok(()) = shutdown_rx` is disabled by a dropped sender.
Mut_DropUnnoticed == chan

\* Dropping the Sender that bot_state holds resolves its receiver with an error.
DropSender ==
  IF bot.shutdown_tx = None THEN chan ELSE [chan EXCEPT ![bot.shutdown_tx] = "dropped"]

-----------------------------------------------------------------------------
(* Process start: main reads the settings, then starts the bot if ready.   *)

Init ==
  /\ server = "boot"
  /\ db \in Configs
  /\ settings_lock = None
  /\ bot = [app_settings |-> db, bot_ready |-> db \in ReadyConfigs,
            bot_running |-> FALSE, bot_error |-> FALSE, shutdown_tx |-> None]
  /\ chan = [p \in Pollers |-> "none"]
  /\ poller = [p \in Pollers |-> "unborn"]
  /\ req = [r \in Requests |-> "idle"]
  /\ kind = [r \in Requests |-> "save"]
  /\ conf = [r \in Requests |-> NoConfig]

\* start_bot: spawn a polling task and keep the sending half of its channel.
\* A sender that is still there is overwritten, hence dropped.
StartBot(p) ==
  /\ Fresh(p)
  /\ poller' = [poller EXCEPT ![p] = "startup"]
  /\ chan' = [DropSender EXCEPT ![p] = "open"]
  /\ bot' = [bot EXCEPT !.shutdown_tx = p, !.bot_running = TRUE, !.bot_error = FALSE]

\* stop_bot: take the sender, if there is one, and send on it.
StopBot ==
  /\ chan' = IF bot.shutdown_tx = None THEN chan
             ELSE [chan EXCEPT ![bot.shutdown_tx] = "sent"]
  /\ bot' = [bot EXCEPT !.shutdown_tx = None, !.bot_running = FALSE]

Boot ==
  /\ server = "boot"
  /\ server' = "serving"
  /\ IF bot.bot_ready
       THEN \E p \in Pollers : StartBot(p)
       ELSE UNCHANGED <<bot, chan, poller>>
  /\ UNCHANGED <<db, settings_lock, reqVars>>

-----------------------------------------------------------------------------
(* The polling task.                                                       *)

Goto(p, from, to) ==
  /\ poller[p] = from
  /\ server # "exited"
  /\ poller' = [poller EXCEPT ![p] = to]
  /\ UNCHANGED <<server, db, settings_lock, bot, chan, reqVars>>

\* getUpdates(-1, 0): pending updates are dropped; an error is only logged.
\* Not inside select!, so a shutdown is not seen here.
DropPendingUpdates(p) == Goto(p, "startup", "select")

\* Mutant: only a value that was sent ends the loop.
Mut_ObserveOnlySent(p) == chan[p] = "sent" /\ Goto(p, "select", "stopped")

\* select!: a resolved receiver, by a value or by its sender's drop, ends the loop.
ObserveShutdown(p) == chan[p] \in {"sent", "dropped"} /\ Goto(p, "select", "stopped")

\* select!: getUpdates answers first; its updates are processed one by one.
ReceiveUpdates(p) == Goto(p, "select", "processing")
ProcessUpdates(p) == Goto(p, "processing", "select")

\* getUpdates fails: sleep five seconds and poll again.
PollError(p) == Goto(p, "select", "backoff")
RetryPoll(p) == Goto(p, "backoff", "select")

\* Telegram reports another getUpdates: sleep thirty seconds and give up.
PollConflict(p) == Goto(p, "select", "conflict")
GiveUp(p) == Goto(p, "conflict", "failed")

\* Mutant: the epilogue forgets the flag.
Mut_EpilogueKeepsFlag(p) ==
  /\ poller[p] \in {"stopped", "failed"}
  /\ server # "exited"
  /\ poller' = [poller EXCEPT ![p] = "done"]
  /\ chan' = DropSender
  /\ bot' = [bot EXCEPT !.shutdown_tx = None, !.bot_error = @ \/ poller[p] = "failed"]
  /\ UNCHANGED <<server, db, settings_lock, reqVars>>

\* The end of the spawned task: it writes bot_state whoever owns it by now.
Epilogue(p) ==
  /\ poller[p] \in {"stopped", "failed"}
  /\ server # "exited"
  /\ poller' = [poller EXCEPT ![p] = "done"]
  /\ chan' = DropSender
  /\ bot' = [bot EXCEPT !.bot_running = FALSE, !.shutdown_tx = None,
                        !.bot_error = @ \/ poller[p] = "failed"]
  /\ UNCHANGED <<server, db, settings_lock, reqVars>>

PollerStep(p) ==
  \/ DropPendingUpdates(p) \/ ReceiveUpdates(p) \/ ProcessUpdates(p)
  \/ PollError(p) \/ RetryPoll(p) \/ PollConflict(p) \/ GiveUp(p)
  \/ ObserveShutdown(p) \/ Epilogue(p)

-----------------------------------------------------------------------------
(* Settings requests.                                                      *)

\* A request that passes validation.  reset writes the cleared row; import
\* writes whatever the uploaded database holds.
Arrive(r) ==
  /\ req[r] = "idle"
  /\ server \in {"serving", "signalled"}
  /\ \E k \in Calls :
       /\ kind' = [kind EXCEPT ![r] = k]
       /\ req' = [req EXCEPT ![r] = IF ReadsFirst(k) THEN "read" ELSE "write"]
       /\ \E c \in Configs :
            /\ k # "import" => c = NoConfig
            /\ conf' = [conf EXCEPT ![r] = c]
  /\ UNCHANGED <<server, db, settings_lock, bot, chan, poller>>

\* Read the whole row; a failed read counts as an empty one (unwrap_or_default).
\* save and apply then override the bot's settings, session handlers do not.
ReadExisting(r) ==
  /\ req[r] = "read"
  /\ req' = [req EXCEPT ![r] = "write"]
  /\ \E c \in Configs :
       /\ kind[r] = "session" => c = db \/ (DbMayFail /\ c = NoConfig)
       /\ conf' = [conf EXCEPT ![r] = c]
  /\ UNCHANGED <<server, db, settings_lock, bot, chan, poller, kind>>

\* Write the whole row back.
WriteSettings(r) ==
  /\ req[r] = "write"
  /\ db' = conf[r]
  /\ req' = [req EXCEPT ![r] = IF kind[r] = "save" THEN "done" ELSE "lock"]
  /\ UNCHANGED <<server, settings_lock, bot, chan, poller, kind, conf>>

\* The write fails: 500, except that reset_config ignores the error.
WriteFails(r) ==
  /\ req[r] = "write"
  /\ DbMayFail
  /\ req' = [req EXCEPT ![r] = IF kind[r] = "reset" THEN "lock" ELSE "failed"]
  /\ UNCHANGED <<server, db, settings_lock, bot, chan, poller, kind, conf>>

\* Mutants: no lock is taken; the request applies what it wrote itself.
Mut_AcquireNoLock(r) ==
  /\ req[r] = "lock"
  /\ settings_lock' = r
  /\ conf' = [conf EXCEPT ![r] = db]
  /\ req' = [req EXCEPT ![r] = IF Hard(kind[r]) THEN "stop" ELSE "soft"]
  /\ UNCHANGED <<server, db, bot, chan, poller, kind>>
Mut_AcquireOwnSettings(r) ==
  /\ req[r] = "lock"
  /\ settings_lock = None
  /\ settings_lock' = r
  /\ req' = [req EXCEPT ![r] = IF Hard(kind[r]) THEN "stop" ELSE "soft"]
  /\ UNCHANGED <<server, db, bot, chan, poller, kind, conf>>

\* apply_runtime_settings: take settings_lock, then read the settings.
AcquireSettings(r) ==
  /\ req[r] = "lock"
  /\ settings_lock = None
  /\ settings_lock' = r
  /\ \E c \in {db} \cup (IF DbMayFail THEN {EnvConfig} ELSE {}) :
       conf' = [conf EXCEPT ![r] = c]
  /\ req' = [req EXCEPT ![r] = IF Hard(kind[r]) THEN "stop" ELSE "soft"]
  /\ UNCHANGED <<server, db, bot, chan, poller, kind>>

\* Leaving apply_runtime_settings releases its guard.
Return(r, how) ==
  /\ req' = [req EXCEPT ![r] = how]
  /\ settings_lock' = None

\* Mutant: the map is moved into the snapshot after it was taken from it.
Mut_SnapshotEmptied(r) ==
  [bot EXCEPT !.app_settings = None, !.bot_ready = conf[r] \in ReadyConfigs]

Snapshot(r) ==
  [bot EXCEPT !.app_settings = conf[r], !.bot_ready = conf[r] \in ReadyConfigs]

\* Mutant: the behaviour that the comment of the soft path says it once had.
Mut_SoftRefreshStops(r) ==
  /\ req[r] = "soft"
  /\ chan' = DropSender
  /\ bot' = [Snapshot(r) EXCEPT !.shutdown_tx = None, !.bot_running = FALSE]
  /\ Return(r, "done")
  /\ UNCHANGED <<server, db, poller, kind, conf>>

\* The soft refresh replaces the snapshot and leaves the bot alone.
SoftRefresh(r) ==
  /\ req[r] = "soft"
  /\ bot' = Snapshot(r)
  /\ Return(r, "done")
  /\ UNCHANGED <<server, db, chan, poller, kind, conf>>

\* Mutant: the flag is cleared, the sender stays.
Mut_HardStopFlagOnly(r) ==
  /\ req[r] = "stop"
  /\ bot' = [bot EXCEPT !.bot_running = FALSE]
  /\ req' = [req EXCEPT ![r] = "swap"]
  /\ UNCHANGED <<server, db, settings_lock, chan, poller, kind, conf>>

HardStop(r) ==
  /\ req[r] = "stop"
  /\ StopBot
  /\ req' = [req EXCEPT ![r] = "swap"]
  /\ UNCHANGED <<server, db, settings_lock, poller, kind, conf>>

\* Mutant: readiness is taken from the old snapshot.
Mut_HardSwapOldReady(r) ==
  /\ req[r] = "swap"
  /\ bot' = [Snapshot(r) EXCEPT !.bot_error = FALSE]
  /\ IF bot.bot_ready
       THEN req' = [req EXCEPT ![r] = "start"] /\ UNCHANGED settings_lock
       ELSE Return(r, "done")
  /\ UNCHANGED <<server, db, chan, poller, kind, conf>>

HardSwap(r) ==
  /\ req[r] = "swap"
  /\ bot' = [Snapshot(r) EXCEPT !.bot_error = FALSE]
  /\ IF conf[r] \in ReadyConfigs
       THEN req' = [req EXCEPT ![r] = "start"] /\ UNCHANGED settings_lock
       ELSE Return(r, "done")
  /\ UNCHANGED <<server, db, chan, poller, kind, conf>>

\* start_bot refuses a snapshot without token or channel; StartNeverRefused
\* shows that this error path is never taken.
HardStart(r) ==
  /\ req[r] = "start"
  /\ bot.app_settings \in ReadyConfigs
  /\ \E p \in Pollers : StartBot(p)
  /\ Return(r, "done")
  /\ UNCHANGED <<server, db, kind, conf>>

\* Mutant: the guard outlives the dropped handler.
Mut_DisconnectKeepsLock(r) ==
  /\ r \in Disconnecting
  /\ req[r] \in {"lock"} \cup Critical
  /\ req' = [req EXCEPT ![r] = "dropped"]
  /\ UNCHANGED <<server, db, settings_lock, bot, chan, poller, kind, conf>>

\* hyper drops a handler whose client has gone, at an await; the guard of
\* settings_lock goes with it.
Disconnect(r) ==
  /\ r \in Disconnecting
  /\ req[r] \in {"lock"} \cup Critical
  /\ req' = [req EXCEPT ![r] = "dropped"]
  /\ settings_lock' = IF settings_lock = r THEN None ELSE settings_lock
  /\ UNCHANGED <<server, db, bot, chan, poller, kind, conf>>

RequestStep(r) ==
  \/ ReadExisting(r) \/ WriteSettings(r) \/ WriteFails(r) \/ AcquireSettings(r)
  \/ SoftRefresh(r) \/ HardStop(r) \/ HardSwap(r) \/ HardStart(r)

-----------------------------------------------------------------------------
(* Ctrl-C: stop_bot, then the listener closes and requests drain.          *)

CtrlC ==
  /\ server = "serving"
  /\ server' = "signalled"
  /\ UNCHANGED <<db, settings_lock, bot, chan, poller, reqVars>>

ShutdownStop ==
  /\ server = "signalled"
  /\ StopBot
  /\ server' = "draining"
  /\ UNCHANGED <<db, settings_lock, poller, reqVars>>

\* main returns once every connection has ended; the runtime kills the tasks.
Exit ==
  /\ server = "draining"
  /\ Quiescent
  /\ server' = "exited"
  /\ UNCHANGED <<db, settings_lock, bot, chan, poller, reqVars>>

-----------------------------------------------------------------------------
Next ==
  \/ Boot \/ CtrlC \/ ShutdownStop \/ Exit
  \/ \E p \in Pollers : PollerStep(p)
  \/ \E r \in Requests : Arrive(r) \/ RequestStep(r) \/ Disconnect(r)

Spec == Init /\ [][Next]_vars

(* The executor runs every runnable task, getUpdates has a timeout, and     *)
(* select! picks at random among its ready branches, so a poller that keeps *)
(* coming back to it with its receiver resolved ends up taking that branch. *)
(* Both tokio mutexes are FIFO, so every waiter is served in turn.          *)
Fairness ==
  /\ WF_vars(Boot) /\ WF_vars(ShutdownStop)
  /\ \A p \in Pollers : WF_vars(PollerStep(p)) /\ SF_vars(ObserveShutdown(p))
  /\ \A r \in Requests : WF_vars(RequestStep(r)) /\ SF_vars(AcquireSettings(r))

FairSpec == Spec /\ Fairness
-----------------------------------------------------------------------------
(* Properties.                                                             *)

TypeOK ==
  /\ server \in {"boot", "serving", "signalled", "draining", "exited"}
  /\ db \in Configs
  /\ settings_lock \in Requests \cup {None}
  /\ bot \in [app_settings : Configs, bot_ready : BOOLEAN, bot_running : BOOLEAN,
              bot_error : BOOLEAN, shutdown_tx : Pollers \cup {None}]
  /\ chan \in [Pollers -> {"none", "open", "sent", "dropped"}]
  /\ poller \in [Pollers -> {"unborn", "startup", "select", "processing", "backoff",
                             "conflict", "stopped", "failed", "done"}]
  /\ req \in [Requests -> {"idle", "read", "write", "lock"} \cup Critical \cup Finished]
  /\ kind \in [Requests -> Kinds]
  /\ conf \in [Requests -> Configs]

\* apply_runtime_settings is a critical section: a request between its stop and
\* its start never meets another one there, and the lock names it.
SettingsExclusive ==
  \A r \in Requests : req[r] \in Critical <=> settings_lock = r

\* However restarts, failures and epilogues interleave, a polling task that was
\* not told to stop is the one whose sender bot_state holds: no task is ever left
\* running that stop_bot cannot reach, hence at most one is in charge.
NoOrphanPoller ==
  \A p \in Pollers : Live(p) /\ chan[p] = "open" => bot.shutdown_tx = p

\* The status that the settings page shows is truthful: bot_running exactly when
\* a task that has not ended holds the receiver of the sender in bot_state.
RunningIsTruthful ==
  bot.bot_running <=> \E p \in Pollers : Live(p) /\ bot.shutdown_tx = p /\ chan[p] = "open"

\* Nothing can clear the snapshot between the is_bot_ready test of a hard apply
\* and its start_bot, although bot_state is unlocked in between: the branch of
\* apply_runtime_settings that reports a start failure is never taken.
StartNeverRefused ==
  \A r \in Requests :
    req[r] = "start" => bot.app_settings \in ReadyConfigs /\ bot.shutdown_tx = None

\* Once every request has come to its end, the in-memory snapshot is the saved
\* row, whatever the order of their writes and applies; unless some request was
\* only meant to save, lost its client, or met a database error.
SnapshotFresh ==
  /\ Quiescent
  /\ ~DbMayFail
  /\ \A r \in Requests : req[r] = "dropped" \/ kind[r] = "save" => req[r] = "idle"
  => bot.app_settings = db

\* Logging in or setting a password never costs the bot its life: until a hard
\* apply or Ctrl-C comes, no task sees its channel resolved unless it failed.
OnlyHardApplyStops ==
  /\ \A r \in Requests : req[r] = "idle" \/ ~Hard(kind[r])
  /\ server \in {"boot", "serving"}
  => \A p \in Pollers : chan[p] \in {"sent", "dropped"} => poller[p] = "done" /\ bot.bot_error

\* The comment of apply_runtime_settings: "stop the bot, swap config, and restart
\* if ready".  When all requests are over, none was cut short and no polling
\* failed, a configured bot is running.  The code breaks this: see the README.
RestartedWhenReady ==
  /\ server = "serving"
  /\ Quiescent
  /\ \A r \in Requests : req[r] # "dropped"
  /\ \A p \in Pollers : poller[p] \notin {"conflict", "failed"}
  /\ \A r \in Requests : req[r] = "idle" \/ kind[r] = "apply"
  /\ bot.bot_ready /\ ~bot.bot_error
  => bot.bot_running

\* A task that was told to stop, by a message or by losing its sender, ends even
\* if updates keep coming; two tasks therefore poll at once only for a while.
StoppedPollersEnd ==
  \A p \in Pollers :
    chan[p] \in {"sent", "dropped"} ~> poller[p] = "done" \/ server = "exited"

\* The two locks cannot starve a request: each one that was admitted comes to an
\* end, even when others are dropped while they wait or hold settings_lock.
RequestsEnd ==
  \A r \in Requests : req[r] # "idle" ~> req[r] \in Finished

\* The life cycle implements the supervisor.
Supervisor ==
  INSTANCE BotSupervisor WITH
    owner <- bot.shutdown_tx,
    alive <- {p \in Pollers : Live(p)},
    retired <- {p \in Pollers : poller[p] = "done"}
SupervisorSpec == Supervisor!Spec
=============================================================================
