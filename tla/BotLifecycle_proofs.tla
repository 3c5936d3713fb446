------------------------ MODULE BotLifecycle_proofs -------------------------
(***************************************************************************)
(* Proofs about BotLifecycle, for any number of requests and restarts.     *)
(***************************************************************************)
EXTENDS BotLifecycle, TLAPS

(***************************************************************************)
(* Type correctness.                                                       *)
(***************************************************************************)
\* Starting and stopping the bot keep the types of what they write.
LEMMA StartBotType ==
  ASSUME TypeOK, NEW p \in Pollers, StartBot(p)
  PROVE  TypeOK!4' /\ TypeOK!5' /\ TypeOK!6'
<1>1. DropSender \in [Pollers -> {"none", "open", "sent", "dropped"}]
  BY DEF TypeOK, DropSender
<1>. QED
  BY <1>1 DEF TypeOK, StartBot

\* So does replacing the snapshot of the settings.
LEMMA SnapshotType ==
  ASSUME TypeOK, NEW r \in Requests
  PROVE  Snapshot(r) \in [app_settings : Configs, bot_ready : BOOLEAN, bot_running : BOOLEAN,
                          bot_error : BOOLEAN, shutdown_tx : Pollers \cup {None}]
<1>. DEFINE ready == conf[r] \in ReadyConfigs
<1>1. ready \in BOOLEAN
  OBVIOUS
<1>2. Snapshot(r) = [bot EXCEPT !.app_settings = conf[r], !.bot_ready = ready]
  BY Zenon DEF Snapshot
<1>. HIDE DEF ready
<1>. QED
  BY <1>1, <1>2 DEF TypeOK

\* The variables keep their types: in particular the sender in bot_state is
\* always that of a spawned task and the lock holder always a request.
THEOREM TypeCorrect == Spec => []TypeOK
<1>1. Init => TypeOK
  BY ConfigAssumption DEF Init, TypeOK, Kinds
<1>2. TypeOK /\ [Next]_vars => TypeOK'
  <2> SUFFICES ASSUME TypeOK, [Next]_vars
               PROVE  TypeOK'
    OBVIOUS
  <2>. USE ConfigAssumption, EnvironmentAssumption
  <2>. USE DEF TypeOK, reqVars, Critical, Finished
  <2>1. CASE Boot
    <3>1. TypeOK!4' /\ TypeOK!5' /\ TypeOK!6'
      <4>1. CASE bot.bot_ready
        BY <2>1, <4>1, StartBotType DEF Boot
      <4>2. CASE ~bot.bot_ready
        BY <2>1, <4>2 DEF Boot
      <4>. QED
        BY <4>1, <4>2
    <3>. QED
      BY <2>1, <3>1 DEF Boot
  <2>2. CASE CtrlC
    BY <2>2 DEF CtrlC
  <2>3. CASE ShutdownStop
    BY <2>3 DEF ShutdownStop, StopBot
  <2>4. CASE Exit
    BY <2>4 DEF Exit
  <2>5. ASSUME NEW p \in Pollers, PollerStep(p)
        PROVE  TypeOK'
    <3>1. CASE Epilogue(p)
      BY <3>1 DEF Epilogue, DropSender
    <3>2. ASSUME NEW from, NEW to \in {"select", "processing", "backoff", "conflict", "stopped", "failed"},
                 Goto(p, from, to)
          PROVE  TypeOK'
      BY <3>2 DEF Goto
    <3>. QED
      BY <2>5, <3>1, <3>2 DEF PollerStep, DropPendingUpdates, ReceiveUpdates, ProcessUpdates,
           PollError, RetryPoll, PollConflict, GiveUp, ObserveShutdown
  <2>6. ASSUME NEW r \in Requests, Arrive(r)
        PROVE  TypeOK'
    BY <2>6 DEF Arrive, Kinds
  <2>7. ASSUME NEW r \in Requests, RequestStep(r)
        PROVE  TypeOK'
    <3>1. CASE ReadExisting(r)
      BY <3>1 DEF ReadExisting
    <3>2. CASE WriteSettings(r)
      BY <3>2 DEF WriteSettings
    <3>3. CASE WriteFails(r)
      BY <3>3 DEF WriteFails
    <3>4. CASE AcquireSettings(r)
      <4>1. conf' \in [Requests -> Configs]
        BY <3>4 DEF AcquireSettings
      <4>. QED
        BY <3>4, <4>1 DEF AcquireSettings
    <3>5. CASE SoftRefresh(r)
      BY <3>5, SnapshotType DEF SoftRefresh, Return
    <3>6. CASE HardStop(r)
      BY <3>6 DEF HardStop, StopBot
    <3>7. CASE HardSwap(r)
      <4>2. bot' = [Snapshot(r) EXCEPT !.bot_error = FALSE]
        BY <3>7 DEF HardSwap
      <4>3. TypeOK!4'
        BY <4>2, SnapshotType
      <4>4. req' = [req EXCEPT ![r] = "start"] \/ req' = [req EXCEPT ![r] = "done"]
        BY <3>7 DEF HardSwap, Return
      <4>5. settings_lock' \in Requests \cup {None}
        BY <3>7 DEF HardSwap, Return
      <4>. QED
        BY <3>7, <4>3, <4>4, <4>5 DEF HardSwap
    <3>8. CASE HardStart(r)
      <4>1. TypeOK!4' /\ TypeOK!5' /\ TypeOK!6'
        BY <3>8, StartBotType DEF HardStart
      <4>2. /\ req' = [req EXCEPT ![r] = "done"]
            /\ settings_lock' = None
            /\ UNCHANGED <<server, db, kind, conf>>
        BY <3>8 DEF HardStart, Return
      <4>. QED
        BY <4>1, <4>2
    <3>. QED
      BY <2>7, <3>1, <3>2, <3>3, <3>4, <3>5, <3>6, <3>7, <3>8 DEF RequestStep
  <2>8. ASSUME NEW r \in Requests, Disconnect(r)
        PROVE  TypeOK'
    BY <2>8 DEF Disconnect
  <2>9. CASE UNCHANGED vars
    BY <2>9 DEF vars
  <2>. QED
    BY <2>1, <2>2, <2>3, <2>4, <2>5, <2>6, <2>7, <2>8, <2>9 DEF Next
<1>. QED
  BY <1>1, <1>2, PTL DEF Spec

(***************************************************************************)
(* settings_lock.                                                          *)
(***************************************************************************)
\* The critical section of apply_runtime_settings is exclusive, whoever is
\* dropped by its client on the way.
THEOREM SettingsAreExclusive == Spec => []SettingsExclusive
<1>1. Init => SettingsExclusive
  BY IdentityAssumption DEF Init, SettingsExclusive, Critical
<1>2. TypeOK /\ SettingsExclusive /\ [Next]_vars => SettingsExclusive'
  <2> SUFFICES ASSUME TypeOK, SettingsExclusive, [Next]_vars
               PROVE  SettingsExclusive'
    OBVIOUS
  <2>. USE IdentityAssumption DEF TypeOK, SettingsExclusive, Critical, reqVars
  <2>1. CASE Boot \/ CtrlC \/ ShutdownStop \/ Exit
    BY <2>1 DEF Boot, CtrlC, ShutdownStop, Exit
  <2>2. ASSUME NEW p \in Pollers, PollerStep(p)
        PROVE  SettingsExclusive'
    BY <2>2 DEF PollerStep, DropPendingUpdates, ReceiveUpdates, ProcessUpdates, PollError,
         RetryPoll, PollConflict, GiveUp, ObserveShutdown, Goto, Epilogue
  <2>3. ASSUME NEW r \in Requests, Arrive(r)
        PROVE  SettingsExclusive'
    BY <2>3 DEF Arrive
  <2>4. ASSUME NEW r \in Requests, ReadExisting(r) \/ WriteSettings(r) \/ WriteFails(r)
        PROVE  SettingsExclusive'
    BY <2>4 DEF ReadExisting, WriteSettings, WriteFails
  <2>5. ASSUME NEW r \in Requests, AcquireSettings(r)
        PROVE  SettingsExclusive'
    BY <2>5 DEF AcquireSettings
  <2>6. ASSUME NEW r \in Requests, SoftRefresh(r) \/ HardStop(r) \/ HardSwap(r) \/ HardStart(r)
        PROVE  SettingsExclusive'
    BY <2>6 DEF SoftRefresh, HardStop, HardSwap, HardStart, Return
  <2>7. ASSUME NEW r \in Requests, Disconnect(r)
        PROVE  SettingsExclusive'
    BY <2>7 DEF Disconnect
  <2>8. CASE UNCHANGED vars
    BY <2>8 DEF vars
  <2>. QED
    BY <2>1, <2>2, <2>3, <2>4, <2>5, <2>6, <2>7, <2>8 DEF Next, RequestStep
<1>. QED
  BY <1>1, <1>2, TypeCorrect, PTL DEF Spec

(***************************************************************************)
(* Who holds the bot.  Neither NoOrphanPoller nor RunningIsTruthful is      *)
(* inductive: that no task is orphaned rests on a start never meeting a     *)
(* sender, hence on settings_lock being held from the stop to the start,    *)
(* and on a channel being open exactly while bot_state holds its sender.    *)
(***************************************************************************)
SenderInv == \A p \in Pollers : chan[p] = "open" <=> bot.shutdown_tx = p
HolderInv == \A p \in Pollers : bot.shutdown_tx = p => Live(p)
FlagInv == bot.bot_running <=> bot.shutdown_tx # None
StoppedInv == \A r \in Requests : req[r] \in {"swap", "start"} => bot.shutdown_tx = None
BootInv == server = "boot" => bot.shutdown_tx = None /\ \A r \in Requests : req[r] = "idle"
SwappedInv ==
  \A r \in Requests : req[r] = "start" => bot.app_settings = conf[r] /\ conf[r] \in ReadyConfigs

LifecycleInv ==
  /\ SettingsExclusive
  /\ SenderInv /\ HolderInv /\ FlagInv
  /\ StoppedInv /\ BootInv /\ SwappedInv

\* Starting with no sender puts the new task, and only it, in charge.
LEMMA StartTakesCharge ==
  ASSUME TypeOK, SenderInv, HolderInv, bot.shutdown_tx = None,
         NEW p \in Pollers, StartBot(p)
  PROVE  /\ SenderInv' /\ HolderInv' /\ FlagInv'
         /\ bot'.shutdown_tx = p /\ bot'.app_settings = bot.app_settings
BY IdentityAssumption
   DEF TypeOK, StartBot, DropSender, Fresh, Live, SenderInv, HolderInv, FlagInv

\* stop_bot leaves nobody in charge, whatever it found.
LEMMA StopRelieves ==
  ASSUME TypeOK, SenderInv, StopBot
  PROVE  /\ bot'.shutdown_tx = None /\ FlagInv'
         /\ \A p \in Pollers : chan'[p] # "open"
         /\ bot'.app_settings = bot.app_settings
BY IdentityAssumption DEF TypeOK, StopBot, SenderInv, FlagInv

LEMMA LifecycleInvInit == Init => LifecycleInv
BY IdentityAssumption
   DEF Init, LifecycleInv, SettingsExclusive, SenderInv, HolderInv, FlagInv, StoppedInv,
       BootInv, SwappedInv, Critical

LEMMA LifecycleInvStep ==
  TypeOK /\ LifecycleInv /\ SettingsExclusive' /\ [Next]_vars => LifecycleInv'
<1> SUFFICES ASSUME TypeOK, LifecycleInv, SettingsExclusive', [Next]_vars
             PROVE  /\ SenderInv' /\ HolderInv' /\ FlagInv'
                    /\ StoppedInv' /\ BootInv' /\ SwappedInv'
  BY DEF LifecycleInv
<1>. USE IdentityAssumption DEF LifecycleInv
<1>1. CASE Boot
  <2>1. CASE bot.bot_ready
    <3>1. PICK p \in Pollers : StartBot(p)
      BY <1>1, <2>1 DEF Boot
    <3>2. bot.shutdown_tx = None /\ \A r \in Requests : req[r] = "idle"
      BY <1>1 DEF Boot, BootInv
    <3>3. SenderInv' /\ HolderInv' /\ FlagInv'
      BY <3>1, <3>2, StartTakesCharge
    <3>. QED
      BY <1>1, <3>2, <3>3 DEF Boot, reqVars, StoppedInv, BootInv, SwappedInv
  <2>2. CASE ~bot.bot_ready
    BY <1>1, <2>2 DEF Boot, reqVars, SenderInv, HolderInv, FlagInv, StoppedInv, BootInv,
       SwappedInv, Live
  <2>. QED
    BY <2>1, <2>2
<1>2. CASE CtrlC \/ Exit
  BY <1>2 DEF CtrlC, Exit, reqVars, SenderInv, HolderInv, FlagInv, StoppedInv, BootInv,
     SwappedInv, Live
<1>3. CASE ShutdownStop
  <2>1. /\ bot'.shutdown_tx = None /\ FlagInv' /\ bot'.app_settings = bot.app_settings
        /\ \A p \in Pollers : chan'[p] # "open"
    BY <1>3, StopRelieves DEF ShutdownStop
  <2>. QED
    BY <1>3, <2>1 DEF ShutdownStop, reqVars, SenderInv, HolderInv, StoppedInv, BootInv, SwappedInv
<1>4. ASSUME NEW p \in Pollers, PollerStep(p)
      PROVE  /\ SenderInv' /\ HolderInv' /\ FlagInv'
             /\ StoppedInv' /\ BootInv' /\ SwappedInv'
  <2>1. CASE Epilogue(p)
    <3>1. /\ bot'.shutdown_tx = None /\ ~bot'.bot_running /\ bot'.app_settings = bot.app_settings
          /\ \A q \in Pollers : chan'[q] # "open"
      BY <2>1 DEF Epilogue, DropSender, TypeOK, SenderInv
    <3>. QED
      BY <2>1, <3>1 DEF Epilogue, reqVars, SenderInv, HolderInv, FlagInv, StoppedInv, BootInv,
         SwappedInv
  <2>2. ASSUME NEW from \in {"startup", "select", "processing", "backoff", "conflict"},
               NEW to \in {"select", "processing", "backoff", "conflict", "stopped", "failed"},
               Goto(p, from, to)
        PROVE  /\ SenderInv' /\ HolderInv' /\ FlagInv'
               /\ StoppedInv' /\ BootInv' /\ SwappedInv'
    <3>1. \A q \in Pollers : Live(q) => Live(q)'
      BY <2>2 DEF Goto, Live, TypeOK
    <3>. QED
      BY <2>2, <3>1 DEF Goto, reqVars, SenderInv, HolderInv, FlagInv, StoppedInv, BootInv,
         SwappedInv
  <2>. QED
    BY <1>4, <2>1, <2>2 DEF PollerStep, DropPendingUpdates, ReceiveUpdates, ProcessUpdates,
       PollError, RetryPoll, PollConflict, GiveUp, ObserveShutdown
<1>5. ASSUME NEW r \in Requests,
             Arrive(r) \/ ReadExisting(r) \/ WriteSettings(r) \/ WriteFails(r)
             \/ AcquireSettings(r) \/ Disconnect(r)
      PROVE  /\ SenderInv' /\ HolderInv' /\ FlagInv'
             /\ StoppedInv' /\ BootInv' /\ SwappedInv'
  <2>1. UNCHANGED <<server, bot, chan, poller>>
    BY <1>5 DEF Arrive, ReadExisting, WriteSettings, WriteFails, AcquireSettings, Disconnect
  <2>2. \A q \in Requests : req'[q] \in {"swap", "start"} => req'[q] = req[q] /\ conf'[q] = conf[q]
    BY <1>5 DEF Arrive, ReadExisting, WriteSettings, WriteFails, AcquireSettings, Disconnect, TypeOK
  <2>3. server # "boot"
    BY <1>5 DEF Arrive, ReadExisting, WriteSettings, WriteFails, AcquireSettings, Disconnect,
       BootInv, Critical
  <2>. QED
    BY <2>1, <2>2, <2>3 DEF SenderInv, HolderInv, FlagInv, StoppedInv, BootInv, SwappedInv, Live
<1>6. ASSUME NEW r \in Requests, SoftRefresh(r) \/ HardSwap(r)
      PROVE  /\ SenderInv' /\ HolderInv' /\ FlagInv'
             /\ StoppedInv' /\ BootInv' /\ SwappedInv'
  <2>1. /\ bot'.shutdown_tx = bot.shutdown_tx /\ bot'.bot_running = bot.bot_running
        /\ bot'.app_settings = conf[r]
        /\ UNCHANGED <<server, chan, poller, conf>>
    BY <1>6 DEF SoftRefresh, HardSwap, Snapshot, TypeOK
  <2>2. \A q \in Requests : req[q] \in {"swap", "start"} => q = r
    BY <1>6 DEF SoftRefresh, HardSwap, SettingsExclusive, Critical
  <2>3. server # "boot"
    BY <1>6 DEF SoftRefresh, HardSwap, BootInv
  <2>4. \A q \in Requests : req'[q] \in {"swap", "start"} =>
          q = r /\ bot.shutdown_tx = None /\ conf[r] \in ReadyConfigs
    BY <1>6, <2>2 DEF SoftRefresh, HardSwap, Return, StoppedInv, TypeOK
  <2>. QED
    BY <2>1, <2>3, <2>4 DEF SenderInv, HolderInv, FlagInv, StoppedInv, BootInv, SwappedInv, Live
<1>7. ASSUME NEW r \in Requests, HardStop(r)
      PROVE  /\ SenderInv' /\ HolderInv' /\ FlagInv'
             /\ StoppedInv' /\ BootInv' /\ SwappedInv'
  <2>1. /\ bot'.shutdown_tx = None /\ FlagInv' /\ bot'.app_settings = bot.app_settings
        /\ \A p \in Pollers : chan'[p] # "open"
    BY <1>7, StopRelieves DEF HardStop
  <2>2. \A q \in Requests : req'[q] = "start" => req[q] = "start"
    BY <1>7 DEF HardStop, TypeOK
  <2>. QED
    BY <1>7, <2>1, <2>2 DEF HardStop, SenderInv, HolderInv, StoppedInv, BootInv, SwappedInv
<1>8. ASSUME NEW r \in Requests, HardStart(r)
      PROVE  /\ SenderInv' /\ HolderInv' /\ FlagInv'
             /\ StoppedInv' /\ BootInv' /\ SwappedInv'
  <2>1. PICK p \in Pollers : StartBot(p)
    BY <1>8 DEF HardStart
  <2>2. bot.shutdown_tx = None
    BY <1>8 DEF HardStart, StoppedInv
  <2>3. SenderInv' /\ HolderInv' /\ FlagInv'
    BY <2>1, <2>2, StartTakesCharge
  <2>4. \A q \in Requests : req'[q] \notin {"swap", "start"}
    BY <1>8 DEF HardStart, Return, SettingsExclusive, Critical, TypeOK
  <2>. QED
    BY <1>8, <2>3, <2>4 DEF HardStart, StoppedInv, BootInv, SwappedInv
<1>9. CASE UNCHANGED vars
  BY <1>9 DEF vars, SenderInv, HolderInv, FlagInv, StoppedInv, BootInv, SwappedInv, Live
<1>. QED
  BY <1>1, <1>2, <1>3, <1>4, <1>5, <1>6, <1>7, <1>8, <1>9 DEF Next, RequestStep

LEMMA LifecycleInvHolds == Spec => []LifecycleInv
BY LifecycleInvInit, LifecycleInvStep, TypeCorrect, SettingsAreExclusive, PTL DEF Spec

\* No polling task is ever left running out of stop_bot's reach.
THEOREM NoPollerIsOrphaned == Spec => []NoOrphanPoller
<1>1. LifecycleInv => NoOrphanPoller
  BY DEF LifecycleInv, SenderInv, NoOrphanPoller
<1>. QED
  BY <1>1, LifecycleInvHolds, PTL

\* bot_running is TRUE exactly when a polling task is in charge.
THEOREM StatusIsTruthful == Spec => []RunningIsTruthful
<1>1. TypeOK /\ LifecycleInv => RunningIsTruthful
  BY IdentityAssumption
     DEF TypeOK, LifecycleInv, SenderInv, HolderInv, FlagInv, RunningIsTruthful
<1>. QED
  BY <1>1, LifecycleInvHolds, TypeCorrect, PTL

\* A hard apply that saw a ready configuration never has its start refused.
THEOREM StartIsNeverRefused == Spec => []StartNeverRefused
<1>1. LifecycleInv => StartNeverRefused
  BY DEF LifecycleInv, StoppedInv, SwappedInv, StartNeverRefused
<1>. QED
  BY <1>1, LifecycleInvHolds, PTL

(***************************************************************************)
(* Who ends the bot.  A task is born with its channel and the process boots *)
(* before any task; only a hard apply reaches the steps from stop to start. *)
(* As long as there is none, a task that failed is still the one in charge, *)
(* so its epilogue drops its own sender and leaves the error behind.        *)
(***************************************************************************)
PathInv == \A r \in Requests : req[r] \in {"stop", "swap", "start"} => Hard(kind[r])
BornInv ==
  /\ \A p \in Pollers : chan[p] = "none" <=> Fresh(p)
  /\ server = "boot" => \A p \in Pollers : Fresh(p)
Undisturbed ==
  /\ \A r \in Requests : req[r] = "idle" \/ ~Hard(kind[r])
  /\ server \in {"boot", "serving"}
EndedByItself(p) ==
  /\ chan[p] \in {"sent", "dropped"} => poller[p] = "done" /\ bot.bot_error
  /\ poller[p] # "stopped"

SoftInv == PathInv /\ BornInv /\ (Undisturbed => \A p \in Pollers : EndedByItself(p))

\* A request meets the steps from stop to start only as a hard apply.
LEMMA PathInvStep == TypeOK /\ PathInv /\ [Next]_vars => PathInv'
<1> SUFFICES ASSUME TypeOK, PathInv, [Next]_vars
             PROVE  PathInv'
  OBVIOUS
<1>. USE DEF reqVars, PathInv
<1>1. CASE UNCHANGED reqVars
  BY <1>1
<1>2. ASSUME NEW r \in Requests, Arrive(r) \/ RequestStep(r) \/ Disconnect(r)
      PROVE  PathInv'
  BY <1>2 DEF Arrive, RequestStep, ReadExisting, WriteSettings, WriteFails, AcquireSettings,
     SoftRefresh, HardStop, HardSwap, HardStart, Return, Disconnect, TypeOK
<1>3. ASSUME Boot \/ CtrlC \/ ShutdownStop \/ Exit \/ (\E p \in Pollers : PollerStep(p))
             \/ UNCHANGED vars
      PROVE  UNCHANGED reqVars
  BY <1>3 DEF Boot, CtrlC, ShutdownStop, Exit, PollerStep, DropPendingUpdates, ReceiveUpdates,
     ProcessUpdates, PollError, RetryPoll, PollConflict, GiveUp, ObserveShutdown, Goto, Epilogue,
     vars
<1>. QED
  BY <1>1, <1>2, <1>3 DEF Next

\* A task starts with its channel, and a sender that is dropped or used is that
\* of a task which has started.
LEMMA BornInvStep == TypeOK /\ LifecycleInv /\ BornInv /\ [Next]_vars => BornInv'
<1> SUFFICES ASSUME TypeOK, LifecycleInv, BornInv, [Next]_vars
             PROVE  BornInv'
  OBVIOUS
<1>. USE DEF BornInv, Fresh
<1>1. ASSUME NEW p \in Pollers, StartBot(p), server' # "boot"
      PROVE  BornInv'
  <2>1. \A q \in Pollers \ {p} : DropSender[q] = "none" <=> chan[q] = "none"
    BY DEF DropSender, TypeOK, LifecycleInv, SenderInv
  <2>2. \A q \in Pollers \ {p} : chan'[q] = DropSender[q] /\ poller'[q] = poller[q]
    BY <1>1 DEF StartBot, DropSender, TypeOK
  <2>3. chan'[p] = "open" /\ poller'[p] = "startup"
    BY <1>1 DEF StartBot, DropSender, TypeOK
  <2>. QED
    BY <1>1, <2>1, <2>2, <2>3
<1>2. ASSUME StopBot \/ (chan' = DropSender), \A p \in Pollers : Fresh(p)' <=> Fresh(p),
             server' = server \/ server' # "boot"
      PROVE  BornInv'
  <2>1. \A q \in Pollers : chan'[q] = "none" <=> chan[q] = "none"
    BY <1>2, IdentityAssumption DEF StopBot, DropSender, TypeOK, LifecycleInv, SenderInv
  <2>. QED
    BY <1>2, <2>1
<1>3. ASSUME UNCHANGED chan, \A p \in Pollers : Fresh(p)' <=> Fresh(p),
             server' = server \/ server' # "boot"
      PROVE  BornInv'
  BY <1>3
<1>4. CASE Boot
  BY <1>1, <1>3, <1>4 DEF Boot
<1>5. CASE CtrlC \/ Exit
  BY <1>3, <1>5 DEF CtrlC, Exit
<1>6. CASE ShutdownStop
  BY <1>2, <1>6 DEF ShutdownStop
<1>7. ASSUME NEW p \in Pollers, PollerStep(p)
      PROVE  BornInv'
  <2>1. CASE Epilogue(p)
    BY <1>2, <2>1 DEF Epilogue, TypeOK
  <2>2. ASSUME NEW from \in {"startup", "select", "processing", "backoff", "conflict"},
               NEW to \in {"select", "processing", "backoff", "conflict", "stopped", "failed"},
               Goto(p, from, to)
        PROVE  BornInv'
    BY <1>3, <2>2 DEF Goto, TypeOK
  <2>. QED
    BY <1>7, <2>1, <2>2 DEF PollerStep, DropPendingUpdates, ReceiveUpdates, ProcessUpdates,
       PollError, RetryPoll, PollConflict, GiveUp, ObserveShutdown
<1>8. ASSUME NEW r \in Requests, HardStart(r)
      PROVE  BornInv'
  <2>1. server # "boot"
    BY <1>8 DEF HardStart, LifecycleInv, BootInv
  <2>. QED
    BY <1>1, <1>8, <2>1 DEF HardStart
<1>9. ASSUME NEW r \in Requests, HardStop(r)
      PROVE  BornInv'
  BY <1>2, <1>9 DEF HardStop
<1>10. ASSUME NEW r \in Requests,
              \/ Arrive(r) \/ ReadExisting(r) \/ WriteSettings(r) \/ WriteFails(r)
              \/ AcquireSettings(r) \/ SoftRefresh(r) \/ HardSwap(r) \/ Disconnect(r)
       PROVE  BornInv'
  BY <1>3, <1>10 DEF Arrive, ReadExisting, WriteSettings, WriteFails, AcquireSettings,
     SoftRefresh, HardSwap, Disconnect
<1>11. CASE UNCHANGED vars
  BY <1>3, <1>11 DEF vars
<1>. QED
  BY <1>4, <1>5, <1>6, <1>7, <1>8, <1>9, <1>10, <1>11 DEF Next, RequestStep

\* While no hard apply has come, nor Ctrl-C, a task ends by itself alone.
LEMMA UndisturbedStep ==
  ASSUME TypeOK, LifecycleInv, SoftInv, [Next]_vars, Undisturbed'
  PROVE  \A p \in Pollers : EndedByItself(p)'
<1>1. Undisturbed
  <2>1. \A r \in Requests : req[r] = "idle" \/ ~Hard(kind[r])
    <3>1. ASSUME NEW r \in Requests, Arrive(r)
          PROVE  \A q \in Requests : req[q] = "idle" \/ (req'[q] = req[q] /\ kind'[q] = kind[q])
      BY <3>1 DEF Arrive, TypeOK
    <3>2. ASSUME NEW r \in Requests, RequestStep(r) \/ Disconnect(r)
          PROVE  kind' = kind /\ \A q \in Requests : req'[q] = "idle" => req[q] = "idle"
      BY <3>2 DEF RequestStep, ReadExisting, WriteSettings, WriteFails, AcquireSettings,
         SoftRefresh, HardStop, HardSwap, HardStart, Return, Disconnect, TypeOK
    <3>3. ASSUME Boot \/ CtrlC \/ ShutdownStop \/ Exit \/ (\E p \in Pollers : PollerStep(p))
                 \/ UNCHANGED vars
          PROVE  UNCHANGED reqVars
      BY <3>3 DEF Boot, CtrlC, ShutdownStop, Exit, PollerStep, DropPendingUpdates, ReceiveUpdates,
         ProcessUpdates, PollError, RetryPoll, PollConflict, GiveUp, ObserveShutdown, Goto,
         Epilogue, vars, reqVars
    <3>. QED
      BY <3>1, <3>2, <3>3 DEF Next, reqVars, Undisturbed, Hard
  <2>2. server \in {"boot", "serving"}
    <3>1. ASSUME (\E p \in Pollers : PollerStep(p))
                 \/ (\E r \in Requests : Arrive(r) \/ RequestStep(r) \/ Disconnect(r))
          PROVE  server' = server
      BY <3>1 DEF PollerStep, DropPendingUpdates, ReceiveUpdates, ProcessUpdates, PollError,
         RetryPoll, PollConflict, GiveUp, ObserveShutdown, Goto, Epilogue, Arrive, RequestStep,
         ReadExisting, WriteSettings, WriteFails, AcquireSettings, SoftRefresh, HardStop,
         HardSwap, HardStart, Disconnect
    <3>. QED
      BY <3>1 DEF Next, Boot, CtrlC, ShutdownStop, Exit, vars, Undisturbed
  <2>. QED
    BY <2>1, <2>2 DEF Undisturbed
<1>2. \A p \in Pollers : EndedByItself(p)
  BY <1>1 DEF SoftInv
<1>3. \A r \in Requests : req[r] \notin {"stop", "swap", "start"}
  BY <1>1 DEF SoftInv, PathInv, Undisturbed, Hard
<1>4. ASSUME UNCHANGED <<chan, poller>>, bot'.bot_error = bot.bot_error
      PROVE  \A p \in Pollers : EndedByItself(p)'
  BY <1>2, <1>4 DEF EndedByItself
<1>5. CASE Boot
  <2>1. \A p \in Pollers : chan[p] = "none" /\ poller[p] = "unborn"
    BY <1>5 DEF Boot, SoftInv, BornInv, Fresh
  <2>2. DropSender = chan
    BY <1>5 DEF Boot, DropSender, LifecycleInv, BootInv
  <2>3. \A p \in Pollers : chan'[p] \notin {"sent", "dropped"} /\ poller'[p] # "stopped"
    BY <1>5, <2>1, <2>2 DEF Boot, StartBot, TypeOK
  <2>. QED
    BY <2>3 DEF EndedByItself
<1>6. CASE CtrlC \/ ShutdownStop \/ Exit
  BY <1>6 DEF CtrlC, ShutdownStop, Exit, Undisturbed
<1>7. ASSUME NEW p \in Pollers, PollerStep(p)
      PROVE  \A q \in Pollers : EndedByItself(q)'
  <2>1. CASE Epilogue(p)
    <3>1. poller[p] = "failed"
      BY <1>2, <2>1 DEF Epilogue, EndedByItself
    <3>2. chan[p] = "open"
      BY <1>2, <3>1 DEF EndedByItself, SoftInv, BornInv, Fresh, TypeOK
    <3>3. bot.shutdown_tx = p
      BY <3>2 DEF LifecycleInv, SenderInv
    <3>4. chan' = [chan EXCEPT ![p] = "dropped"]
      BY <2>1, <3>3, IdentityAssumption DEF Epilogue, DropSender
    <3>5. bot'.bot_error /\ poller' = [poller EXCEPT ![p] = "done"]
      BY <2>1, <3>1 DEF Epilogue, TypeOK
    <3>. QED
      BY <1>2, <3>4, <3>5 DEF EndedByItself, TypeOK
  <2>2. ASSUME NEW from \in {"startup", "select", "processing", "backoff", "conflict"},
               NEW to \in {"select", "processing", "backoff", "conflict", "failed"},
               Goto(p, from, to)
        PROVE  \A q \in Pollers : EndedByItself(q)'
    BY <1>2, <2>2 DEF Goto, EndedByItself, TypeOK
  <2>3. CASE ObserveShutdown(p)
    BY <1>2, <2>3 DEF ObserveShutdown, Goto, EndedByItself
  <2>. QED
    BY <1>7, <2>1, <2>2, <2>3 DEF PollerStep, DropPendingUpdates, ReceiveUpdates, ProcessUpdates,
       PollError, RetryPoll, PollConflict, GiveUp
<1>8. ASSUME NEW r \in Requests, Arrive(r) \/ RequestStep(r) \/ Disconnect(r)
      PROVE  UNCHANGED <<chan, poller>> /\ bot'.bot_error = bot.bot_error
  BY <1>3, <1>8 DEF Arrive, RequestStep, ReadExisting, WriteSettings, WriteFails,
     AcquireSettings, SoftRefresh, Snapshot, HardStop, HardSwap, HardStart, Disconnect, TypeOK
<1>9. CASE UNCHANGED vars
  BY <1>4, <1>9 DEF vars
<1>. QED
  BY <1>4, <1>5, <1>6, <1>7, <1>8, <1>9 DEF Next

\* Nothing but a hard apply or Ctrl-C ends a polling task that has not failed.
THEOREM SoftRefreshSparesTheBot == Spec => []OnlyHardApplyStops
<1>1. Init => SoftInv
  BY DEF Init, SoftInv, PathInv, BornInv, Fresh, EndedByItself
<1>2. TypeOK /\ LifecycleInv /\ SoftInv /\ [Next]_vars => SoftInv'
  BY PathInvStep, BornInvStep, UndisturbedStep DEF SoftInv
<1>3. SoftInv => OnlyHardApplyStops
  BY DEF SoftInv, Undisturbed, EndedByItself, OnlyHardApplyStops
<1>. QED
  BY <1>1, <1>2, <1>3, TypeCorrect, LifecycleInvHolds, PTL DEF Spec

(***************************************************************************)
(* The snapshot.  A request that waits for settings_lock will read the row *)
(* again; one that holds it works on the row as it is, or as it was before *)
(* a write whose own request is still waiting.                             *)
(***************************************************************************)
Loaded == {r \in Requests : req[r] \in {"soft", "stop", "swap"}}
Excused == DbMayFail \/ \E r \in Requests :
             req[r] # "idle" /\ (req[r] = "dropped" \/ kind[r] = "save")
Waiting == \E r \in Requests : req[r] = "lock"
UpToDate ==
  /\ \A r \in Loaded : conf[r] = db
  /\ Loaded = {} => bot.app_settings = db

SnapshotInv == Excused \/ Waiting \/ UpToDate

LEMMA SnapshotInvStep ==
  TypeOK /\ LifecycleInv /\ SnapshotInv /\ [Next]_vars => SnapshotInv'
<1> SUFFICES ASSUME TypeOK, LifecycleInv, SnapshotInv, [Next]_vars, ~Excused'
             PROVE  Waiting' \/ UpToDate'
  BY DEF SnapshotInv
<1>. USE DEF reqVars
<1>1. CASE UNCHANGED <<db, reqVars>> /\ bot'.app_settings = bot.app_settings
  BY <1>1 DEF SnapshotInv, Excused, Waiting, UpToDate, Loaded
<1>2. ASSUME NEW r \in Requests, Arrive(r) \/ ReadExisting(r)
      PROVE  Waiting' \/ UpToDate'
  <2>1. /\ UNCHANGED <<db, bot>> /\ Loaded' = Loaded
        /\ \A q \in Loaded : conf'[q] = conf[q]
        /\ Waiting => Waiting'
        /\ Excused => Excused'
    BY <1>2 DEF Arrive, ReadExisting, TypeOK, Loaded, Waiting, Excused
  <2>. QED
    BY <2>1 DEF SnapshotInv, UpToDate
<1>3. ASSUME NEW r \in Requests, WriteSettings(r) \/ WriteFails(r)
      PROVE  Waiting' \/ UpToDate'
  BY <1>3 DEF WriteSettings, WriteFails, TypeOK, Waiting, Excused
<1>4. ASSUME NEW r \in Requests, AcquireSettings(r)
      PROVE  Waiting' \/ UpToDate'
  <2>1. conf'[r] = db /\ db' = db /\ r \in Loaded'
    BY <1>4 DEF AcquireSettings, TypeOK, Loaded, Excused
  <2>2. \A q \in Loaded' : q = r
    BY <1>4, IdentityAssumption
       DEF AcquireSettings, TypeOK, Loaded, LifecycleInv, SettingsExclusive, Critical
  <2>. QED
    BY <2>1, <2>2 DEF UpToDate
<1>5. ASSUME NEW r \in Requests, SoftRefresh(r) \/ HardSwap(r)
      PROVE  Waiting' \/ UpToDate'
  <2>1. \A q \in Loaded : q = r
    BY <1>5 DEF SoftRefresh, HardSwap, Loaded, LifecycleInv, SettingsExclusive, Critical
  <2>2. r \in Loaded /\ Loaded' = {}
    BY <1>5, <2>1 DEF SoftRefresh, HardSwap, Return, Loaded, TypeOK
  <2>3. /\ bot'.app_settings = conf[r] /\ UNCHANGED <<db, conf, kind>>
        /\ Waiting => Waiting'
        /\ Excused => Excused'
    BY <1>5 DEF SoftRefresh, HardSwap, Return, Snapshot, TypeOK, Waiting, Excused
  <2>. QED
    BY <2>2, <2>3 DEF SnapshotInv, UpToDate
<1>6. ASSUME NEW r \in Requests, HardStop(r) \/ HardStart(r)
      PROVE  Waiting' \/ UpToDate'
  <2>1. bot'.app_settings = bot.app_settings
    BY <1>6 DEF HardStop, HardStart, StopBot, StartBot, TypeOK
  <2>2. /\ UNCHANGED <<db, conf, kind>> /\ Loaded' = Loaded
        /\ Waiting => Waiting'
        /\ Excused => Excused'
    BY <1>6 DEF HardStop, HardStart, Return, TypeOK, Loaded, Waiting, Excused
  <2>. QED
    BY <2>1, <2>2 DEF SnapshotInv, UpToDate
<1>7. ASSUME NEW r \in Requests, Disconnect(r)
      PROVE  Waiting' \/ UpToDate'
  BY <1>7 DEF Disconnect, TypeOK, Excused
<1>8. CASE Boot \/ CtrlC \/ ShutdownStop \/ Exit \/ \E p \in Pollers : PollerStep(p)
  <2>1. UNCHANGED <<db, reqVars>>
    BY <1>8 DEF Boot, CtrlC, ShutdownStop, Exit, PollerStep, DropPendingUpdates, ReceiveUpdates,
       ProcessUpdates, PollError, RetryPoll, PollConflict, GiveUp, ObserveShutdown, Goto, Epilogue
  <2>2. bot'.app_settings = bot.app_settings
    BY <1>8 DEF Boot, StartBot, CtrlC, ShutdownStop, StopBot, Exit, PollerStep,
       DropPendingUpdates, ReceiveUpdates, ProcessUpdates, PollError, RetryPoll, PollConflict,
       GiveUp, ObserveShutdown, Goto, Epilogue, TypeOK
  <2>. QED
    BY <1>1, <2>1, <2>2
<1>9. CASE UNCHANGED vars
  BY <1>1, <1>9 DEF vars
<1>. QED
  BY <1>2, <1>3, <1>4, <1>5, <1>6, <1>7, <1>8, <1>9 DEF Next, RequestStep

\* When all requests are over the snapshot is the saved row, however their
\* writes and applies were interleaved.
THEOREM SnapshotIsFresh == Spec => []SnapshotFresh
<1>1. Init => SnapshotInv
  BY DEF Init, SnapshotInv, UpToDate, Loaded
<1>2. SnapshotInv => SnapshotFresh
  BY DEF SnapshotInv, SnapshotFresh, Excused, Waiting, UpToDate, Loaded, Quiescent, Finished
<1>. QED
  BY <1>1, <1>2, SnapshotInvStep, TypeCorrect, LifecycleInvHolds, PTL DEF Spec

(***************************************************************************)
(* The life cycle implements the supervisor.                               *)
(***************************************************************************)
AliveSet == {p \in Pollers : Live(p)}
RetiredSet == {p \in Pollers : poller[p] = "done"}

LEMMA SpawnStep ==
  ASSUME TypeOK, bot.shutdown_tx = None, NEW p \in Pollers, StartBot(p)
  PROVE  Supervisor!Spawn(p)
<1>1. bot'.shutdown_tx = p
  BY DEF StartBot, TypeOK
<1>2. p \notin AliveSet \cup RetiredSet
  BY DEF StartBot, Fresh, Live, AliveSet, RetiredSet
<1>3. AliveSet' = AliveSet \cup {p} /\ RetiredSet' = RetiredSet
  BY DEF StartBot, Fresh, TypeOK, Live, AliveSet, RetiredSet
<1>. QED
  BY <1>1, <1>2, <1>3 DEF Supervisor!Spawn, AliveSet, RetiredSet

LEMMA RelieveStep ==
  ASSUME TypeOK, StopBot, UNCHANGED poller
  PROVE  Supervisor!Relieve \/ UNCHANGED Supervisor!svars
<1>1. bot'.shutdown_tx = None
  BY DEF StopBot, TypeOK
<1>2. AliveSet' = AliveSet /\ RetiredSet' = RetiredSet
  BY DEF AliveSet, RetiredSet, Live
<1>. QED
  BY <1>1, <1>2 DEF Supervisor!Relieve, Supervisor!svars, AliveSet, RetiredSet

LEMMA EndStep ==
  ASSUME TypeOK, NEW p \in Pollers, Epilogue(p)
  PROVE  Supervisor!End(p)
<1>1. bot'.shutdown_tx = None
  BY DEF Epilogue, TypeOK
<1>2. p \in AliveSet
  BY DEF Epilogue, Live, AliveSet
<1>3. AliveSet' = AliveSet \ {p} /\ RetiredSet' = RetiredSet \cup {p}
  BY DEF Epilogue, TypeOK, Live, AliveSet, RetiredSet
<1>. QED
  BY <1>1, <1>2, <1>3 DEF Supervisor!End, AliveSet, RetiredSet

\* Every step of the life cycle is a step of the supervisor or leaves it alone:
\* in particular, tasks are started one after the other and never twice.
LEMMA SupervisorStep ==
  TypeOK /\ LifecycleInv /\ [Next]_vars => [Supervisor!Next]_(Supervisor!svars)
<1> SUFFICES ASSUME TypeOK, LifecycleInv, [Next]_vars
             PROVE  Supervisor!Next \/ UNCHANGED Supervisor!svars
  OBVIOUS
<1>1. CASE Boot
  <2>1. CASE bot.bot_ready
    BY <1>1, <2>1, SpawnStep DEF Boot, LifecycleInv, BootInv, Supervisor!Next
  <2>2. CASE ~bot.bot_ready
    BY <1>1, <2>2 DEF Boot, Live, Supervisor!svars
  <2>. QED
    BY <2>1, <2>2
<1>2. CASE ShutdownStop
  BY <1>2, RelieveStep DEF ShutdownStop, Supervisor!Next
<1>3. ASSUME NEW p \in Pollers, PollerStep(p)
      PROVE  Supervisor!Next \/ UNCHANGED Supervisor!svars
  <2>1. CASE Epilogue(p)
    BY <2>1, EndStep DEF Supervisor!Next
  <2>2. ASSUME NEW from \in {"startup", "select", "processing", "backoff", "conflict"},
               NEW to \in {"select", "processing", "backoff", "conflict", "stopped", "failed"},
               Goto(p, from, to)
        PROVE  UNCHANGED Supervisor!svars
    <3>1. AliveSet' = AliveSet /\ RetiredSet' = RetiredSet
      BY <2>2 DEF Goto, TypeOK, Live, AliveSet, RetiredSet
    <3>. QED
      BY <2>2, <3>1 DEF Goto, Supervisor!svars, AliveSet, RetiredSet
  <2>. QED
    BY <1>3, <2>1, <2>2 DEF PollerStep, DropPendingUpdates, ReceiveUpdates, ProcessUpdates,
       PollError, RetryPoll, PollConflict, GiveUp, ObserveShutdown
<1>4. ASSUME NEW r \in Requests, HardStop(r)
      PROVE  Supervisor!Next \/ UNCHANGED Supervisor!svars
  BY <1>4, RelieveStep DEF HardStop, Supervisor!Next
<1>5. ASSUME NEW r \in Requests, HardStart(r)
      PROVE  Supervisor!Next \/ UNCHANGED Supervisor!svars
  BY <1>5, SpawnStep DEF HardStart, LifecycleInv, StoppedInv, Supervisor!Next
<1>6. CASE UNCHANGED poller /\ bot'.shutdown_tx = bot.shutdown_tx
  BY <1>6 DEF Live, Supervisor!svars
<1>7. ASSUME CtrlC \/ Exit \/ UNCHANGED vars \/ \E r \in Requests :
               \/ Arrive(r) \/ ReadExisting(r) \/ WriteSettings(r) \/ WriteFails(r)
               \/ AcquireSettings(r) \/ SoftRefresh(r) \/ HardSwap(r) \/ Disconnect(r)
      PROVE  UNCHANGED poller /\ bot'.shutdown_tx = bot.shutdown_tx
  BY <1>7 DEF CtrlC, Exit, vars, Arrive, ReadExisting, WriteSettings, WriteFails,
     AcquireSettings, SoftRefresh, HardSwap, Snapshot, Disconnect, TypeOK
<1>. QED
  BY <1>1, <1>2, <1>3, <1>4, <1>5, <1>6, <1>7 DEF Next, RequestStep

\* The refinement: the life cycle, seen through the sender in bot_state, is a
\* supervisor that has one task in charge at a time.
THEOREM ImplementsSupervisor == Spec => SupervisorSpec
<1>1. Init => Supervisor!Init
  BY DEF Init, Live, Supervisor!Init
<1>. QED
  BY <1>1, SupervisorStep, TypeCorrect, LifecycleInvHolds, PTL
     DEF Spec, SupervisorSpec, Supervisor!Spec
=============================================================================
