# Formal model of IoTCmpt

TLA+ modules, TLC configurations and TLAPS proofs for the IoTCmpt system: ESP32-S3
firmware in a room, an MQTT v2 broker, a FastAPI gateway on PostgreSQL, AI worker
processes, and a Next.js console.

    firmware  <-- MQTT v2: status, telemetry, commands, ACKs -->  gateway
    gateway   <-- HTTP / WebSocket -->  console
    gateway, AI workers  <-- PostgreSQL tables used as queues -->  each other
    AI worker --- MCP control calls --> gateway (creates commands)

Paths below are relative to the repository. `PROJECT.json` maps every definition to
the lines it models.

## 1. Inventory

Each entry: state kept, operations, interaction, what is hard, what makes it correct.
Hazards with their lines and the properties about them are in `PROJECT.json`.

**AI run queue** (`server/app/adapters/job_store.py`, `persistence.py`). State: table
`ai_runs` (status, owner, token, lease, attempts, available_at, cancel flag). Operations:
create, cancel, claim, renew, transition, complete, fail, recover expired. Hard: every
operation but the claim SELECTs and UPDATEs without a row lock, and leases run out under
a live worker. Correct when one claim at a time executes a run, a result is the holder's,
attempts are bounded and every run ends.

**AI worker** (`adapters/ai_worker.py`). State: the run in hand, its token, a heartbeat task,
the position in the model's tool loop. Hard: a crash between a control call and the end of
the run; a heartbeat that renews from its own thread. Correct when a worker that lost its
lease stops.

**Command lifecycle and outbox** (`adapters/outbox.py`, `persistence.py`,
`services/telemetry.py`). State: tables `commands` and `outbox_messages`. The dispatcher is a
task of the event loop, ACKs come on the MQTT loop's thread. Hard: a record and an ACK of
one command at the same time; a restart between publish and record; late ACKs. Correct
when no command is lost between the tables, a status goes back only where a transaction was
overtaken, and every command ends.

**Automation plans and strategies** (`adapters/automation_plans.py`,
`domain/automation_plans.py`). State: plans, versions, rule states, strategies. Operations:
draft, activate, pause, resume, cancel, propose, reject, approve, behind a lock of the
device's row; the runtime writes plan and rule rows without it. Correct when at most one
user plan is in force, a version is one approval of the version before, and an approval
does not forget what fired.

**Automation runtime and admission guard** (`services/automation_runtime.py`,
`persistence.py` guard_command). State: claims, rule states, commands, retries. Operations: evaluate
on telemetry, on a tick, on a request; reconcile with each answer of the device whose command
has ended, also when it is late or repeated. Hard: several triggers, requests beside an evaluation, a
crash between its transactions. Correct when a
delay fires once, a rule has one command on its way, users' rules go before the system's,
claims are released and a rule that holds is tried again.

**Device ingress** (`services/mqtt.py`, `mqtt_ingest.py`, `telemetry.py`, `events.py`,
`main.py`). State: inbox of message ids, status, samples, events. Hard: redelivery,
retained messages, partial commits, the last will. Correct when a message takes effect
once and the status shown is true in the end.

**Realtime relay, WebSocket, web event reducer** (`adapters/realtime.py`,
`services/websocket.py`, `web/src/lib/ws-dispatcher.ts`, `web/src/hooks`). State: table of events with
leases; sockets; the browser's query cache. Hard: events late, twice or lost; POST
answers, refetches and events in any order. Correct when the browser keeps the end of a
command it has seen and clears what is pending.

**Runtime leases, patrol scheduler, triggers** (`job_store.py`, `ai_worker.py`,
`domain/automation.py`, `adapters/triggers.py`). State: one lease row, the policy, fingerprints
of what a run has seen. Hard: two schedulers at the end of a lease, check-then-insert of
runs. Correct when one patrol is queued at a time and an incident is seen by a run.

**Presence, posture, sedentary detection** (`services/images.py`, `pose.py`, `presence.py`,
`posture.py`, `sedentary.py`). State: images, results, hysteresis of tracker and smoother,
reminders. Hard: pruning of the rows a decision reads, failures of a model, restarts. Correct
when who sits too long is reminded and nobody else.

**Firmware control: alarm, window, LED** (`firmware/esp32s3/main/state/control_state.c`,
`actuators/actuators.c`, `main.c`, `inputs/inputs.c`, `voice/voice.c`). State: alarm sources,
silence, episode, warning queue, priority (RAM and flash), overrides, targets. Hard: a mutex
guards each access but not a sequence of them; three tasks drive buzzer, window and voice.
Correct when the buzzer settles on what is due, a silence is of one episode, warnings
repeat, the priority survives restarts and manual targets are reached.

**Firmware command path** (`mqtt_app.c`, `main.c`). State: command queue, ring of terminal
ACKs in RAM and flash. Hard: two tasks write the ring without a lock; redelivery; restart
between the writes. Correct when a command executes once and has one answer.

**Firmware simulator** (`tools/firmware_simulator`). State: the process, its connection tasks,
queues, the cache of terminal ACKs, `nvs.json`. Hard: tasks cancelled with a message in hand,
failed writes, redelivery. Correct when the broker learns of each smoke episode in order
and an accepted command is answered.

**Not modelled**: firmware sensing, fusion, camera and display; web console; HTTP API and MCP;
reports, analysis, notifications and voice commands; schema and migrations; data manager;
panel, configuration and contract generation. Section 6 says why.

## 2. What is modelled

| Module | Component | State | Actions |
|---|---|---|---|
| `AiRuns` | AI run queue and worker | `runs`, `commands` of control calls; per worker: loop, open transaction, heartbeat; the API's cancel | Create, Begin/CommitCancel, Begin/CommitRecover, Claim, BeginTransition, BeginComplete, BeginFail, CommitOwned, CheckCall, SendCall, Begin/CommitRenew, Crash, clock |
| `CommandOutbox` | command lifecycle | `command`, `outbox`; per gateway the dispatcher and its transaction; the ACK transaction; `downlink` | Create, Begin/CommitExpire, Claim, Publish, Begin/CommitRecord, Begin/CommitAck, Interrupt, clock |
| `LeasedWork` | abstract: AI runs, outbox rows, realtime rows | state, holder, result of an item | Add, Grant, Close, Release |
| `AutomationPlans` | plans and strategies | plans, versions, rule rows, strategies, open requests, the runtime's read | CreatePlan, Activate, Pause, Resume, Cancel, Propose, Reject, ApproveNew, ApproveVersion, EnsureSystemPlan, RuntimeFire, RuntimeEnd |
| `AutomationRuntime` | runtime and guard | plans, observation, rule rows, commands, claims, per task the evaluation it is in | Telemetry, Tick, Collect, CommitCollected, guard, create, record, Reconcile, CommandEnds, Pause, Resume, Cancel, Crash |
| `DeviceIngress` | MQTT ingest | device, retained, wire, gateway's message in hand, tables | Device, GatewayConnect, Handle (Take, Store, Effect, Follow), StoreFails, GatewayDisconnect, Crash |
| `LiveUpdates` | relay, sockets, reducer | command rows, event rows, relays, notices not yet told, envelopes inbound, browser | Post, IngestAck, GiveUp, TellChanged, Relay, BroadcastAck, OpenSocket, Receive, Fetch, Refetch, Drop, RestartGateway, Fail |
| `AiTriggers` | scheduler, triggers | policy, world, runs, lease, ticks, calls | Schedule, Call, Work, Fail, Toggle, WorkerCrash, intervals |
| `Perception` | images to reminders | images, poses, reminders, queue, worker, tracker, smoother | Upload, TakeImage, AnalyseAgain, Record, Lose, Remind, NotDue, Second |
| `Monitoring` | Perception composed with AiTriggers | both | a result changes what a patrol sees, a reminder is an incident, the gateway restarts |
| `SmokeAlarm` | alarm half of firmware control | sources, silence, buzzer, tasks, warning queue, pending bit, announcer | one action per step of a task between two uses of the mutex, the queue or the output |
| `WindowControl` | window half | priority and its flash copy, overrides, targets, smoke, actuator task | the same for window, LED and priority commands, PressButton, SmokeChanges, Restart |
| `DeviceCommands` | firmware command path | MQTT and actuator task, queue, ring, index, flash | Deliver, Enqueue, Receive, Apply, Publish, Record, Fill, Advance, SaveRing, SaveIndex, Expire, Restart |
| `FirmwareSimulator` | simulator | process, link, what each task holds, three queues, cache, `nvs.json`, model, broker's retained status | Connect, Subscribe, Receive, TakeCommand, Execute, TakeAck, PublishAck, TakeEvent, PublishEvent, SafetySample, StopConnection, End, Environment |

The MC modules hold constants and symmetry sets. Eight modules hold theorems:
`AiRunsProofs`, `CommandOutboxProofs`, `AutomationPlansProofs`, `AutomationRuntimeProofs` and
`DeviceCommandsProofs` are about the module they are named for, `FirmwareProofs` about
SmokeAlarm, WindowControl and FirmwareSimulator, `MonitoringProofs` about Monitoring and the
two modules it composes, `GatewayProofs` about DeviceIngress and LiveUpdates. Modules proved
in one place have names of their own for what every module has: AlarmInit, WindowSpec,
LiveNext.

### How code becomes actions

*Database transactions.* Under READ COMMITTED a transaction that SELECTs, decides
and UPDATEs by primary key is two actions: Begin... (what it read and decided) and
Commit... (the columns the ORM writes, applied to the row as it is by then). A
statement that takes its rows with FOR UPDATE (SKIP LOCKED) is one action, and so is a
transaction that nothing else conflicts with. An assignment of the value a column
already has writes nothing, as in SQLAlchemy.

*Tasks of the firmware.* A step reads or writes under the mutex once, or waits for a
queue, or drives an output. Between two steps any other task may run. The handler of
an MQTT message runs under the lock of esp-mqtt's client, which
`esp_mqtt_client_publish` takes as well (a property of that library, taken from its API):
`ClientIsFreeFor` is its guard.

*asyncio tasks.* A step is what a task does between two awaits; a task may be cancelled at
an await, with what it holds.

*Time.* A deadline is an "unset, running, elapsed" value; an action lets it pass. Only
deadlines that something still waits for pass. Only `Perception` counts time, in units
of which an analysis takes at least one.

*Data.* A command, run or message is its id. Payloads, wording, trace rows and twin rows
are left out. What a model sees in an image, and which condition rules an observation
matches, is chosen from the scene. Rows and tasks that the code takes in no defined order are
a set: the changes a dispatcher has yet to tell and the rows of a claimed batch (LiveUpdates), the
results of poses (Perception).

*Scenes.* Where many kinds of fault interact, the constant `Scenes` (LiveUpdates: `LiveScenes`) is a set of records that say
what may happen in a behaviour and how often; the first state chooses one. The
properties hold in all of them. The faults of a scene are those whose combination can matter;
a scene with all of them would have too many states.

*Definitions named by a mutant.* Each property has a mutant: a definition beside the
original, under the comment "Mutant:", with a mistake such code could contain (a lost guard, a
missing reset, an order swapped). It is used by no specification; it exists to show that the
property fails when the code is wrong.

### Assumptions that are parameters

* `Prompt` (AiRuns). TRUE: a transaction ends before the lease it checked runs out
  (`ai_worker_lease_seconds` is 90 and at least 30, transactions take milliseconds). FALSE: a
  worker may pause anywhere.
* `Serial` (CommandOutbox). TRUE: no other transaction runs while one is open. FALSE:
  transactions of the dispatcher and of the MQTT thread overlap, as they do in the code. Only the
  refinement of LeasedWork needs TRUE.
* Two gateways occur only as a rolling restart; `docs/architecture.md` describes one process.

## 3. Runs

| Run | Question | Distinct states |
|---|---|---|
| `ai_prompt` | Two workers, expiries, a crash, a cancel: are claims exclusive and results the holder's, does the table implement leased work, does every run end? | 171,738 |
| `outbox_serial` | Two gateways that take rows from each other: does the outbox implement leased work? | 42,103 |
| `outbox_races` | Overlapping transactions and interruptions: is a command lost between the tables, what takes a command back or overwrites its end, does every command end? | 49,335 |
| `automation_plans` | Two clients beside the runtime: at most one user plan in force, versions that are one approval of the version before, firings that are kept? | 1,077,598 |
| `automation_runtime` | Ten scenes of rules, requests, restarts, refusals, repeated answers: does a delay fire once, has a rule one command on its way, does the system yield to the user, are claims released, does a rule that holds go on trying, and not for ever? | 76,420 |
| `device_ingress` | Six scenes of redelivery, outages, restarts, failed transactions: one effect per message, a true status in the end? | 27,143 |
| `live_updates` | Seven scenes of ACKs, restarts, broken connections, stalls, a second gateway: does the browser keep the end it has seen and clear what is pending, are rows leased work? | 101,531 |
| `monitoring` | Eleven scenes of images and of triggers: reminders earned and given, postures confirmed, one scheduled run, incidents seen? | 193,062 |
| `smoke_alarm` | Three tasks: silences of one episode, a buzzer that settles, a warning that repeats? | 128,784 |
| `window_control` | Commands, presses, failed flash writes, restarts: is the priority stored, are manual targets reached? | 45,462 |
| `device_commands` | Redelivery, both tasks on the ring, one restart: executed once, "accepted" first, one answer, always answered? | 531,693 |
| `firmware_simulator` | Seven scenes of deliveries, lost connections, failed writes, stops, kills, smoke: has the broker heard last whether the episode goes on, is an accepted command answered? | 117,682 |

Every run takes about two minutes or less with two workers.

### Bounds and why they are enough

* `ai_prompt`: two workers, one run, two attempts, one crash, and a run that its user may
  cancel or not (chosen at its creation). Rows are independent but for the recovery that takes
  all expired ones at once, and a claim concerns one row; the conflicts are between two
  workers about a row. Two attempts let a run be lost or fail and be the last attempt.
  With three attempts and three times the states the result is the same. A cancelled
  run is not part of the refinement (section 4, item 7), but of the other properties.
* `outbox_serial`: one command; two gateways that take it from each other; two attempts
  (a retry and the last); two interruptions, so that a row is abandoned twice.
  `outbox_races`: one gateway, three attempts, two interruptions. The transactions that overlap are
  one of the dispatcher and one of an ACK; two gateways whose transactions overlap (1,048,726
  states) give the same result for the safety properties. A batch works its rows one by one, so rows do not influence each other but for the time the dispatcher spends,
  which is unbounded here.
* `automation_plans`: two user plans (one replaces the other), two strategies (the second is
  approved on a base that the first has changed), two clients, three versions, three requests that
  write, any number of steps of the runtime between two of their transactions.
* `automation_runtime`: one actuator and the rules that can compete for it: a system
  condition, two user conditions of opposite commands, a delay, a delay without actuator, an interval.
  A task of the MQTT loop and one for all others, as the lock of the device admits one at a
  time. `MaxCommands` 4 bounds the commands that something still refers to; in no state does a
  creation find all of them taken. One retry instead of three lets retries be used up. `repeats` of a
  scene bounds the answers that come to a command which has ended: two, so that one comes after the
  retries are used up as well.
* `device_ingress`: two event types, of which one triggers runs, and six messages.
* `live_updates`: two commands; two gateways while one replaces the other; caches of two event ids
  (256 in the code) and one envelope inbound. The rows of a behaviour are at most four, which the
  scenes do not exceed. The LIMIT of a claim (50) is never reached.
* `monitoring`: two workers; sensor levels 0 to 2 with a change at a difference of 2, so that a
  slow drift goes unseen; a sitting of three units of time with results at most one unit apart, and up to eight
  uploads; three misses and two hits are the code's.
* `smoke_alarm`: two commands, three voice attempts (the code's limit). Smoke comes and goes
  without bound. `window_control`: three commands, so that a change of priority stands between
  two others; two restarts, one inside a priority change and one after it.
* `device_commands`: two commands, three deliveries, a queue of one and a ring of two (4 and 16
  in the code; a full queue and a wrapped ring are what matters), one interruption, which is
  a restart or a publish that fails. `firmware_simulator`: a queue and a cache of one.

Deadlock is not checked where a behaviour ends when the chances of its scene are used up;
the liveness properties of these runs check that it does not end earlier. It is
checked in `ai_prompt`, both outbox runs, `smoke_alarm` and `window_control`.

### Fairness

* AiRuns: a polling worker polls, a commit that began ends, a backoff passes, a lease
  that nobody holds runs out (weak fairness). Leaving the tool loop is strongly fair,
  because the loop has `ai_tool_max_rounds` and the model has not. Nothing forces a
  live worker to lose its lease, nor a run to be created.
* CommandOutbox: the dispatcher task runs again and again (its loop catches every exception)
  and deadlines pass. Strong fairness, since another gateway or an open transaction may
  disable a step in between. ACKs need not arrive, publishes need not succeed.
* AutomationRuntime: the evaluation that holds the lock goes on (weak); a task that waits for the
  lock gets it and telemetry keeps coming (strong: asyncio.Lock is first come, first
  served, and devices report periodically); a collect does not fail for ever. Requests, ticks
  and answers need not come.
* DeviceIngress: the gateway reconnects and handles what it has. LiveUpdates: relays,
  notices, broadcasts, requests, reconnection, receiving and refetching go on, and the outbox gives
  up on open commands (`outbox_races`). Monitoring: schedulers tick, calls return, runs
  are worked on, intervals and leases end; no image has to come.
* SmokeAlarm, WindowControl, DeviceCommands, FirmwareSimulator: each task is scheduled again and
  again, and running timers run out. Commands, smoke, presses and deliveries need not happen.

### Properties outside the runs

These are defined beside the others and hold with the constants of the run of their module; they are
shallower than what the runs check.

* Proved as well: the type invariant of every module (AlarmTypeOK, WindowTypeOK, LiveTypeOK and so on)
  but FirmwareSimulator; AttemptsBounded, ActiveIsLeased, EndedIsFinal, OpenTxnFenced
  (AiRuns); PendingIsOneWarning (SmokeAlarm); AutoFirstOverridesNothing (WindowControl);
  LiveIsExecutable (AutomationPlans); AlarmAgrees, StoppedIsOffline (FirmwareSimulator);
  PendingIsOpen, FeedShowsOnce (LiveUpdates).
* Only checked by TLC: AttemptsBounded, ExpiredIsNotSent, OutboxDrains (CommandOutbox);
  ClaimIsOwnOrGone, PlanEnds (AutomationRuntime); TypeOK, AnswersAgree, NvsIsCurrent
  (FirmwareSimulator); EventuallyDelivered (LiveUpdates); CapabilityIsCurrent, StoredIsFollowed
  (DeviceIngress); EventRunsBounded, ChangeIsLookedAt, ForcedIsLookedAt (AiTriggers);
  PosesHaveImages, OneReminderPerSitting, PresenceIsSustained (Perception).

## 4. What the models found

Statements of a document that the code does not keep. Each is a property that TLC refutes
with the constants given; the others are as in the run of the module.

1. `EveryRunEnds` (MCAiRuns; Prompt = FALSE, Cancellable = {}, MaxCrashes = 0).
   `transition` updates by primary key after its check, so a worker that pauses in between sets an
   active status on a row that recovery requeued; its lease is NULL then, and recovery never
   finds the row again. `docs/architecture.md:94`: "a paused old Worker cannot resume".
2. `NoSecondHardwareCommand` (MCAiRuns; Labels = {l1, l2}). The idempotency key is the position
   of the call in the conversation, so the same action reached in another round of a retry
   is a second command; `server/README.md:26` excludes it.
3. `ResultOutlivesRecord` (MCCommandOutbox; Serial = FALSE, one gateway, MaxAttempts = 1). A publish
   recorded from a status read before the ACK was stored writes "published" over "executed".
   So does a final failed publish with "failed", and an ACK that read before a timeout committed.
   OnlyOvertakenGoBack says that nothing else does.
4. `SmokeVetoesClosing` (WindowControl; MaxCommands = 1, MaxRestarts = 0). The veto is a check of the
   command `window.close`; the button's manual target and a restart do not pass it
   (`docs/architecture.md:37`).
5. `RedeliveryExecutesOnce` (DeviceCommands; Commands = {c1}, QueueLength = 2, MaxDeliveries = 2).
   The ring knows a command after it was answered; a redelivery before that is queued again
   (`docs/protocol-mqtt.md:53`).
6. `ReplacementIsGranted` (MCAutomationPlans). The session does not flush before the query for the
   active plan, so a request that replaces it is refused because of the plan it replaces.
   `UserConditionOwns` (MCAutomationRuntime; Scenes <- MCTickScenes). A tick evaluates without the
   conditions and releases the claims they hold (`docs/architecture.md:35`).
7. A cancel that read "queued" is written over the row that a worker has claimed, and a later
   commit of that worker may set the run active again. ImplementsLeasedWork leaves runs
   that a user cancels out.

Behaviours that no document speaks of, or that a property must except:

* Commands. A row left "publishing" by a stopped gateway is published again after its command has
  expired; the device checks expires_at. The control call of a worker goes out after its ownership
  check, in a call that does not see the lease.
* Automation. Retries of rules without actuator (voice, display) are never sent. A delay that is
  blocked, or whose evaluation crashes after its first commit, stays "firing". A delay-only
  plan that is paused when its last ACK comes is not finished. A crash between the
  creation and the note of a command allows a second one for a new observation
  (OneOpenCommand counts it). With no active plan, stale claims stay (ClaimReleased excepts it). The rule
  of a command that the outbox expires, fails or times out is told by a late ACK only. Each answer to a
  command that has ended, late or repeated under a new message id, is reconciled again: it
  uses up one more retry of the rule, or clears them when the command was executed, and `retry_count` has
  no cap (RetriesAreBounded counts such answers). Guard and creation are separate
  transactions.
* Ingress. After a committed inbox row a failed or crashed second transaction loses the sample or event for good:
  its redelivery is a duplicate. The firmware's will has one id per boot, so the second disconnect of a boot
  is ignored (StatusIsTrue excepts it). With a clean session, what is not retained is lost
  while the gateway is away.
* Live updates. On reconnect only the newest command is looked up; others whose end was missed stay pending
  (`missed`; `docs/protocol-websocket.md:31` speaks of the list). A POST answer that
  comes after that lookup adds a pending entry again. With two gateways a relay reaches only its own sockets.
  A notice is lost when the process stops after the commit.
* Monitoring. With 100 images kept and a threshold of 7200 s, a vision interval below about 144 s prunes
  the start of the sitting, and the reminder never comes (SitterIsReminded excepts pruning).
  A torso without legs counts as seated. A patrol's view is wrong until the force interval when a state
  changes there and back. Two callers may each insert an event run. A crash between a
  reminder's commit and its run loses the run. PatrolScheduler.enqueue_event in
  `ai_worker.py` duplicates `adapters/triggers.py` and is not called.
* Firmware. Two tasks may record a terminal ACK at once and take the same slot; ExecutedOnce leaves such commands
  out. Expiry is checked before the ring: a command executed in time is answered as expired when
  it comes again. A warning of a new episode is not queued before the announcer has cleared
  the pending bit of the last one; WarningRepeats is what holds. An automatic command that has
  passed its check clears the override of a press just after it. A restart closes the window without
  looking at the smoke sensor.
* Simulator. A publish that times out, or a status.json that cannot be written, leaves the connection by
  a clean DISCONNECT: there is no last will, and the broker retains "online" until the next connection,
  which never comes when the supervisor ended (StoppedIsOffline excepts it: `abrupt`).
  CancelledError is not an Exception, so an ACK or event in hand is dropped when another
  task fails first; a requeue at the tail reorders smoke events. A failed write ends the executor or the
  supervisor for good. A silence that lands between telemetry's sampling and the safety
  loop lets an episode begin silenced and never be announced.

## 5. Proofs

All proofs are checked by TLAPS for every value of the constants that satisfies the module's
ASSUME. Each invariant theorem has the same shape: the strengthened invariant holds initially,
one step per action preserves it, and it implies the property. An action property follows from
the same invariant, once for each action.

* `AiRunsProofs`. TypeCorrect and ClaimsAreExclusive need no assumption on timing.
  ClaimsExclusive is not inductive: TokenInv adds that every token in a row or with a worker is
  below `nextToken`, so that the next claim's token is fresh. The other updates keep owner and
  token of a row or clear the token (TokenKeptOrCleared), so they cannot make a second holder.
  TransactionsAreFenced and ResultsAreFenced assume `Prompt`; FenceInv adds that the lease of a
  run with an open owned transaction is live, and that a run with an open recovery has none that
  is live, is not due and has no open renewal: recovery, claim and owned operation then never
  meet on a row. QueueInv adds what a row of each status looks like (RowInv), that what open
  transactions decided about attempts still holds (DecisionInv), and that an open cancel is of
  an unwanted run (CancelInv). From it follow AttemptsAreBounded, ActiveRunsAreLeased,
  EndsAreFinal and RunsAreLeasedWork: the queue takes only steps of LeasedWork.
* `CommandOutboxProofs`. TypeCorrect with HandInv (a dispatcher that records has a row).
  QueuedKeepsItsRow proves QueuedIsInOutbox without assuming `Serial`. CreatedInv adds that
  rows, batches and open expiries are about created commands; OpenInv that an open expiry
  cancels only rows of commands it expires, and that an open record which takes the row out of
  the queue either takes the command along or found it no longer queued. CreatedStep is the
  reason why this stays true while other transactions commit: only its creation queues a
  command. OvertakenAlone proves OnlyOvertakenGoBack without `Serial` either, with ReadInv: what an
  open transaction will write follows from the statuses it read, so one that was not overtaken
  moves a command forward or leaves it. OutboxIsLeasedWork assumes `Serial`. SerialInv adds
  that at most one transaction is open (Alone) and that what it read is still so when it commits
  (ExpiryStands, RecordStands, AckStands), which is exactly what overlapping transactions break;
  HeldInv ties owner and token of a row to its status.
* `AutomationPlansProofs`. OnePlanInForce with LockInv: one request is open at a time; among the
  rows it read at most one user plan is in force, and one in force now was so when it read (the
  runtime ends plans without the lock, it never starts one). PlansInv adds what an open request
  may rely on although the runtime writes meanwhile (ReaderInv: a draft it read is a draft, what
  it read in force can run) and what a plan's and a strategy's versions have in common (PlanInv,
  StrategyInv). From it: PlansInForceCanRun, ApprovalsAreVersions, FiringsStand.
* `AutomationRuntimeProofs`. Inv is inductive, a conjunction of what the evaluations keep
  between them and what the rows and commands say. LockInv: one evaluation holds the lock.
  CandInv: a rule is in one candidate. NameInv: a command that a row or an evaluation names
  exists, and a rule with a candidate waits for no command. DelayInv, for DelaysFireOnce: a
  delay whose timer has not fired, or that still waits to be sent, has no command. RetryInv, for
  RetriesBounded: a condition with a candidate, or with a command on its way, has retries left;
  one that is about to be told of its command has at most used them up; and every answer that comes again
  adds one. LostInv, for OneCommandIsOpen: the open commands that neither the row nor the
  evaluation that records them names are at most as many as the crashes. SystemYieldsToUser
  needs SeenInv besides: a row that saw the latest observation and holds is a fact of it, so a
  commit that fires timers, and looks at no condition, knows which user rules hold. The module's
  assumption that the rules of the system plan are conditions is that of
  `SYSTEM_ENVIRONMENT_SPEC`.
* `GatewayProofs`, DeviceIngress. TypeCorrect with ProperInv: what is on its way has a body that
  fits its channel. MessagesTakeEffectOnce proves EffectOnce with OnceInv: the inbox knows each
  message that has had an effect, and one in hand that it knows has had none. StatusIsTold
  proves StatusIsTrue with ReachInv. RetainedInv: the retained status says whether the device is
  connected. FreshInv: a number not yet given is in no message id. StatusInv, when nothing was
  lost: until a connected gateway has stored the retained status, it is in hand or on the wire,
  with no contrary message behind it; from then on the table shows it and nothing on the wire
  says otherwise. The proof needs that None is not a body or an event; IngressAssumption states
  it.
* `GatewayProofs`, LiveUpdates. LiveTypeCorrect, SeenEndsStand, FeedIsOfOneEach and
  PendingStaysOpen with LiveInv. RowsInv: a row in a batch exists, and one with an owner is
  being delivered. KnownInv: a command that anything has heard of was created. AgreeInv:
  wherever an end of a command is, in a notice, an ACK, a row, an envelope or on the page, it is the status the database has; the database never leaves an end, so what
  the page has seen stands. FeedInv: the event ids kept are different and the events shown are
  among the last of them; it needs that the page keeps at least as many ids as it shows events
  (256 and 30 in the code), which LiveAssumption states. RowsAreLeasedWork: the rows of
  realtime_events take only steps of LeasedWork, action by action.
* `FirmwareProofs`, SmokeAlarm. AlarmTypeCorrect with AttemptInv (attempts of an announcement
  stay in the retry loop's range). SilenceIsOfItsEpisode with EpisodeInv: the smoke source is on
  exactly while the last reading detected smoke, and a running silence has an episode or a poll
  that is about to begin one. NoWarningIsLost is inductive with the type invariant.
* `FirmwareProofs`, WindowControl. WindowTypeCorrect with CarriesPriority (only a priority
  command is ever at the store step). OverridesAreManual is inductive. PriorityIsDurable with
  StoredInv, which names the one point between the flash write and the change of state.
* `FirmwareProofs`, FirmwareSimulator. EpisodesAreTold proves EventsTellEpisode with EventsInv:
  unless the last word was dropped unheard, overtaken by an event put back, or that of a process that
  ended in an episode (`uncertain`, until the next event), an episode is active exactly
  when the last word on it is "smoke.detected", where the last word is the tail of the queue or,
  if that is empty, the event in hand or what the broker heard. StoppedIsToldOffline with
  StatusInv: a link that closes leaves no status "online" behind, unless it was closed
  without a word to the broker (`abrupt`), and a process that has ended has a closed link. AlarmIsDue with AlarmInv: the alarm sounds for a manual request or for smoke that
  is not silenced, and nothing is silenced without smoke.
* `DeviceCommandsProofs`. TypeCorrect with HandInv (a task that is not idle has a command, and
  one that records has a terminal status). AcceptedComesFirst with AcceptedInv: every queued
  command, and the one the actuator task has before it may publish, was answered, or lost, or is
  the one the handler is answering under the client's lock; that last case is gone when the
  actuator task publishes, because it needs the lock. CommandsExecuteOnce and AnswersStand with
  AnswerInv, for every size of the ring. They are about the commands that are in neither history
  variable: none of their answers was lost, they were in hand once, recorded by one task at a
  time and are still among the last recorded. RingInv says that such a command has a slot, in
  memory and in flash, that is not used again while it is among the last recorded: the distance
  to it from the index, from the index in flash and from one a task goes back to is at least the
  number of records that may still be begun. WriteInv is about a record that is half done;
  HandOnce, that a command in hand is in no second place; Written and Once, that what is
  remembered of a command is filled in, and that one executed or answered is being answered or
  recorded.
* `MonitoringProofs`, AiTriggers. OneRunIsScheduled proves OneScheduledRun with LockInv: a
  scheduler past the lease holds it, unless it was stalled, so at most one is; and the runs that
  are active when it inserts are among those it read, since between its reading and its writing
  no other scheduler creates one. ReadingInv is the type of what it read.
* `MonitoringProofs`, Perception. PerceptionInv is one conjunction in which each part needs
  those before it: ImagesInv (ids follow one another), QueueInv (what is queued or analysed has
  been captured, and in the order of the ids), PosesInv (results come in the order of their
  images, no two at one time), ClockInv (the log is in the order of time), RowsInv (the rows are
  the latest stored results of the log: pruning takes the oldest), RemindersInv (a reminder
  comes after a result and before the one in hand), LivesInv and SmootherInv (what the smoother
  holds is the last posture told since the worker began, its candidate what the last result
  showed). RowsInv carries RemindersAreEarned and SittersAreReminded: the code decides on the
  rows, the properties are about the log. SmootherInv carries PosturesAreConfirmed. TypeCorrect
  is that of the composition.

Only model-checked: liveness, which is out of the prover's reach, and the properties that
section 3 lists as only checked. Every other property of a run has a theorem.

## 6. Not modelled

* Image and pose inference, language model calls (reports, plan compilation, strategies, voice):
  numeric libraries and remote services; what they answer is chosen where a model uses it.
* Firmware drivers, display, camera, uploads; `fusion_evaluate` is a pure decision left for later.
* HTTP validation and dispatch, MCP, generated clients and contracts, the console's presentation, queries for
  reports: no state of their own; a request is an action of the component it calls.
* Migrations, data manager, panel: run once, by hand or for developers.
* Of the runtime, the announcement after a system rule, new plan versions while it runs and database
  failures inside an evaluation. Of the guard, the rate limit and the AI branch. Of the
  reducer, envelopes other than command statuses, which are patched the same way. Of the
  gateway, twin and trace rows.
* Flash writes of `cmd_dedup` are assumed to succeed. The device's `message_id` (a counter
  incremented by all its tasks without a lock), the wrap of the 32-bit tick counter and the use of
  tick 0 as "unset" are in no model.
* SQLite's one-second timestamps, with which the order of rows of one second is open; the models
  are of PostgreSQL.

## 7. Plan

Done: the modules of section 2 and eight proof modules. Next:

* Proofs: the safety properties outside the runs that only TLC checks.
* `CommandPath`: CommandOutbox composed with DeviceCommands over a lossy broker, so that the
  gateway's status is compared with what the device did.
* `Decisions`: fusion_evaluate and the rate limit of the guard against reference definitions.

## 8. Running

    tlc -workers 2 -config AiRuns_Prompt.cfg MCAiRuns.tla
    tlapm AiRunsProofs.tla

`PROJECT.json` lists the module and configuration of each run.
