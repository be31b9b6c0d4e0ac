--------------------------- MODULE FirmwareSimulator ---------------------------
(***************************************************************************)
(* The firmware simulator of src/tools/firmware_simulator: one asyncio     *)
(* process that stands in for the board.  A step is what a task does       *)
(* between two awaits.                                                     *)
(*                                                                         *)
(* runtime.py: the supervisor opens a connection, announces the device     *)
(* and runs the receive, ACK and event tasks until one of them fails or a  *)
(* stop is requested; the others are cancelled then.  The executor and the *)
(* safety task live as long as the process.  model.py: FirmwareModel.      *)
(* persistence.py: nvs.json, and that a write may fail (an OSError).       *)
(*                                                                         *)
(* The broker keeps the retained status and publishes the last will of a   *)
(* connection that ends without a disconnect.  A publish that fails may    *)
(* have reached it.  A command is an id with a type and a source; what     *)
(* validation refuses is a set.  The scenario may change, as the tests     *)
(* change it.  Of a timer, only whether it has run out is kept.            *)
(* Telemetry, images, voice, display texts and status.json are left out,   *)
(* except that telemetry() samples the smoke detector too.                 *)
(***************************************************************************)
EXTENDS Naturals, Sequences, SequencesExt

CONSTANTS
  Commands,     \* command_id
  Kind,         \* the type of each command
  Source,       \* the source of each command
  Invalid,      \* the commands that validation refuses
  Expiring,     \* the commands with an expires_at
  CacheSize,    \* TERMINAL_ACK_CACHE_SIZE
  QueueLength,  \* COMMAND_QUEUE_LENGTH
  Scenes,       \* bounds: the commands that are delivered and how often, the
                \* interrupts (lost connections, failed writes, stops, kills),
                \* the first scenario and how often it changes
  None          \* nothing in hand

CommandTypes ==
  {"window.open", "window.close", "led.on", "led.off", "alarm.on", "alarm.off",
   "alarm.silence", "set_priority.manual_first", "set_priority.auto_first",
   "control.resume_auto", "display.message"}
Sources == {"frontend", "rule"}

SmokeEvents == {"smoke.detected", "smoke.cleared"}

ASSUME ConstantsAssumption ==
  /\ Kind \in [Commands -> CommandTypes]
  /\ Source \in [Commands -> Sources]
  /\ Invalid \subseteq Commands /\ Expiring \subseteq Commands
  /\ None \notin Commands \cup SmokeEvents
  /\ CacheSize \in Nat \ {0} /\ QueueLength \in Nat \ {0}
  /\ Scenes \subseteq [commands: SUBSET Commands, deliveries: Nat,
                       interrupts: Nat, smoke: BOOLEAN, changes: Nat]

VARIABLES
  process,       \* the process and its stop_event
  link,          \* how far _mqtt_supervisor and _run_connection have come
  inHand,        \* what each task holds across an await
  commandQueue,  \* command_queue
  ackQueue,      \* ack_queue
  eventQueue,    \* event_queue
  acks,          \* model.terminal_acks
  nvs,           \* nvs.json
  state,         \* the rest of FirmwareModel
  episode,       \* _smoke_episode_active and _smoke_clear_since
  scenario,      \* model.scenario = "smoke"
  retained,      \* the status retained by the broker
  refused,       \* the commands that validation refuses or that have expired
  left,          \* what is left of the scene's bounds
  answers,       \* history: the statuses published for each command
  results,       \* history: the commands answered, the latest answer last
  lost,          \* history: the commands whose answer a task held when it ended
  repeated,      \* history: delivered in hand, long after its answer or expired
  heard,         \* history: the last smoke event that reached the broker
  uncertain,     \* history: the last word on the episode was lost or overtaken
  abrupt         \* history: the process closed its connection and left its status

queues == <<commandQueue, ackQueue, eventQueue>>
model == <<acks, nvs, state, episode, scenario>>
history == <<answers, results, lost, repeated, heard, uncertain, abrupt>>
vars == <<process, link, inHand, commandQueue, ackQueue, eventQueue, acks, nvs,
          state, episode, scenario, retained, refused, left, answers, results,
          lost, repeated, heard, uncertain, abrupt>>

-----------------------------------------------------------------------------
(* Types *)

Terminal == {"executed", "rejected"}
Ack == [command: Commands, status: Terminal]
Reply == [command: Commands, status: Terminal \cup {"accepted"}]
Priorities == {"manual_first", "auto_first"}
Timer == {"unset", "running", "elapsed"}
ConnectionTasks == {"receive", "ack", "event"}

State == [window: BOOLEAN, led: BOOLEAN, alarm: BOOLEAN, manualAlarm: BOOLEAN,
          smoke: BOOLEAN, silenced: BOOLEAN, silence: Timer,
          windowOverride: BOOLEAN, ledOverride: BOOLEAN, priority: Priorities]

TypeOK ==
  /\ process \in {"running", "stopping", "ended", "killed"}
  /\ link \in {"closed", "online", "up", "offline", "gone"}
  /\ inHand \in [receive: Reply \cup {None}, ack: Ack \cup {None},
                 event: SmokeEvents \cup {None},
                 execute: Commands \cup {None, "ended"}]
  /\ commandQueue \in Seq(Commands) /\ Len(commandQueue) <= QueueLength
  /\ ackQueue \in Seq(Ack)
  /\ eventQueue \in Seq(SmokeEvents)
  /\ acks \in Seq(Ack) /\ Len(acks) <= CacheSize
  /\ nvs \in [acks: Seq(Ack), priority: Priorities]
  /\ state \in State
  /\ episode \in [active: BOOLEAN, clear: Timer]
  /\ scenario \in BOOLEAN
  /\ retained \in {"none", "online", "offline"}
  /\ refused \subseteq Commands
  /\ left \in [commands: SUBSET Commands, deliveries: Nat, interrupts: Nat,
               smoke: BOOLEAN, changes: Nat]
  /\ answers \in [Commands -> SUBSET (Terminal \cup {"accepted"})]
  /\ results \in Seq(Commands)
  /\ lost \subseteq Commands /\ repeated \subseteq Commands
  /\ heard \in SmokeEvents \cup {None}
  /\ uncertain \in BOOLEAN /\ abrupt \in BOOLEAN

Idle == [receive |-> None, ack |-> None, event |-> None, execute |-> None]

FreshState(priority) ==
  [window |-> FALSE, led |-> FALSE, alarm |-> FALSE, manualAlarm |-> FALSE,
   smoke |-> FALSE, silenced |-> FALSE, silence |-> "unset",
   windowOverride |-> FALSE, ledOverride |-> FALSE, priority |-> priority]

NoEpisode == [active |-> FALSE, clear |-> "unset"]

Init ==
  /\ process = "running"
  /\ link = "closed"
  /\ inHand = Idle
  /\ commandQueue = <<>> /\ ackQueue = <<>> /\ eventQueue = <<>>
  /\ acks = <<>>
  /\ nvs = [acks |-> <<>>, priority |-> "manual_first"]
  /\ state = FreshState("manual_first")
  /\ episode = NoEpisode
  /\ left \in Scenes
  /\ scenario = left.smoke
  /\ retained = "none"
  /\ refused = Invalid
  /\ answers = [c \in Commands |-> {}]
  /\ results = <<>>
  /\ lost = {} /\ repeated = {}
  /\ heard = None
  /\ uncertain = FALSE /\ abrupt = FALSE

Alive == process \in {"running", "stopping"}

Interrupt ==
  /\ left.interrupts > 0
  /\ left' = [left EXCEPT !.interrupts = @ - 1]

-----------------------------------------------------------------------------
(* FirmwareModel *)

UpdateSafety(s, smoke) ==
  LET silenced == smoke /\ s.silence = "running"
  IN  [s EXCEPT !.smoke = smoke, !.silenced = silenced,
                !.alarm = s.manualAlarm \/ (smoke /\ ~silenced)]

Automatic(c) == Source[c] = "rule"

Overridden(c, override) ==
  Automatic(c) /\ state.priority = "manual_first" /\ override

Manual(c) == Source[c] = "frontend" /\ state.priority = "manual_first"

(* What apply_command refuses to do. *)
Rejects(c) ==
  \/ Kind[c] = "window.close" /\ state.smoke
  \/ Kind[c] \in {"window.open", "window.close"}
       /\ Overridden(c, state.windowOverride)
  \/ Kind[c] \in {"led.on", "led.off"} /\ Overridden(c, state.ledOverride)
  \/ Kind[c] = "alarm.silence" /\ ~state.smoke

(* The state apply_command leaves when it executes c. *)
Applied(c) ==
  CASE Kind[c] \in {"window.open", "window.close"} ->
         [state EXCEPT !.window = Kind[c] = "window.open",
                       !.windowOverride = @ \/ Manual(c)]
    [] Kind[c] \in {"led.on", "led.off"} ->
         [state EXCEPT !.led = Kind[c] = "led.on",
                       !.ledOverride = @ \/ Manual(c)]
    [] Kind[c] = "alarm.on" ->
         [state EXCEPT !.manualAlarm = TRUE, !.alarm = TRUE]
    [] Kind[c] = "alarm.off" ->
         UpdateSafety([state EXCEPT !.manualAlarm = FALSE], scenario)
    [] Kind[c] = "alarm.silence" ->
         [state EXCEPT !.silence = "running", !.silenced = TRUE,
                       !.alarm = state.manualAlarm]
    [] Kind[c] = "set_priority.manual_first" ->
         [state EXCEPT !.priority = "manual_first"]
    [] Kind[c] = "set_priority.auto_first" ->
         [state EXCEPT !.priority = "auto_first",
                       !.windowOverride = FALSE, !.ledOverride = FALSE]
    [] Kind[c] = "control.resume_auto" ->
         [state EXCEPT !.windowOverride = FALSE, !.ledOverride = FALSE]
    [] OTHER -> state

Others(ring, c) == SelectSeq(ring, LAMBDA a : a.command # c)

(* remember_terminal_ack *)
Remember(c, status) ==
  LET ring == Append(Others(acks, c), [command |-> c, status |-> status])
  IN  IF Len(ring) > CacheSize THEN Tail(ring) ELSE ring

(* nvs_snapshot *)
Snapshot(s) == [acks |-> acks', priority |-> s.priority]

Answered(c) == Append(SelectSeq(results, LAMBDA d : d # c), c)

(* _publish_terminal; a failed write ends the task before the answer is    *)
(* queued.                                                                 *)
PublishTerminal(c, status, s) ==
  /\ acks' = Remember(c, status)
  /\ results' = Answered(c)
  /\ nvs' = Snapshot(s)
  /\ ackQueue' = Append(ackQueue, [command |-> c, status |-> status])

WriteFails(c, status, s) ==
  /\ Interrupt
  /\ acks' = Remember(c, status)
  /\ results' = Answered(c)
  /\ nvs' \in {nvs, Snapshot(s)}
  /\ lost' = lost \cup {c}
  /\ repeated' = repeated \cup {c}
  /\ UNCHANGED <<ackQueue, answers, heard>>

-----------------------------------------------------------------------------
(* The process *)

Unanswered ==
  Range(commandQueue) \cup {a.command : a \in Range(ackQueue)}
    \cup ({inHand.execute} \cap Commands)
    \cup {a.command : a \in {inHand.ack} \ {None}}

(* __init__ of a new process with the nvs.json of the last one. *)
Boot ==
  /\ process \in {"ended", "killed"}
  /\ process' = "running"
  /\ acks' = nvs.acks
  /\ state' = FreshState(nvs.priority)
  /\ UNCHANGED <<link, inHand, queues, nvs, episode, scenario, retained,
                 refused, left, history>>

(* stop.request or a signal *)
RequestStop ==
  /\ process = "running"
  /\ Interrupt
  /\ process' = "stopping"
  /\ UNCHANGED <<link, inHand, queues, model, retained, refused, history>>

Leave(how) ==
  /\ process' = how
  /\ link' = "closed"
  /\ inHand' = Idle
  /\ commandQueue' = <<>> /\ ackQueue' = <<>> /\ eventQueue' = <<>>
  /\ episode' = NoEpisode
  /\ lost' = lost \cup Unanswered
  /\ heard' \in {heard} \cup ({inHand.event} \ {None})
  /\ uncertain' = (heard' = "smoke.detected")
  /\ UNCHANGED <<acks, nvs, state, scenario, refused, answers, results,
                 repeated>>

End ==
  /\ process = "stopping"
  /\ link \in {"closed", "gone"}
  /\ Leave("ended")
  /\ UNCHANGED <<retained, left, abrupt>>

(* wait_for(mqtt_task, timeout=2) runs out. *)
EndInConnection ==
  /\ process = "stopping"
  /\ link \in {"online", "up", "offline"}
  /\ Interrupt
  /\ Leave("ended")
  /\ abrupt' = TRUE
  /\ UNCHANGED retained

Kill ==
  /\ Alive
  /\ Interrupt
  /\ Leave("killed")
  /\ retained' = IF link \in {"closed", "gone"} THEN retained ELSE "offline"
  /\ UNCHANGED abrupt

-----------------------------------------------------------------------------
(* _mqtt_supervisor and _run_connection *)

(* A connection that ends before the status is published leaves "offline" *)
(* as the status, like one that is not opened.                             *)
Connect ==
  /\ process = "running"
  /\ link = "closed"
  /\ link' = "online"
  /\ retained' = "online"
  /\ abrupt' = FALSE
  /\ UNCHANGED <<process, inHand, queues, model, refused, left, answers,
                 results, lost, repeated, heard, uncertain>>

(* The capabilities are published and the command topic is subscribed to. *)
Subscribe ==
  /\ link = "online"
  /\ link' = "up"
  /\ UNCHANGED <<process, inHand, queues, model, retained, refused, left,
                 history>>

(* Mutant: a failed task drops its item too. *)
Dropped(queue, item, failed) == queue

(* The except branch of a publishing loop: back to the tail of its queue.  *)
PutBack(queue, item, failed) ==
  IF item # None /\ failed THEN Append(queue, item) ELSE queue

(* The tasks of the connection end.  Those that failed put their item back *)
(* at the tail of its queue; those that are cancelled drop it.  An item    *)
(* may have reached the broker either way.  The last word on an episode is *)
(* lost if it is dropped untold, and overtaken if an event is put back     *)
(* behind it.                                                              *)
CancelTasks(failed, reached) ==
  LET ack == inHand.ack
      event == inHand.event
      reply == inHand.receive
      arrived == {a \in {ack, reply} \ {None} :
                    (a = ack /\ "ack" \in reached)
                      \/ (a = reply /\ "receive" \in reached)}
  IN  /\ inHand' = [Idle EXCEPT !.execute = inHand.execute]
      /\ ackQueue' = PutBack(ackQueue, ack, "ack" \in failed)
      /\ eventQueue' = PutBack(eventQueue, event, "event" \in failed)
      /\ answers' = [c \in Commands |-> answers[c] \cup
                       {a.status : a \in {b \in arrived : b.command = c}}]
      /\ lost' = IF ack # None /\ "ack" \notin failed
                 THEN lost \cup {ack.command} ELSE lost
      /\ heard' = IF event # None /\ "event" \in reached THEN event ELSE heard
      /\ uncertain' = \/ uncertain
                      \/ /\ event # None
                         /\ IF "event" \in failed THEN eventQueue # <<>>
                            ELSE "event" \notin reached /\ eventQueue = <<>>

(* The connection breaks, and the broker publishes the last will; or a     *)
(* task raises (a publish that times out, a status.json that cannot be     *)
(* written), and `async with` disconnects: the status stays as it is.  The *)
(* finally of the supervisor writes status.json: if that fails, the        *)
(* supervisor ends.                                                        *)
ConnectionLost ==
  /\ link \in {"online", "up", "offline"}
  /\ Interrupt
  /\ \E failed, reached \in SUBSET ConnectionTasks :
       /\ reached \subseteq {t \in ConnectionTasks : inHand[t] # None}
       /\ failed \cap {"ack", "event"}
            \subseteq {t \in ConnectionTasks : inHand[t] # None}
       /\ "receive" \in failed
       /\ CancelTasks(failed, reached)
  /\ link' \in {"closed", "gone"}
  /\ \/ retained' = "offline" /\ abrupt' = FALSE
     \/ retained' = retained /\ abrupt' = TRUE
  /\ UNCHANGED <<process, commandQueue, model, refused, results, repeated>>

StopConnection ==
  /\ process = "stopping"
  /\ link = "up"
  /\ link' = "offline"
  /\ \E reached \in SUBSET {t \in ConnectionTasks : inHand[t] # None} :
       CancelTasks({}, reached)
  /\ UNCHANGED <<process, commandQueue, model, retained, refused, left,
                 results, repeated, abrupt>>

PublishOffline ==
  /\ link = "offline"
  /\ link' = "closed"
  /\ retained' = "offline"
  /\ UNCHANGED <<process, inHand, queues, model, refused, left, history>>

-----------------------------------------------------------------------------
(* _command_receive_loop *)

Recent ==
  {results[i] : i \in {j \in DOMAIN results : j > Len(results) - CacheSize}}

Held(c) == c \in Range(commandQueue) \/ inHand.execute = c

Arrive(c) ==
  /\ Alive /\ link = "up"
  /\ inHand.receive = None
  /\ c \in left.commands
  /\ left.deliveries > 0

(* The history notes a delivery whose answer may differ from the last one. *)
Note(c) ==
  /\ left' = [left EXCEPT !.deliveries = @ - 1]
  /\ repeated' = IF \/ Held(c)
                    \/ c \in Range(results) /\ c \notin Recent
                    \/ c \in Range(results) /\ c \in refused \ Invalid
                 THEN repeated \cup {c} ELSE repeated

Cached(c) == {a \in Range(acks) : a.command = c}

Refused(c) ==
  \/ c \in refused
  \/ Cached(c) = {} /\ Len(commandQueue) = QueueLength

Refuse(c) ==
  /\ Arrive(c)
  /\ Refused(c)
  /\ Note(c)
  /\ PublishTerminal(c, "rejected", state)
  /\ UNCHANGED <<process, link, inHand, commandQueue, eventQueue, state,
                 episode, scenario, retained, refused, answers, lost, heard,
                 uncertain, abrupt>>

(* The task fails and takes the connection with it: it is disconnected, so *)
(* no last will is published.                                              *)
RefuseUnsaved(c) ==
  /\ Arrive(c)
  /\ Refused(c)
  /\ left.interrupts > 0
  /\ left' = [left EXCEPT !.deliveries = @ - 1, !.interrupts = @ - 1]
  /\ acks' = Remember(c, "rejected")
  /\ results' = Answered(c)
  /\ nvs' \in {nvs, Snapshot(state)}
  /\ repeated' = repeated \cup {c}
  /\ CancelTasks({"receive"}, {})
  /\ link' = "closed"
  /\ abrupt' = TRUE
  /\ UNCHANGED <<process, commandQueue, state, episode, scenario, retained,
                 refused>>

Replay(c) ==
  /\ Arrive(c)
  /\ c \notin refused
  /\ Note(c)
  /\ \E a \in Cached(c) : inHand' = [inHand EXCEPT !.receive = a]
  /\ UNCHANGED <<process, link, queues, model, retained, refused, answers,
                 results, lost, heard, uncertain, abrupt>>

Enqueue(c) ==
  /\ Arrive(c)
  /\ c \notin refused /\ Cached(c) = {}
  /\ Len(commandQueue) < QueueLength
  /\ Note(c)
  /\ commandQueue' = Append(commandQueue, c)
  /\ inHand' = [inHand EXCEPT !.receive =
                               [command |-> c, status |-> "accepted"]]
  /\ UNCHANGED <<process, link, ackQueue, eventQueue, model, retained, refused,
                 answers, results, lost, heard, uncertain, abrupt>>

PublishReply ==
  /\ Alive /\ link = "up"
  /\ inHand.receive # None
  /\ answers' = [answers EXCEPT ![inHand.receive.command] =
                                  @ \cup {inHand.receive.status}]
  /\ inHand' = [inHand EXCEPT !.receive = None]
  /\ UNCHANGED <<process, link, queues, model, retained, refused, left,
                 results, lost, repeated, heard, uncertain, abrupt>>

-----------------------------------------------------------------------------
(* _command_execute_loop *)

TakeCommand ==
  /\ Alive
  /\ inHand.execute = None
  /\ commandQueue # <<>>
  /\ inHand' = [inHand EXCEPT !.execute = Head(commandQueue)]
  /\ commandQueue' = Tail(commandQueue)
  /\ UNCHANGED <<process, link, ackQueue, eventQueue, model, retained, refused,
                 left, history>>

ApplyCommand(c) == IF Rejects(c) THEN state ELSE Applied(c)

Outcome(c) == IF Rejects(c) THEN "rejected" ELSE "executed"

Execute ==
  /\ Alive
  /\ inHand.execute \in Commands
  /\ state' = ApplyCommand(inHand.execute)
  /\ PublishTerminal(inHand.execute, Outcome(inHand.execute), state')
  /\ inHand' = [inHand EXCEPT !.execute = None]
  /\ UNCHANGED <<process, link, commandQueue, eventQueue, episode, scenario,
                 retained, refused, left, answers, lost, repeated, heard,
                 uncertain, abrupt>>

(* Nothing catches the OSError: the executor ends, for good. *)
ExecuteUnsaved ==
  /\ Alive
  /\ inHand.execute \in Commands
  /\ state' = ApplyCommand(inHand.execute)
  /\ WriteFails(inHand.execute, Outcome(inHand.execute), state')
  /\ inHand' = [inHand EXCEPT !.execute = "ended"]
  /\ UNCHANGED <<process, link, commandQueue, eventQueue, episode, scenario,
                 retained, refused, uncertain, abrupt>>

-----------------------------------------------------------------------------
(* _ack_publish_loop and _event_publish_loop *)

TakeAck ==
  /\ Alive /\ link = "up"
  /\ inHand.ack = None
  /\ ackQueue # <<>>
  /\ inHand' = [inHand EXCEPT !.ack = Head(ackQueue)]
  /\ ackQueue' = Tail(ackQueue)
  /\ UNCHANGED <<process, link, commandQueue, eventQueue, model, retained,
                 refused, left, history>>

PublishAck ==
  /\ Alive /\ link = "up"
  /\ inHand.ack # None
  /\ answers' = [answers EXCEPT ![inHand.ack.command] =
                                  @ \cup {inHand.ack.status}]
  /\ inHand' = [inHand EXCEPT !.ack = None]
  /\ UNCHANGED <<process, link, queues, model, retained, refused, left,
                 results, lost, repeated, heard, uncertain, abrupt>>

TakeEvent ==
  /\ Alive /\ link = "up"
  /\ inHand.event = None
  /\ eventQueue # <<>>
  /\ inHand' = [inHand EXCEPT !.event = Head(eventQueue)]
  /\ eventQueue' = Tail(eventQueue)
  /\ UNCHANGED <<process, link, commandQueue, ackQueue, model, retained,
                 refused, left, history>>

PublishEvent ==
  /\ Alive /\ link = "up"
  /\ inHand.event # None
  /\ heard' = inHand.event
  /\ inHand' = [inHand EXCEPT !.event = None]
  /\ UNCHANGED <<process, link, queues, model, retained, refused, left,
                 answers, results, lost, repeated, uncertain, abrupt>>

-----------------------------------------------------------------------------
(* The smoke detector *)

(* Mutant: the end of an episode is not announced. *)
AnnounceSmoke(event) ==
  /\ eventQueue' = IF event = "smoke.cleared" THEN eventQueue
                   ELSE Append(eventQueue, event)
  /\ uncertain' = FALSE

(* The last word on the episode is a new one. *)
Announce(event) ==
  /\ eventQueue' = Append(eventQueue, event)
  /\ uncertain' = FALSE

(* process_safety_sample, after its update_safety *)
SmokeSample ==
  /\ scenario
  /\ state' = UpdateSafety(state, TRUE)
  /\ episode' = [active |-> TRUE, clear |-> "unset"]
  /\ IF episode.active
     THEN UNCHANGED <<eventQueue, uncertain>>
     ELSE Announce("smoke.detected")

ClearSample ==
  /\ ~scenario
  /\ \/ /\ ~episode.active \/ episode.clear = "running"
        /\ state' = UpdateSafety(state, FALSE)
        /\ UNCHANGED <<episode, eventQueue, uncertain>>
     \/ /\ episode.active /\ episode.clear = "unset"
        /\ state' = UpdateSafety(state, FALSE)
        /\ episode' = [episode EXCEPT !.clear = "running"]
        /\ UNCHANGED <<eventQueue, uncertain>>
     \/ /\ episode.active /\ episode.clear = "elapsed"
        /\ state' = [UpdateSafety(state, FALSE) EXCEPT !.silence = "unset",
                                                       !.silenced = FALSE]
        /\ episode' = NoEpisode
        /\ Announce("smoke.cleared")

SafetySample ==
  /\ Alive
  /\ SmokeSample \/ ClearSample
  /\ UNCHANGED <<process, link, inHand, commandQueue, ackQueue, acks, nvs,
                 scenario, retained, refused, left, answers, results, lost,
                 repeated, heard, abrupt>>

(* telemetry() *)
Telemetry ==
  /\ Alive /\ link = "up"
  /\ state' = UpdateSafety(state, scenario)
  /\ UNCHANGED <<process, link, inHand, queues, acks, nvs, episode, scenario,
                 retained, refused, left, history>>

-----------------------------------------------------------------------------
(* Time and the room *)

SilenceElapses ==
  /\ Alive
  /\ state.silence = "running"
  /\ state' = [state EXCEPT !.silence = "elapsed"]
  /\ UNCHANGED <<process, link, inHand, queues, acks, nvs, episode, scenario,
                 retained, refused, left, history>>

(* SMOKE_CLEAR_STABLE_MS without smoke *)
ClearElapses ==
  /\ Alive
  /\ episode.clear = "running"
  /\ episode' = [episode EXCEPT !.clear = "elapsed"]
  /\ UNCHANGED <<process, link, inHand, queues, acks, nvs, state, scenario,
                 retained, refused, left, history>>

ChangeScenario ==
  /\ left.changes > 0
  /\ left' = [left EXCEPT !.changes = @ - 1]
  /\ scenario' = ~scenario
  /\ UNCHANGED <<process, link, inHand, queues, acks, nvs, state, episode,
                 retained, refused, history>>

Expire(c) ==
  /\ c \in Expiring \ refused
  /\ refused' = refused \cup {c}
  /\ UNCHANGED <<process, link, inHand, queues, model, retained, left,
                 history>>

-----------------------------------------------------------------------------

Receive(c) == Refuse(c) \/ RefuseUnsaved(c) \/ Replay(c) \/ Enqueue(c)

Connection ==
  \/ Connect \/ Subscribe
  \/ ConnectionLost \/ StopConnection \/ PublishOffline

Publishers ==
  PublishReply \/ TakeAck \/ PublishAck \/ TakeEvent \/ PublishEvent

Executor == TakeCommand \/ Execute

Lifecycle == Boot \/ RequestStop \/ End \/ EndInConnection \/ Kill

Environment ==
  \/ SilenceElapses \/ ClearElapses \/ ChangeScenario
  \/ \E c \in Commands : Expire(c)

Next ==
  \/ Lifecycle \/ Connection \/ Publishers \/ Executor \/ ExecuteUnsaved
  \/ SafetySample \/ Telemetry \/ Environment
  \/ \E c \in Commands : Receive(c)

(* The tasks of the event loop run, the supervisor reconnects and timers   *)
(* run out.  The board is not restarted, nor the room changed, by itself.  *)
Fairness ==
  /\ WF_vars(Connect) /\ WF_vars(Subscribe)
  /\ WF_vars(StopConnection) /\ WF_vars(PublishOffline) /\ WF_vars(End)
  /\ WF_vars(PublishReply) /\ WF_vars(TakeAck) /\ WF_vars(PublishAck)
  /\ WF_vars(TakeEvent) /\ WF_vars(PublishEvent)
  /\ WF_vars(TakeCommand) /\ WF_vars(Execute)
  /\ WF_vars(SafetySample) /\ WF_vars(SilenceElapses) /\ WF_vars(ClearElapses)

Spec == Init /\ [][Next]_vars /\ Fairness

-----------------------------------------------------------------------------
(* Properties *)

(* The alarm sounds for a command or for smoke that is not silenced, and   *)
(* for nothing else, whichever of the sampling tasks and commands wrote it *)
(* last (update_safety, apply_command, clear_smoke_episode).               *)
AlarmAgrees ==
  /\ state.alarm = (state.manualAlarm \/ (state.smoke /\ ~state.silenced))
  /\ state.silenced => state.smoke

(* No command is answered "executed" once and "rejected" once, over lost   *)
(* connections and restarts: the cache replays the first answer.  Excepted *)
(* are a delivery while the command is in hand, after CacheSize others     *)
(* were answered, after it expired (validation comes before the cache),    *)
(* and an answer whose write failed.                                       *)
AnswersAgree ==
  \A c \in Commands : Terminal \subseteq answers[c] => c \in repeated

(* When nothing is left to publish, the last smoke event that was heard    *)
(* tells whether the episode goes on, over lost connections, events that   *)
(* are queued again, kills and restarts.  Excepted is the time up to the   *)
(* next event after the last one was cancelled in hand and not heard, or   *)
(* one was queued again behind it, or a process ended in an episode.       *)
EventsTellEpisode ==
  Alive /\ eventQueue = <<>> /\ inHand.event = None /\ ~uncertain =>
    episode.active = (heard = "smoke.detected")

(* A queued command is executed and its answer published, over any number  *)
(* of reconnections, unless a task that held the command or its answer was *)
(* cancelled, or a failed write ended the executor or the supervisor.      *)
AcceptedIsAnswered ==
  \A c \in Commands :
    c \in Range(commandQueue) ~>
      \/ answers[c] \cap Terminal # {}
      \/ c \in lost
      \/ inHand.execute = "ended" \/ link = "gone"

(* The broker keeps a stopped or killed simulator online only if it        *)
(* disconnected its last connection itself without publishing "offline":   *)
(* after a publish that timed out, a failed write, or the two seconds a    *)
(* stop has.                                                               *)
StoppedIsOffline ==
  process \in {"ended", "killed"} /\ ~abrupt => retained # "online"

(* A restart brings back the control priority in force and every answer    *)
(* given: nvs.json is behind only by what a failed write kept out of it    *)
(* (_publish_terminal, load_nvs).                                          *)
NvsIsCurrent ==
  Alive =>
    /\ inHand.execute # "ended" => nvs.priority = state.priority
    /\ \A a \in Range(acks) \ Range(nvs.acks) : a.command \in repeated
=============================================================================
