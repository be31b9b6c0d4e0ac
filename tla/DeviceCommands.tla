----------------------------- MODULE DeviceCommands -----------------------------
(***************************************************************************)
(* The path of a command through the ESP32-S3 firmware: the MQTT task that *)
(* validates a delivery, replays the terminal ACK of a command it knows or *)
(* queues the command (mqtt_app.c, on_command of main.c), the actuator     *)
(* task that executes it (main.c), and the ring of terminal ACKs both      *)
(* tasks write, in RAM and in flash, without a lock (mqtt_app.c).          *)
(*                                                                         *)
(* The MQTT task runs its handler under the lock of the MQTT client, which *)
(* esp_mqtt_client_publish takes too: the actuator task publishes only     *)
(* when no handler runs.  What follows a publish, the update of the ring   *)
(* and its two writes to flash, is not under that lock.                    *)
(*                                                                         *)
(* A delivery is its command_id.  Parsing and the checks of the envelope,  *)
(* type, source and parameter are one set of commands they refuse.  The    *)
(* environment delivers any command again at any time; commands expire;    *)
(* publishing may fail; the device may restart between any two steps.      *)
(* Flash writes succeed.  actuator_apply is its outcome here               *)
(* (WindowControl and SmokeAlarm are its effect).                          *)
(***************************************************************************)
EXTENDS Naturals, Sequences, Functions

CONSTANTS
  Commands,      \* command_id
  Invalid,       \* the commands that validation refuses
  Expiring,      \* the commands with an expires_at
  CacheSize,     \* AIOT_TERMINAL_ACK_CACHE_SIZE
  QueueLength,   \* AIOT_COMMAND_QUEUE_LENGTH
  MaxDeliveries, \* bound on the deliveries
  MaxInterrupts, \* bound on the restarts and the publishes that fail
  None           \* no command

ASSUME ConstantsAssumption ==
  /\ Invalid \subseteq Commands
  /\ Expiring \subseteq Commands
  /\ None \notin Commands
  /\ CacheSize \in Nat \ {0}
  /\ QueueLength \in Nat \ {0}
  /\ MaxDeliveries \in Nat
  /\ MaxInterrupts \in Nat

VARIABLES
  task,       \* what the MQTT task and the actuator task have in hand
  queue,      \* s_command_queue
  ring,       \* s_recent_acks
  index,      \* s_recent_ack_index
  flash,      \* the namespace cmd_dedup in flash
  refused,    \* the commands that validation refuses or that have expired
  deliveries, \* deliveries so far
  interrupts, \* restarts and failed publishes so far
  executions, \* history: how often each command drove the hardware
  answers,    \* history: the statuses published for each command
  recent,     \* history: the last CacheSize commands recorded
  lost,       \* history: an answer failed, or a restart found it in hand
  overlapped  \* history: in hand twice, recorded by both tasks at once, or
              \* no longer among the last CacheSize

device == <<queue, ring, index, flash>>
history == <<executions, answers, recent, lost, overlapped>>
environment == <<refused, deliveries, interrupts>>
vars == <<task, queue, ring, index, flash, refused, deliveries, interrupts,
          executions, answers, recent, lost, overlapped>>

-----------------------------------------------------------------------------
(* Types *)

Tasks == {"mqtt", "actuator"}
Outcomes == {"executed", "failed", "rejected"}
Slots == 0 .. CacheSize - 1

(* "refused" is a rejection by validation or for expiry, before the ring is *)
(* searched.  A record one task is writing shows the other no status yet.  *)
AckStatus == Outcomes \cup {"refused", "unwritten"}
RecentAck == [command: Commands \cup {None}, status: AckStatus]
NoAck == [command |-> None, status |-> "unwritten"]

Recording == {"record", "fill", "advance", "saveRing", "saveIndex"}

Task == [pc: {"idle", "enqueue", "apply", "publish"} \cup Recording,
         command: Commands \cup {None},
         status: AckStatus \cup {"accepted"},
         slot: Slots]

IdleTask == [pc |-> "idle", command |-> None, status |-> "accepted", slot |-> 0]

TypeOK ==
  /\ task \in [Tasks -> Task]
  /\ queue \in Seq(Commands)
  /\ Len(queue) <= QueueLength
  /\ ring \in [Slots -> RecentAck]
  /\ index \in Slots
  /\ flash \in [ring: [Slots -> RecentAck], index: Slots]
  /\ refused \subseteq Commands
  /\ deliveries \in 0 .. MaxDeliveries
  /\ interrupts \in 0 .. MaxInterrupts
  /\ executions \in [Commands -> Nat]
  /\ answers \in [Commands -> SUBSET (AckStatus \cup {"accepted"})]
  /\ recent \in Seq(Commands)
  /\ Len(recent) <= CacheSize
  /\ lost \subseteq Commands
  /\ overlapped \subseteq Commands

Init ==
  /\ task = [t \in Tasks |-> IdleTask]
  /\ queue = <<>>
  /\ ring = [s \in Slots |-> NoAck]
  /\ index = 0
  /\ flash = [ring |-> [s \in Slots |-> NoAck], index |-> 0]
  /\ refused = Invalid
  /\ deliveries = 0
  /\ interrupts = 0
  /\ executions = [c \in Commands |-> 0]
  /\ answers = [c \in Commands |-> {}]
  /\ recent = <<>>
  /\ lost = {}
  /\ overlapped = {}

InHand ==
  Range(queue) \cup {task[t].command : t \in {u \in Tasks : task[u].pc # "idle"}}

-----------------------------------------------------------------------------
(* The MQTT task *)

Reply(t, c, status) ==
  [task[t] EXCEPT !.pc = "publish", !.command = c, !.status = status]

Known(c) == {s \in Slots : ring[s].command = c}

(* The handler of a message on the command topic, which may have been      *)
(* delivered before, up to the search of the ring.                         *)
Deliver(c) ==
  /\ task["mqtt"].pc = "idle"
  /\ deliveries < MaxDeliveries
  /\ deliveries' = deliveries + 1
  /\ overlapped' = overlapped \cup ({c} \cap InHand)
  /\ \/ /\ c \in refused
        /\ task' = [task EXCEPT !["mqtt"] = Reply("mqtt", c, "refused")]
     \/ \E s \in Known(c) :
          /\ c \notin refused
          /\ \A other \in Known(c) : s <= other
          /\ task' = [task EXCEPT !["mqtt"] = Reply("mqtt", c, ring[s].status)]
     \/ /\ c \notin refused
        /\ Known(c) = {}
        /\ task' = [task EXCEPT !["mqtt"].pc = "enqueue", !["mqtt"].command = c]
  /\ UNCHANGED <<device, refused, interrupts, executions, answers, recent,
                 lost>>

EnqueueBlocking ==
  /\ task["mqtt"].pc = "enqueue"
  /\ Len(queue) < QueueLength
  /\ queue' = Append(queue, task["mqtt"].command)
  /\ task' = [task EXCEPT !["mqtt"] = Reply("mqtt", task["mqtt"].command, "accepted")]
  /\ UNCHANGED <<ring, index, flash, environment, history>>

(* xQueueSend with no timeout: a full queue rejects the command.           *)
Enqueue ==
  /\ task["mqtt"].pc = "enqueue"
  /\ \/ /\ Len(queue) < QueueLength
        /\ queue' = Append(queue, task["mqtt"].command)
        /\ task' = [task EXCEPT !["mqtt"] = Reply("mqtt", task["mqtt"].command, "accepted")]
     \/ /\ Len(queue) = QueueLength
        /\ queue' = queue
        /\ task' = [task EXCEPT !["mqtt"] = Reply("mqtt", task["mqtt"].command, "rejected")]
  /\ UNCHANGED <<ring, index, flash, environment, history>>

-----------------------------------------------------------------------------
(* The actuator task *)

Receive ==
  /\ task["actuator"].pc = "idle"
  /\ queue # <<>>
  /\ queue' = Tail(queue)
  /\ task' = [task EXCEPT !["actuator"].pc = "apply",
                          !["actuator"].command = Head(queue)]
  /\ UNCHANGED <<ring, index, flash, environment, history>>

(* A rejected command does not drive the hardware; a failed one may have.  *)
Apply ==
  /\ task["actuator"].pc = "apply"
  /\ \E outcome \in Outcomes :
       /\ task' = [task EXCEPT !["actuator"] = Reply("actuator", @.command, outcome)]
       /\ executions' = IF outcome = "rejected" THEN executions
                        ELSE [executions EXCEPT ![task["actuator"].command] = @ + 1]
  /\ UNCHANGED <<device, environment, answers, recent, lost, overlapped>>

-----------------------------------------------------------------------------
(* What both tasks do to publish and to remember a terminal ACK *)

ClientIsNeverLocked(t) == TRUE

(* The lock of the MQTT client is free, or held by the caller's handler.   *)
ClientIsFreeFor(t) == t = "mqtt" \/ task["mqtt"].pc = "idle"

RecordedUnlessRejected(status) == status \notin {"accepted", "rejected"}

(* Only a terminal ACK is remembered.                                      *)
Recorded(status) == status # "accepted"

Publish(t) ==
  LET c == task[t].command
      status == task[t].status IN
  /\ task[t].pc = "publish"
  /\ ClientIsFreeFor(t)
  /\ \/ /\ answers' = [answers EXCEPT ![c] = @ \cup {status}]
        /\ task' = [task EXCEPT ![t] = IF Recorded(status)
                                       THEN [task[t] EXCEPT !.pc = "record"]
                                       ELSE IdleTask]
        /\ UNCHANGED <<interrupts, lost>>
     \/ /\ interrupts < MaxInterrupts
        /\ interrupts' = interrupts + 1
        /\ task' = [task EXCEPT ![t] = IdleTask]
        /\ lost' = lost \cup {c}
        /\ answers' = answers
  /\ UNCHANGED <<device, refused, deliveries, executions, recent, overlapped>>

(* The history: the last CacheSize commands a record was begun for.        *)
Latest(commands) ==
  IF Len(commands) > CacheSize THEN Tail(commands) ELSE commands

(* The slot at the index is cleared and given the command_id.              *)
Record(t) ==
  LET c == task[t].command
      others == {u \in Tasks \ {t} : task[u].pc \in Recording \ {"record"}} IN
  /\ task[t].pc = "record"
  /\ ring' = [ring EXCEPT ![index] = [command |-> c, status |-> "unwritten"]]
  /\ task' = [task EXCEPT ![t].pc = "fill", ![t].slot = index]
  /\ recent' = Latest(Append(recent, c))
  /\ overlapped' = overlapped \cup (Range(recent) \ Range(recent'))
                     \cup (IF others = {} THEN {}
                           ELSE {c} \cup {task[u].command : u \in others})
  /\ UNCHANGED <<queue, index, flash, environment, executions, answers, lost>>

Fill(t) ==
  /\ task[t].pc = "fill"
  /\ ring' = [ring EXCEPT ![task[t].slot].status = task[t].status]
  /\ task' = [task EXCEPT ![t].pc = "advance"]
  /\ UNCHANGED <<queue, index, flash, environment, history>>

After(slot) == (slot + 1) % CacheSize

(* The index is read and written without a lock: the value read may be the *)
(* one from before the other task advanced it.                             *)
Advance(t) ==
  /\ task[t].pc = "advance"
  /\ \E read \in {index, task[t].slot} : index' = After(read)
  /\ task' = [task EXCEPT ![t].pc = "saveRing", ![t].slot = 0]
  /\ UNCHANGED <<queue, ring, flash, environment, history>>

(* Two keys of the flash, each durable as soon as it is set.               *)
SaveRing(t) ==
  /\ task[t].pc = "saveRing"
  /\ flash' = [flash EXCEPT !.ring = ring]
  /\ task' = [task EXCEPT ![t].pc = "saveIndex"]
  /\ UNCHANGED <<queue, ring, index, environment, history>>

SaveIndex(t) ==
  /\ task[t].pc = "saveIndex"
  /\ flash' = [flash EXCEPT !.index = index]
  /\ task' = [task EXCEPT ![t] = IdleTask]
  /\ UNCHANGED <<queue, ring, index, environment, history>>

-----------------------------------------------------------------------------
(* The clock and the restart *)

(* The clock of the device passes expires_at, by running or by being set   *)
(* for the first time since the restart (validate_command_expiry).         *)
Expire(c) ==
  /\ c \in Expiring \ refused
  /\ refused' = refused \cup {c}
  /\ UNCHANGED <<task, device, deliveries, interrupts, history>>

IndexForgotten == 0

IndexAtBoot == flash.index

Restart ==
  /\ interrupts < MaxInterrupts
  /\ interrupts' = interrupts + 1
  /\ task' = [t \in Tasks |-> IdleTask]
  /\ queue' = <<>>
  /\ ring' = flash.ring
  /\ index' = IndexAtBoot
  /\ refused' = Invalid
  /\ lost' = lost \cup InHand
  /\ UNCHANGED <<flash, deliveries, executions, answers, recent,
                 overlapped>>

-----------------------------------------------------------------------------
Answer(t) ==
  \/ Publish(t)
  \/ Record(t)
  \/ Fill(t)
  \/ Advance(t)
  \/ SaveRing(t)
  \/ SaveIndex(t)

MqttStep == Enqueue \/ Answer("mqtt")

ActuatorStep == Receive \/ Apply \/ Answer("actuator")

Next ==
  \/ \E c \in Commands : Deliver(c) \/ Expire(c)
  \/ MqttStep
  \/ ActuatorStep
  \/ Restart

(* Each task runs; deliveries, expiry and restarts need not happen.        *)
Spec ==
  /\ Init
  /\ [][Next]_vars
  /\ WF_vars(MqttStep)
  /\ WF_vars(ActuatorStep)

-----------------------------------------------------------------------------
(* Properties *)

(* The actuator task's answer follows "accepted": it cannot publish before *)
(* the handler that queued the command has (on_command and the lock of     *)
(* esp_mqtt_client_publish).                                               *)
AcceptedFirst ==
  LET c == task["actuator"].command IN
  task["actuator"].pc \in Recording => "accepted" \in answers[c] \/ c \in lost

(* A command drives the hardware once, over any redelivery and restart:    *)
(* but for a command whose answer or record was cut short, one delivered   *)
(* while it was in hand or recorded by both tasks at once, and one that is *)
(* no longer among the last CacheSize (find_recent_ack, load_recent_acks). *)
ExecutedOnce ==
  \A c \in Commands : executions[c] <= 1 \/ c \in lost \cup overlapped

(* Under the same conditions no two deliveries of a command get different  *)
(* terminal ACKs, but a refusal before or after it expired: a rejection for *)
(* a full queue stays a rejection (remember_terminal_ack).                 *)
AnswersAgree ==
  \A c \in Commands \ (lost \cup overlapped) :
    \A first, second \in answers[c] \ {"accepted", "refused"} : first = second

(* A command in hand gets a terminal ACK, or its publish fails or the      *)
(* device restarts: the handler never waits for the queue while it holds   *)
(* the lock the actuator task needs to publish (on_command).               *)
EveryCommandIsAnswered ==
  \A c \in Commands :
    c \in InHand ~> (answers[c] \ {"accepted"} # {} \/ c \in lost)

(* docs/protocol-mqtt.md: "redelivery returns the prior terminal result    *)
(* without executing hardware twice".                                      *)
RedeliveryExecutesOnce == \A c \in Commands : executions[c] <= 1

=============================================================================
