---------------------------- MODULE DeviceIngress ----------------------------
(***************************************************************************)
(* How what a device tells becomes what the gateway knows.  The device     *)
(* publishes status, capabilities, telemetry and events (mqtt_app.c); the  *)
(* broker keeps the retained ones and hands all to the gateway's MQTT loop *)
(* (services/mqtt.py), which ingests them one by one                       *)
(* (services/mqtt_ingest.py, services/telemetry.py, services/events.py)    *)
(* and then acts on them (main.py).  ACKs are CommandOutbox's, logs are    *)
(* stored as events are, with no run to trigger.                           *)
(*                                                                         *)
(* A message is ingested in one transaction or two: the first keeps the    *)
(* inbox row and what record_status writes, the second the sample or the   *)
(* event.  Of the clock, the last event of a type is at most five seconds  *)
(* old or older.  Malformed messages are left out.                         *)
(***************************************************************************)
EXTENDS Naturals, Sequences

CONSTANTS
  EventTypes,  \* types of device events
  Triggers,    \* those of them that start an AI run
  Bound,       \* bound of the messages of a behaviour, for a property
  Scenes,      \* the budgets a behaviour may spend
  None

Budget ==
  [connects : Nat, samples : Nat, events : Nat, duplicates : Nat,
   outages : Nat, crashes : Nat, failures : Nat, willPerBoot : BOOLEAN]

ASSUME IngressAssumption ==
  /\ Bound \in Nat
  /\ Scenes \subseteq Budget
  /\ Triggers \subseteq EventTypes
  /\ None \notin EventTypes \cup {"online", "offline"}

VARIABLES
  device,    \* connected or not, boots, last QoS 1 message not yet confirmed
  retained,  \* what the broker keeps of each retained topic
  wire,      \* messages the broker holds for the gateway
  gateway,   \* the MQTT loop: connected, and the message in hand
  db,        \* the tables of the device
  followed,  \* history: messages that evaluation or a run followed
  lost,      \* history: ids of messages that a fault cost an effect
  sent,      \* number of messages so far, for fresh message ids
  left       \* what is left of the scene

vars == <<device, retained, wire, gateway, db, followed, lost, sent, left>>

-----------------------------------------------------------------------------
(* Types *)

Channels == {"status", "capabilities", "telemetry", "event"}

(* message_id: the boot and a sequence number, or the will of a boot.      *)
MessageId == {"will", "message"} \X Nat

Message == [id: MessageId, channel: Channels,
            body: {"online", "offline"} \cup EventTypes \cup {None}]

NoMessage == [id |-> <<"message", 0>>, channel |-> "status", body |-> None]

Database ==
  [inbox: SUBSET MessageId, status: {"unknown", "online", "offline"},
   capability: MessageId \cup {None}, samples: Seq(MessageId),
   events: Seq([id: MessageId, type: EventTypes, recent: BOOLEAN])]

TypeOK ==
  /\ device \in [connected: BOOLEAN, will: Nat, unconfirmed: Message]
  /\ retained \in [{"status", "capabilities"} -> Message]
  /\ wire \in Seq(Message)
  /\ gateway \in [connected: BOOLEAN, pc: {"idle", "store", "effect", "follow"},
                  message: Message]
  /\ db \in Database
  /\ db.capability # None => db.capability \in db.inbox
  /\ followed \subseteq MessageId /\ lost \subseteq MessageId
  /\ sent \in Nat
  /\ left \in Budget

Init ==
  /\ device = [connected |-> FALSE, will |-> 0, unconfirmed |-> NoMessage]
  /\ retained = [t \in {"status", "capabilities"} |-> NoMessage]
  /\ wire = <<>>
  /\ gateway = [connected |-> FALSE, pc |-> "idle", message |-> NoMessage]
  /\ db = [inbox |-> {}, status |-> "unknown", capability |-> None,
           samples |-> <<>>, events |-> <<>>]
  /\ followed = {} /\ lost = {}
  /\ sent = 0
  /\ left \in Scenes

-----------------------------------------------------------------------------
(* The device and the broker *)

New(n, channel, body) ==
  [id |-> <<"message", sent + n>>, channel |-> channel, body |-> body]

(* Without a persistent session nothing is kept for a gateway that is away *)
(* but the retained messages.                                              *)
Delivered(messages) ==
  IF gateway.connected THEN wire \o messages ELSE wire

(* MQTT_EVENT_CONNECTED; the will of the firmware is one for a boot, that  *)
(* of the simulator one for a connection.                                  *)
Connect ==
  /\ ~device.connected
  /\ left.connects > 0
  /\ left' = [left EXCEPT !.connects = @ - 1]
  /\ LET online == New(1, "status", "online")
         capabilities == New(2, "capabilities", None)
     IN  /\ retained' = [status |-> online, capabilities |-> capabilities]
         /\ wire' = Delivered(<<online, capabilities>>)
         /\ device' = [connected |-> TRUE, unconfirmed |-> capabilities,
                       will |-> IF left.willPerBoot THEN 1 ELSE device.will + 1]
  /\ sent' = sent + 2
  /\ UNCHANGED <<gateway, db, followed, lost>>

(* The connection breaks: the broker publishes the will.                   *)
Disconnect ==
  /\ device.connected
  /\ device' = [device EXCEPT !.connected = FALSE]
  /\ LET will == [id |-> <<"will", device.will>>, channel |-> "status",
                  body |-> "offline"]
     IN  /\ retained' = [retained EXCEPT !["status"] = will]
         /\ wire' = Delivered(<<will>>)
  /\ UNCHANGED <<gateway, db, followed, lost, sent, left>>

PublishTelemetry ==
  /\ device.connected
  /\ left.samples > 0
  /\ left' = [left EXCEPT !.samples = @ - 1]
  /\ wire' = Delivered(<<New(1, "telemetry", None)>>)
  /\ sent' = sent + 1
  /\ UNCHANGED <<device, retained, gateway, db, followed, lost>>

PublishEvent(type) ==
  /\ device.connected
  /\ left.events > 0
  /\ left' = [left EXCEPT !.events = @ - 1]
  /\ wire' = Delivered(<<New(1, "event", type)>>)
  /\ device' = [device EXCEPT !.unconfirmed = New(1, "event", type)]
  /\ sent' = sent + 1
  /\ UNCHANGED <<retained, gateway, db, followed, lost>>

(* QoS 1: what was not confirmed is sent again.                            *)
PublishAgain ==
  /\ device.connected
  /\ device.unconfirmed # NoMessage
  /\ left.duplicates > 0
  /\ left' = [left EXCEPT !.duplicates = @ - 1]
  /\ wire' = Delivered(<<device.unconfirmed>>)
  /\ UNCHANGED <<device, retained, gateway, db, followed, lost, sent>>

-----------------------------------------------------------------------------
(* The MQTT loop: MqttGateway.run *)

(* What the broker keeps of a topic is one message or none.                *)
Kept(topic) ==
  IF retained[topic] = NoMessage THEN <<>> ELSE <<retained[topic]>>

(* The broker sends the retained messages of the topics subscribed to.     *)
Subscribed == Kept("status") \o Kept("capabilities")

GatewayConnect ==
  /\ ~gateway.connected
  /\ gateway' = [gateway EXCEPT !.connected = TRUE]
  /\ wire' = Subscribed
  /\ UNCHANGED <<device, retained, db, followed, lost, sent, left>>

(* The connection is lost between two messages: MqttError ends the loop    *)
(* over client.messages, and what had arrived is dropped.                  *)
GatewayDisconnect ==
  /\ gateway.connected /\ gateway.pc = "idle"
  /\ left.outages > 0
  /\ left' = [left EXCEPT !.outages = @ - 1]
  /\ gateway' = [gateway EXCEPT !.connected = FALSE]
  /\ wire' = <<>>
  /\ UNCHANGED <<device, retained, db, followed, lost, sent>>

(* Mutant: only the message before is known.                               *)
KnownLast(m) == gateway.message.id = m.id

Known(m) == m.id \in db.inbox

(* A message the inbox knows is dropped.                                   *)
Take ==
  /\ gateway.connected /\ gateway.pc = "idle"
  /\ wire # <<>>
  /\ wire' = Tail(wire)
  /\ gateway' = IF Known(Head(wire)) THEN gateway
                ELSE [gateway EXCEPT !.pc = "store", !.message = Head(wire)]
  /\ UNCHANGED <<device, retained, db, followed, lost, sent, left>>

(* Mutant: every message shows that the device is there.                   *)
StoredOnline(m) ==
  [db EXCEPT !.inbox = @ \cup {m.id}, !.status = "online",
             !.capability = IF m.channel = "capabilities" THEN m.id ELSE @]

(* The inbox row and what is committed with it: record_status, or the      *)
(* capabilities.                                                           *)
Stored(m) ==
  [db EXCEPT !.inbox = @ \cup {m.id},
             !.status = CASE m.channel = "status" -> m.body
                          [] m.channel = "capabilities" -> @
                          [] OTHER -> "online",
             !.capability = IF m.channel = "capabilities" THEN m.id ELSE @]

Store ==
  /\ gateway.pc = "store"
  /\ db' = Stored(gateway.message)
  /\ gateway' = [gateway EXCEPT
       !.pc = IF gateway.message.channel \in {"telemetry", "event"}
              THEN "effect" ELSE "follow"]
  /\ UNCHANGED <<device, retained, wire, followed, lost, sent, left>>

Latest(type) ==
  LET S == {n \in DOMAIN db.events : db.events[n].type = type}
  IN  {n \in S : \A k \in S : k <= n}

Collapses(m) == \E n \in Latest(m.body) : db.events[n].recent

(* record_telemetry, record_device_event                                   *)
Effect ==
  /\ gateway.pc = "effect"
  /\ LET m == gateway.message
         row == [id |-> m.id, type |-> m.body, recent |-> TRUE]
     IN  db' = IF m.channel = "telemetry"
               THEN [db EXCEPT !.samples = Append(@, m.id)]
               ELSE IF Collapses(m) THEN db
               ELSE [db EXCEPT !.events = Append(@, row)]
  /\ gateway' = [gateway EXCEPT !.pc = "follow"]
  /\ UNCHANGED <<device, retained, wire, followed, lost, sent, left>>

(* An exception: the open transaction is rolled back, what was committed   *)
(* stays, and a system.error goes on in place of the message.              *)
StoreFails ==
  /\ gateway.pc \in {"store", "effect"}
  /\ left.failures > 0
  /\ left' = [left EXCEPT !.failures = @ - 1]
  /\ gateway' = [gateway EXCEPT !.pc = "follow"]
  /\ lost' = lost \cup {gateway.message.id}
  /\ UNCHANGED <<device, retained, wire, db, followed, sent>>

(* handle_mqtt_message after the ingest: broadcast, then evaluation, or    *)
(* enqueue_event_run for an event, stored or not.                          *)
Followed(m) ==
  IF m.channel = "event" /\ m.body \notin Triggers THEN {} ELSE {m.id}

Follow ==
  /\ gateway.pc = "follow"
  /\ followed' = followed \cup Followed(gateway.message)
  /\ gateway' = [gateway EXCEPT !.pc = "idle"]
  /\ UNCHANGED <<device, retained, wire, db, lost, sent, left>>

(* The gateway stops and starts again.                                     *)
Crash ==
  /\ left.crashes > 0
  /\ gateway.connected
  /\ left' = [left EXCEPT !.crashes = @ - 1]
  /\ gateway' = [connected |-> FALSE, pc |-> "idle", message |-> NoMessage]
  /\ wire' = <<>>
  /\ lost' = IF gateway.pc \in {"effect", "follow"}
             THEN lost \cup {gateway.message.id} ELSE lost
  /\ UNCHANGED <<device, retained, db, followed, sent>>

EventAges(type) ==
  /\ \E n \in Latest(type) : db.events[n].recent
  /\ db' = [db EXCEPT !.events = [n \in DOMAIN @ |->
       IF @[n].type = type THEN [@[n] EXCEPT !.recent = FALSE] ELSE @[n]]]
  /\ UNCHANGED <<device, retained, wire, gateway, followed, lost, sent, left>>

-----------------------------------------------------------------------------
Device == \/ Connect \/ Disconnect \/ PublishTelemetry \/ PublishAgain
          \/ \E type \in EventTypes : PublishEvent(type)

Handle == Take \/ Store \/ Effect \/ Follow

Next == \/ Device \/ GatewayConnect \/ Handle
        \/ GatewayDisconnect \/ StoreFails \/ Crash
        \/ \E type \in EventTypes : EventAges(type)

(* The loop reconnects and takes the next message for ever.                *)
Fairness == WF_vars(GatewayConnect) /\ WF_vars(Handle)

Spec == Init /\ [][Next]_vars
FairSpec == Spec /\ Fairness

-----------------------------------------------------------------------------
(* Properties *)

Quiet == gateway.connected /\ gateway.pc = "idle" /\ wire = <<>>

(* A message that comes again, from the device or as a retained one, after *)
(* a restart or not, has no second effect.                                 *)
EffectOnce ==
  /\ \A m, n \in DOMAIN db.samples : m # n => db.samples[m] # db.samples[n]
  /\ \A m, n \in DOMAIN db.events : m # n => db.events[m].id # db.events[n].id

(* Once the gateway has taken all there is, it shows a device offline that *)
(* the broker knows to be gone, and online one that is connected: through  *)
(* outages and restarts the retained status heals what was missed.  Not    *)
(* so for a will that the inbox knows from an earlier connection of the    *)
(* same boot, nor after a failed transaction.                              *)
StatusIsTrue ==
  Quiet /\ lost = {} =>
    /\ device.connected => db.status = "online"
    /\ retained["status"].body = "offline" /\ ~left.willPerBoot
         => db.status = "offline"

(* The capabilities in force are the ones retained last.                   *)
CapabilityIsCurrent ==
  Quiet /\ lost = {} /\ retained["capabilities"] # NoMessage
    => db.capability = retained["capabilities"].id

(* What was stored is acted upon, unless the gateway stopped in between:   *)
(* an event row that triggers runs is followed by one, also a collapsed    *)
(* event.                                                                  *)
StoredIsFollowed ==
  \A n \in 1..Bound :
    LET id == <<"message", n>>
    IN  (gateway.pc = "effect" /\ gateway.message.id = id
           /\ gateway.message.body \in Triggers)
          ~> (id \in followed \cup lost)
=============================================================================
