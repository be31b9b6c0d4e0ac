---------------------------- MODULE GatewayProofs ----------------------------
(***************************************************************************)
(* Proofs about what a gateway passes on.                                  *)
(*                                                                         *)
(* DeviceIngress: its type invariant, that a message has one effect at     *)
(* most, and that the status told is true, for every number of messages,   *)
(* outages, restarts, failed transactions and messages sent again.         *)
(*                                                                         *)
(* LiveUpdates: its type invariant, that the browser keeps the end it has  *)
(* seen, that it shows no event twice and no ended command as pending, and *)
(* that the rows of realtime_events are leased work, for every number of   *)
(* commands, gateways, restarts and lost connections.                      *)
(***************************************************************************)
EXTENDS DeviceIngress, LiveUpdates, SequenceTheorems, WellFoundedInduction, TLAPS

-----------------------------------------------------------------------------
(* DeviceIngress *)

(* A status says online or offline, and an event is of a type there is.    *)
Proper ==
  {m \in Message :
     /\ m.channel = "status" => m.body \in {"online", "offline"}
     /\ m.channel = "event" => m.body \in EventTypes}

(* All that is on its way is a proper message, and one that has an effect   *)
(* in a transaction of its own is a sample or an event.                    *)
ProperInv ==
  /\ wire \in Seq(Proper)
  /\ retained \in [{"status", "capabilities"} -> Proper \cup {NoMessage}]
  /\ device.unconfirmed \in Proper \cup {NoMessage}
  /\ gateway.pc # "idle" => gateway.message \in Proper
  /\ gateway.pc = "effect" => gateway.message.channel \in {"telemetry", "event"}

TypeInv == TypeOK /\ ProperInv

Effective(id) ==
  \/ \E n \in DOMAIN db.samples : db.samples[n] = id
  \/ \E n \in DOMAIN db.events : db.events[n].id = id

(* The inbox knows each message that has had an effect.  One that is to be *)
(* stored is not known yet, and one that is known and in hand has had no   *)
(* effect.                                                                 *)
OnceInv ==
  /\ \A id : Effective(id) => id \in db.inbox
  /\ gateway.pc = "store" => gateway.message.id \notin db.inbox
  /\ gateway.pc = "effect" => /\ gateway.message.id \in db.inbox
                              /\ ~Effective(gateway.message.id)
  /\ EffectOnce

-----------------------------------------------------------------------------
(* Messages *)

LEMMA ProperIsMessage == Proper \subseteq Message /\ NoMessage \in Message
BY DEF Proper, Message, NoMessage, MessageId, Channels

(* What the device publishes is proper.                                    *)
LEMMA NewIsProper ==
  ASSUME sent \in Nat, NEW n \in Nat
  PROVE  /\ New(n, "status", "online") \in Proper
         /\ New(n, "capabilities", None) \in Proper
         /\ New(n, "telemetry", None) \in Proper
         /\ \A type \in EventTypes : New(n, "event", type) \in Proper
BY DEF New, Proper, Message, MessageId, Channels

LEMMA DeliveredIsProper ==
  ASSUME wire \in Seq(Proper), NEW messages \in Seq(Proper)
  PROVE  Delivered(messages) \in Seq(Proper)
BY DEF Delivered

LEMMA SubscribedIsProper == ASSUME ProperInv PROVE Subscribed \in Seq(Proper)
<1>1. Kept("status") \in Seq(Proper) /\ Kept("capabilities") \in Seq(Proper)
  BY DEF Kept, ProperInv
<1> QED  BY <1>1 DEF Subscribed

(* What is proper is a message, wherever it is.                            *)
LEMMA ProperTypes ==
  /\ \A w \in Seq(Proper) : w \in Seq(Message)
  /\ \A r \in [{"status", "capabilities"} -> Proper \cup {NoMessage}] :
       r \in [{"status", "capabilities"} -> Message]
  /\ \A m \in Proper \cup {NoMessage} : m \in Message
<1>1. \A S, T : S \subseteq T => Seq(S) \subseteq Seq(T)
  OBVIOUS
<1>2. Proper \subseteq Message /\ NoMessage \in Message
  BY ProperIsMessage
<1>3. \A w \in Seq(Proper) : w \in Seq(Message)
  BY <1>1, <1>2
<1> QED  BY <1>2, <1>3

(* A chance that is there can be spent.                                    *)
LEMMA SpentType ==
  ASSUME left \in Budget
  PROVE  /\ left.connects > 0 => [left EXCEPT !.connects = @ - 1] \in Budget
         /\ left.samples > 0 => [left EXCEPT !.samples = @ - 1] \in Budget
         /\ left.events > 0 => [left EXCEPT !.events = @ - 1] \in Budget
         /\ left.duplicates > 0
              => [left EXCEPT !.duplicates = @ - 1] \in Budget
         /\ left.outages > 0 => [left EXCEPT !.outages = @ - 1] \in Budget
         /\ left.crashes > 0 => [left EXCEPT !.crashes = @ - 1] \in Budget
         /\ left.failures > 0 => [left EXCEPT !.failures = @ - 1] \in Budget
BY DEF Budget

-----------------------------------------------------------------------------
(* The types *)

LEMMA InitType == Init => TypeInv
<1> SUFFICES ASSUME Init PROVE TypeInv
  OBVIOUS
<1>1. ProperInv
  BY DEF Init, ProperInv
<1>2. db \in Database
  BY DEF Init, Database, MessageId
<1>3. /\ device \in [connected: BOOLEAN, will: Nat, unconfirmed: Message]
      /\ gateway \in [connected: BOOLEAN, message: Message,
                      pc: {"idle", "store", "effect", "follow"}]
      /\ left \in Budget
      /\ db.capability # None => db.capability \in db.inbox
  BY IngressAssumption, ProperIsMessage DEF Init
<1> QED  BY <1>1, <1>2, <1>3, ProperTypes DEF Init, TypeInv, TypeOK

(* A step of the device: one chance, proper messages, and the gateway as   *)
(* it was.                                                                 *)
LEMMA DeviceType == TypeInv /\ Device => TypeInv'
<1> SUFFICES ASSUME TypeInv, Device PROVE TypeInv'
  OBVIOUS
<1>0. /\ ProperInv /\ TypeOK /\ sent \in Nat /\ left \in Budget
      /\ wire \in Seq(Proper)
  BY DEF TypeInv, TypeOK, ProperInv
<1>1. /\ left' \in Budget /\ sent' \in Nat
      /\ UNCHANGED <<gateway, db, followed, lost>>
  <2> USE <1>0, SpentType
  <2>1. CASE Connect  BY <2>1 DEF Connect
  <2>2. CASE Disconnect  BY <2>2 DEF Disconnect
  <2>3. CASE PublishTelemetry  BY <2>3 DEF PublishTelemetry
  <2>4. CASE PublishAgain  BY <2>4 DEF PublishAgain
  <2>5. CASE \E type \in EventTypes : PublishEvent(type)
    BY <2>5 DEF PublishEvent
  <2> QED  BY <2>1, <2>2, <2>3, <2>4, <2>5 DEF Device
<1>2. /\ wire' \in Seq(Proper)
      /\ retained' \in [{"status", "capabilities"} -> Proper \cup {NoMessage}]
      /\ device'.unconfirmed \in Proper \cup {NoMessage}
      /\ device' \in [connected: BOOLEAN, will: Nat, unconfirmed: Message]
  <2>1. CASE Connect
    <3> DEFINE online == New(1, "status", "online")
               capabilities == New(2, "capabilities", None)
    <3>1. /\ online \in Proper /\ capabilities \in Proper
          /\ <<online, capabilities>> \in Seq(Proper)
      BY <1>0, NewIsProper
    <3>2. /\ retained' = [status |-> online, capabilities |-> capabilities]
          /\ wire' = Delivered(<<online, capabilities>>)
          /\ device' = [connected |-> TRUE, unconfirmed |-> capabilities,
                        will |-> IF left.willPerBoot THEN 1 ELSE device.will + 1]
      BY <2>1 DEF Connect
    <3>3. wire' \in Seq(Proper)
      BY <1>0, <3>1, <3>2, DeliveredIsProper
    <3>4. device'.will \in Nat
      BY <1>0, <3>2 DEF TypeOK
    <3> QED  BY <3>1, <3>2, <3>3, <3>4, ProperTypes
  <2>2. CASE Disconnect
    <3> DEFINE will == [id |-> <<"will", device.will>>, channel |-> "status",
                        body |-> "offline"]
    <3>1. will \in Proper /\ <<will>> \in Seq(Proper)
      BY <1>0 DEF Proper, Message, MessageId, Channels, TypeOK
    <3>2. /\ retained' = [retained EXCEPT !["status"] = will]
          /\ wire' = Delivered(<<will>>)
          /\ device' = [device EXCEPT !.connected = FALSE]
      BY <2>2 DEF Disconnect
    <3>3. wire' \in Seq(Proper)
      BY <1>0, <3>1, <3>2, DeliveredIsProper
    <3> QED  BY <1>0, <3>1, <3>2, <3>3 DEF ProperInv, TypeOK
  <2>3. CASE PublishTelemetry
    <3>1. <<New(1, "telemetry", None)>> \in Seq(Proper)
      BY <1>0, NewIsProper
    <3>2. wire' \in Seq(Proper)
      BY <1>0, <2>3, <3>1, DeliveredIsProper DEF PublishTelemetry
    <3> QED  BY <1>0, <2>3, <3>2 DEF PublishTelemetry, ProperInv, TypeOK
  <2>4. CASE PublishAgain
    <3>1. <<device.unconfirmed>> \in Seq(Proper)
      BY <1>0, <2>4 DEF PublishAgain, ProperInv
    <3>2. wire' \in Seq(Proper)
      BY <1>0, <2>4, <3>1, DeliveredIsProper DEF PublishAgain
    <3> QED  BY <1>0, <2>4, <3>2 DEF PublishAgain, ProperInv, TypeOK
  <2>5. ASSUME NEW type \in EventTypes, PublishEvent(type)
        PROVE  <1>2!1 /\ <1>2!2 /\ <1>2!3 /\ <1>2!4
    <3>1. /\ New(1, "event", type) \in Proper
          /\ <<New(1, "event", type)>> \in Seq(Proper)
      BY <1>0, NewIsProper
    <3>2. wire' \in Seq(Proper)
      BY <1>0, <2>5, <3>1, DeliveredIsProper DEF PublishEvent
    <3>3. /\ retained' = retained
          /\ device' = [device EXCEPT !.unconfirmed = New(1, "event", type)]
      BY <2>5 DEF PublishEvent
    <3>4. New(1, "event", type) \in Message
      BY <3>1, ProperTypes
    <3> QED  BY <1>0, <3>1, <3>2, <3>3, <3>4 DEF ProperInv, TypeOK
  <2> QED  BY <2>1, <2>2, <2>3, <2>4, <2>5 DEF Device
<1> QED  BY <1>0, <1>1, <1>2, ProperTypes DEF TypeInv, TypeOK, ProperInv

LEMMA HandleType == TypeInv /\ Handle => TypeInv'
<1> SUFFICES ASSUME TypeInv, Handle PROVE TypeInv'
  OBVIOUS
<1> USE DEF TypeInv, TypeOK
<1>1. CASE Take
  <2>1. Head(wire) \in Proper /\ Tail(wire) \in Seq(Proper)
    BY <1>1 DEF Take, ProperInv
  <2>2. ProperInv'
    BY <1>1, <2>1 DEF Take, ProperInv
  <2> QED  BY <1>1, <2>1, <2>2, ProperTypes, ProperIsMessage DEF Take
<1>2. CASE Store
  <2> DEFINE m == gateway.message
  <2>1. m \in Proper /\ m.id \in MessageId
    BY <1>2, ProperIsMessage DEF Store, ProperInv, Message
  <2>2. db' = Stored(m)
    BY <1>2 DEF Store
  <2>3. db' \in Database
    BY <2>1, <2>2 DEF Stored, Database, Proper, Message, Channels
  <2>4. db'.capability # None => db'.capability \in db'.inbox
    BY <2>2 DEF Stored, Database
  <2>5. ProperInv'
    BY <1>2 DEF Store, ProperInv
  <2> QED  BY <1>2, <2>3, <2>4, <2>5, ProperTypes DEF Store
<1>3. CASE Effect
  <2> DEFINE m == gateway.message
             row == [id |-> m.id, type |-> m.body, recent |-> TRUE]
  <2>1. /\ m.id \in MessageId
        /\ m.channel = "event" => m.body \in EventTypes
    BY <1>3, ProperIsMessage DEF Effect, ProperInv, Message, Proper
  <2>2. CASE m.channel = "telemetry"
    <3>1. db' = [db EXCEPT !.samples = Append(@, m.id)]
      BY <1>3, <2>2 DEF Effect
    <3>0. Append(db.samples, m.id) \in Seq(MessageId)
      BY <2>1 DEF Database
    <3>2. db' \in Database /\ db'.capability = db.capability
                           /\ db'.inbox = db.inbox
      BY <3>0, <3>1 DEF Database
    <3> QED  BY <1>3, <3>2, ProperTypes DEF Effect, ProperInv
  <2>3. CASE m.channel # "telemetry" /\ Collapses(m)
    <3>1. db' = db
      BY <1>3, <2>3 DEF Effect
    <3> QED  BY <1>3, <3>1, ProperTypes DEF Effect, ProperInv
  <2>4. CASE m.channel # "telemetry" /\ ~Collapses(m)
    <3>1. db' = [db EXCEPT !.events = Append(@, row)]
      BY <1>3, <2>4 DEF Effect
    <3>0. m.channel = "event"
      BY <1>3, <2>4 DEF Effect, ProperInv
    <3>2. row \in [id: MessageId, type: EventTypes, recent: BOOLEAN]
      BY <2>1, <3>0
    <3>4. Append(db.events, row)
            \in Seq([id: MessageId, type: EventTypes, recent: BOOLEAN])
      BY <3>2 DEF Database
    <3>3. db' \in Database /\ db'.capability = db.capability
                           /\ db'.inbox = db.inbox
      BY <3>1, <3>4 DEF Database
    <3> QED  BY <1>3, <3>3, ProperTypes DEF Effect, ProperInv
  <2> QED  BY <2>2, <2>3, <2>4
<1>4. CASE Follow
  <2>1. followed' \subseteq MessageId
    BY <1>4 DEF Follow, Followed, Message
  <2>2. ProperInv'
    BY <1>4 DEF Follow, ProperInv
  <2> QED  BY <1>4, <2>1, <2>2, ProperTypes DEF Follow
<1> QED  BY <1>1, <1>2, <1>3, <1>4 DEF Handle

(* The loop connects, loses its connection, or fails; a worker may stop.   *)
LEMMA FaultType ==
  TypeInv /\ (GatewayConnect \/ GatewayDisconnect \/ StoreFails \/ Crash)
    => TypeInv'
<1> SUFFICES ASSUME TypeInv,
                    GatewayConnect \/ GatewayDisconnect \/ StoreFails \/ Crash
             PROVE  TypeInv'
  OBVIOUS
<1>0. TypeOK /\ ProperInv /\ left \in Budget
  BY DEF TypeInv, TypeOK
<1>1. CASE GatewayConnect
  <2>1. wire' \in Seq(Proper)
    BY <1>0, <1>1, SubscribedIsProper DEF GatewayConnect
  <2> QED  BY <1>0, <1>1, <2>1, ProperTypes
           DEF GatewayConnect, TypeInv, TypeOK, ProperInv
<1>2. CASE GatewayDisconnect
  <2>1. left' \in Budget
    BY <1>0, <1>2, SpentType DEF GatewayDisconnect
  <2>2. wire' \in Seq(Proper) /\ wire' \in Seq(Message)
    BY <1>2 DEF GatewayDisconnect
  <2>3. gateway' = [gateway EXCEPT !.connected = FALSE]
    BY <1>2 DEF GatewayDisconnect
  <2>4. UNCHANGED <<device, retained, db, followed, lost, sent>>
    BY <1>2 DEF GatewayDisconnect
  <2> QED  BY <1>0, <2>1, <2>2, <2>3, <2>4 DEF TypeInv, TypeOK, ProperInv
<1>3. CASE StoreFails
  <2>1. left' \in Budget
    BY <1>0, <1>3, SpentType DEF StoreFails
  <2>2. lost' \subseteq MessageId
    BY <1>0, <1>3 DEF StoreFails, TypeOK, Message
  <2> QED  BY <1>0, <1>3, <2>1, <2>2
           DEF StoreFails, TypeInv, TypeOK, ProperInv
<1>4. CASE Crash
  <2>1. left' \in Budget
    BY <1>0, <1>4, SpentType DEF Crash
  <2>2. lost' \subseteq MessageId
    BY <1>0, <1>4 DEF Crash, TypeOK, Message
  <2> QED  BY <1>0, <1>4, <2>1, <2>2, ProperIsMessage
           DEF Crash, TypeInv, TypeOK, ProperInv
<1> QED  BY <1>1, <1>2, <1>3, <1>4

(* What ageing leaves of the events: all but whether they are recent.      *)
LEMMA AgesType ==
  ASSUME TypeInv, NEW type \in EventTypes, EventAges(type)
  PROVE  /\ TypeInv'
         /\ UNCHANGED <<gateway, db.inbox, db.samples>>
         /\ Len(db'.events) = Len(db.events)
         /\ \A n \in DOMAIN db.events : db'.events[n].id = db.events[n].id
<1> DEFINE DbEvent == [id: MessageId, type: EventTypes, recent: BOOLEAN]
           aged == [n \in DOMAIN db.events |->
                        IF db.events[n].type = type
                        THEN [db.events[n] EXCEPT !.recent = FALSE]
                        ELSE db.events[n]]
<1>1. /\ db \in Database
      /\ db' = [db EXCEPT !.events = aged]
      /\ UNCHANGED <<device, retained, wire, gateway, followed, lost, sent, left>>
  BY DEF TypeInv, TypeOK, EventAges
<1>2. db.events \in Seq(DbEvent)
  BY <1>1 DEF Database
<1>3. /\ aged \in Seq(DbEvent)
      /\ Len(aged) = Len(db.events)
      /\ \A n \in DOMAIN db.events : aged[n].id = db.events[n].id
  <2>1. /\ DOMAIN db.events = 1..Len(db.events) /\ Len(db.events) \in Nat
        /\ \A n \in DOMAIN db.events : db.events[n] \in DbEvent
    <3> HIDE DEF DbEvent
    <3> QED  BY <1>2, LenProperties, ElementOfSeq
  <2>2. \A n \in DOMAIN db.events :
          aged[n] \in DbEvent /\ aged[n].id = db.events[n].id
    BY <2>1
  <2>3. aged \in [1..Len(db.events) -> DbEvent]
    BY <2>1, <2>2
  <2>4. aged \in Seq(DbEvent) /\ Len(aged) = Len(db.events)
    BY <2>1, <2>3, LenProperties, SeqDef
  <2> QED  BY <2>2, <2>4
<1>4. db'.events = aged /\ db' \in Database
  BY <1>1, <1>3 DEF Database
<1> HIDE DEF aged
<1>5. TypeInv'
  BY <1>1, <1>4 DEF TypeInv, TypeOK, ProperInv, Database
<1> QED  BY <1>1, <1>3, <1>4, <1>5

LEMMA NextType == TypeInv /\ [Next]_vars => TypeInv'
<1> SUFFICES ASSUME TypeInv, [Next]_vars PROVE TypeInv'
  OBVIOUS
<1>1. CASE UNCHANGED vars
  BY <1>1 DEF vars, TypeInv, TypeOK, ProperInv
<1> QED  BY <1>1, DeviceType, HandleType, FaultType, AgesType DEF Next

(* Whatever is sent, lost, sent again or fails, the messages, the gateway  *)
(* and its tables keep their types, and the capabilities in force are of a *)
(* message the inbox knows.                                                *)
THEOREM TypeCorrect == Spec => []TypeOK
<1>1. TypeInv => TypeOK
  BY DEF TypeInv
<1> QED  BY InitType, NextType, <1>1, PTL DEF Spec

-----------------------------------------------------------------------------
(* One effect at most *)

LEMMA OnceStep == TypeInv /\ OnceInv /\ [Next]_vars => OnceInv'
<1> SUFFICES ASSUME TypeInv, OnceInv, [Next]_vars PROVE OnceInv'
  OBVIOUS
<1>0. /\ db \in Database
      /\ db.samples \in Seq(MessageId)
      /\ db.events \in Seq([id: MessageId, type: EventTypes, recent: BOOLEAN])
  BY DEF TypeInv, TypeOK, Database
<1>1. CASE UNCHANGED <<gateway, db>>
  BY <1>1 DEF OnceInv, Effective, EffectOnce
<1>2. CASE db' = db /\ gateway'.pc \notin {"store", "effect"}
  BY <1>2 DEF OnceInv, Effective, EffectOnce
<1>3. CASE Device
  BY <1>1, <1>3 DEF Device, Connect, Disconnect, PublishTelemetry,
                    PublishEvent, PublishAgain
<1>4. CASE GatewayConnect \/ GatewayDisconnect
  <2>1. gateway'.pc = gateway.pc /\ gateway'.message = gateway.message
    BY <1>4 DEF GatewayConnect, GatewayDisconnect, TypeInv, TypeOK
  <2>2. db' = db
    BY <1>4 DEF GatewayConnect, GatewayDisconnect
  <2> QED  BY <2>1, <2>2 DEF OnceInv, Effective, EffectOnce
<1>5. CASE StoreFails \/ Crash \/ Follow
  BY <1>2, <1>5 DEF StoreFails, Crash, Follow, TypeInv, TypeOK
<1>6. CASE Take
  <2>1. CASE Known(Head(wire))
    BY <1>1, <1>6, <2>1 DEF Take
  <2>2. CASE ~Known(Head(wire))
    <3>1. /\ db' = db /\ gateway'.pc = "store"
          /\ gateway'.message.id \notin db.inbox
      BY <1>6, <2>2 DEF Take, Known, TypeInv, TypeOK
    <3> QED  BY <3>1 DEF OnceInv, Effective, EffectOnce
  <2> QED  BY <2>1, <2>2
<1>7. CASE Store
  <2> DEFINE id == gateway.message.id
  <2>1. /\ db'.inbox = db.inbox \cup {id}
        /\ db'.samples = db.samples /\ db'.events = db.events
        /\ gateway'.pc \in {"effect", "follow"}
        /\ gateway'.message = gateway.message
    BY <1>0, <1>7 DEF Store, Stored, Database, TypeInv, TypeOK
  <2>2. ~Effective(id)
    BY <1>7 DEF Store, OnceInv
  <2> QED  BY <2>1, <2>2 DEF OnceInv, Effective, EffectOnce
<1>8. CASE Effect
  <2> DEFINE m == gateway.message
             row == [id |-> m.id, type |-> m.body, recent |-> TRUE]
  <2>1. /\ m.id \in db.inbox /\ ~Effective(m.id)
        /\ gateway'.pc = "follow"
    BY <1>8 DEF Effect, OnceInv, TypeInv, TypeOK
  <2>2. \/ db' = db
        \/ /\ db'.samples = Append(db.samples, m.id)
           /\ db'.inbox = db.inbox /\ db'.events = db.events
        \/ /\ db'.events = Append(db.events, row)
           /\ db'.inbox = db.inbox /\ db'.samples = db.samples
    BY <1>0, <1>8 DEF Effect, Database
  <2>3. CASE db' = db
    BY <1>2, <2>1, <2>3
  <2>4. CASE /\ db'.samples = Append(db.samples, m.id)
             /\ db'.inbox = db.inbox /\ db'.events = db.events
    BY <1>0, <2>1, <2>4 DEF OnceInv, Effective, EffectOnce
  <2>5. CASE /\ db'.events = Append(db.events, row)
             /\ db'.inbox = db.inbox /\ db'.samples = db.samples
    BY <1>0, <2>1, <2>5 DEF OnceInv, Effective, EffectOnce
  <2> QED  BY <2>2, <2>3, <2>4, <2>5
<1>9. ASSUME NEW type \in EventTypes, EventAges(type) PROVE OnceInv'
  <2>1. DOMAIN db'.events = DOMAIN db.events
    BY <1>0, <1>9, AgesType DEF TypeInv, TypeOK, Database
  <2> QED  BY <1>9, <2>1, AgesType DEF OnceInv, Effective, EffectOnce
<1>10. CASE UNCHANGED vars
  BY <1>1, <1>10 DEF vars
<1> QED  BY <1>3, <1>4, <1>5, <1>6, <1>7, <1>8, <1>9, <1>10 DEF Next, Handle

(* No message has a second effect: not one the device sends again, nor a   *)
(* retained one that comes with every connection, whatever fails or stops  *)
(* between the inbox row and the effect.                                   *)
THEOREM MessagesTakeEffectOnce == Spec => []EffectOnce
<1>1. Init => OnceInv
  BY DEF Init, OnceInv, Effective, EffectOnce
<1>2. OnceInv => EffectOnce
  BY DEF OnceInv
<1> QED  BY InitType, NextType, OnceStep, <1>1, <1>2, PTL DEF Spec

-----------------------------------------------------------------------------
(* The status is true *)

Stated == retained["status"]

(* Ids of the messages there are or were.                                  *)
Ids(w) == {w[i].id : i \in DOMAIN w}

Around ==
  db.inbox \cup Ids(wire) \cup {gateway.message.id, device.unconfirmed.id}
    \cup {Stated.id, retained["capabilities"].id}

(* A number that was not used yet is in no id; the will of a connection is  *)
(* new when it breaks, unless the will is one for the boot.                 *)
FreshInv ==
  \A n \in Nat :
    /\ <<"message", n>> \in Around => n <= sent
    /\ <<"will", n>> \in Around /\ ~left.willPerBoot =>
         n <= device.will /\ (device.connected => n # device.will)

(* The retained status says whether the device is connected, under an id    *)
(* that no other message of the connection has.  Nothing waits for a        *)
(* gateway that is away.                                                   *)
RetainedInv ==
  /\ device.connected => Stated # NoMessage
  /\ Stated # NoMessage =>
       /\ Stated.channel = "status"
       /\ Stated.body = IF device.connected THEN "online" ELSE "offline"
       /\ Stated.id # retained["capabilities"].id
       /\ device.connected => Stated.id # device.unconfirmed.id
  /\ retained["capabilities"] # NoMessage =>
       retained["capabilities"].channel = "capabilities"
  /\ retained["capabilities"].id[1] = "message"
  /\ device.unconfirmed # NoMessage => device.unconfirmed.channel # "status"
  /\ ~gateway.connected => wire = <<>> /\ gateway.pc = "idle"

(* A message that would make of the status s another one.                  *)
Contrary(m, s) ==
  \/ m.channel = "status" /\ m.body # s.body
  \/ m.channel \in {"telemetry", "event"} /\ s.body # "online"

Clear(w, s) == \A i \in DOMAIN w : ~Contrary(w[i], s)

(* Wherever s is on its way, nothing contrary comes behind it.             *)
Ordered(w, s) ==
  \A i \in DOMAIN w : w[i].id = s.id =>
    w[i] = s /\ \A j \in DOMAIN w : j > i => ~Contrary(w[j], s)

InHand(s) == gateway.pc = "store" /\ gateway.message.id = s.id

(* The retained status is one that the gateway can learn: nothing was lost, *)
(* and its id is not that of an earlier one.                                *)
Learnable ==
  /\ lost = {} /\ Stated # NoMessage
  /\ Stated.body = "online" \/ ~left.willPerBoot

(* It is on its way, or in hand, or stored, and nothing contrary follows.   *)
StatusInv ==
  Learnable =>
    /\ InHand(Stated) => gateway.message = Stated /\ Clear(wire, Stated)
    /\ Ordered(wire, Stated)
    /\ Stated.id \notin db.inbox /\ gateway.connected =>
         InHand(Stated) \/ Stated.id \in Ids(wire)
    /\ Stated.id \in db.inbox =>
         /\ db.status = Stated.body
         /\ Clear(wire, Stated)
         /\ gateway.pc = "store" => ~Contrary(gateway.message, Stated)

(* Sequences of messages on their way *)

LEMMA IdsOfSeq ==
  ASSUME NEW v \in Seq(Message), NEW w \in Seq(Message)
  PROVE  /\ Ids(v \o w) = Ids(v) \cup Ids(w)
         /\ \A s : Clear(v \o w, s) <=> Clear(v, s) /\ Clear(w, s)
         /\ \A s : s.id \notin Ids(w) /\ Ordered(v, s) /\ Clear(w, s)
                     => Ordered(v \o w, s)
         /\ \A s : s.id \notin Ids(v) /\ Ordered(w, s) => Ordered(v \o w, s)
<1>1. /\ DOMAIN (v \o w) = 1..(Len(v) + Len(w))
      /\ DOMAIN v = 1..Len(v) /\ DOMAIN w = 1..Len(w)
      /\ Len(v) \in Nat /\ Len(w) \in Nat
      /\ \A i \in 1..Len(v) : (v \o w)[i] = v[i]
      /\ \A i \in 1..Len(w) : (v \o w)[Len(v) + i] = w[i]
  OBVIOUS
<1>2. \A i \in DOMAIN (v \o w) :
        \/ i \in DOMAIN v /\ (v \o w)[i] = v[i]
        \/ /\ i - Len(v) \in DOMAIN w
           /\ (v \o w)[i] = w[i - Len(v)]
  BY <1>1
<1>3. /\ \A i \in DOMAIN v : i \in DOMAIN (v \o w) /\ (v \o w)[i] = v[i]
      /\ \A i \in DOMAIN w : /\ Len(v) + i \in DOMAIN (v \o w)
                             /\ (v \o w)[Len(v) + i] = w[i]
  BY <1>1
<1>4. Ids(v \o w) = Ids(v) \cup Ids(w)
  <2>1. \A i \in DOMAIN (v \o w) : (v \o w)[i].id \in Ids(v) \cup Ids(w)
    BY <1>2 DEF Ids
  <2>2. \A i \in DOMAIN v : v[i].id \in Ids(v \o w)
    BY <1>3 DEF Ids
  <2>3. \A i \in DOMAIN w : w[i].id \in Ids(v \o w)
    BY <1>3 DEF Ids
  <2> QED  BY <2>1, <2>2, <2>3 DEF Ids
<1>5. \A s : Clear(v \o w, s) <=> Clear(v, s) /\ Clear(w, s)
  BY <1>2, <1>3 DEF Clear
<1>6. ASSUME NEW s, s.id \notin Ids(w), Ordered(v, s), Clear(w, s)
      PROVE  Ordered(v \o w, s)
  <2> SUFFICES ASSUME NEW i \in DOMAIN (v \o w), (v \o w)[i].id = s.id
               PROVE  /\ (v \o w)[i] = s
                      /\ \A j \in DOMAIN (v \o w) :
                           j > i => ~Contrary((v \o w)[j], s)
    BY DEF Ordered
  <2>1. i \in DOMAIN v /\ (v \o w)[i] = v[i]
    BY <1>2, <1>6 DEF Ids
  <2>2. v[i] = s /\ \A j \in DOMAIN v : j > i => ~Contrary(v[j], s)
    BY <1>6, <2>1 DEF Ordered
  <2> QED  BY <1>2, <1>6, <2>1, <2>2 DEF Clear
<1>7. ASSUME NEW s, s.id \notin Ids(v), Ordered(w, s)
      PROVE  Ordered(v \o w, s)
  <2> SUFFICES ASSUME NEW i \in DOMAIN (v \o w), (v \o w)[i].id = s.id
               PROVE  /\ (v \o w)[i] = s
                      /\ \A j \in DOMAIN (v \o w) :
                           j > i => ~Contrary((v \o w)[j], s)
    BY DEF Ordered
  <2>1. i - Len(v) \in DOMAIN w /\ (v \o w)[i] = w[i - Len(v)]
    BY <1>2, <1>7 DEF Ids
  <2>2. /\ w[i - Len(v)] = s
        /\ \A j \in DOMAIN w : j > i - Len(v) => ~Contrary(w[j], s)
    BY <1>7, <2>1 DEF Ordered
  <2>3. ASSUME NEW j \in DOMAIN (v \o w), j > i
        PROVE  ~Contrary((v \o w)[j], s)
    <3>1. j - Len(v) \in DOMAIN w /\ (v \o w)[j] = w[j - Len(v)]
      BY <1>1, <1>2, <2>1, <2>3
    <3>2. j - Len(v) > i - Len(v)
      BY <1>1, <2>3
    <3> QED  BY <2>2, <3>1, <3>2
  <2> QED  BY <2>1, <2>2, <2>3
<1> QED  BY <1>4, <1>5, <1>6, <1>7

LEMMA IdsOfTail ==
  ASSUME NEW w \in Seq(Message), w # <<>>
  PROVE  /\ Head(w).id \in Ids(w)
         /\ Ids(w) = {Head(w).id} \cup Ids(Tail(w))
         /\ \A s : Clear(w, s) => Clear(Tail(w), s) /\ ~Contrary(Head(w), s)
         /\ \A s : Ordered(w, s) => Ordered(Tail(w), s)
         /\ \A s : Ordered(w, s) /\ Head(w).id = s.id
                     => Head(w) = s /\ Clear(Tail(w), s)
<1>1. /\ DOMAIN w = 1..Len(w) /\ Len(w) \in Nat \ {0}
      /\ DOMAIN Tail(w) = 1..(Len(w) - 1)
      /\ Head(w) = w[1]
      /\ \A i \in 1..(Len(w) - 1) : Tail(w)[i] = w[i + 1]
  OBVIOUS
<1>2. \A i \in DOMAIN Tail(w) : i + 1 \in DOMAIN w /\ Tail(w)[i] = w[i + 1]
  BY <1>1
<1>3. \A i \in DOMAIN w : i # 1 =>
        i - 1 \in DOMAIN Tail(w) /\ Tail(w)[i - 1] = w[i]
  BY <1>1
<1>4. 1 \in DOMAIN w
  BY <1>1
<1>5. /\ Head(w).id \in Ids(w)
      /\ Ids(w) = {Head(w).id} \cup Ids(Tail(w))
  BY <1>1, <1>2, <1>3, <1>4 DEF Ids
<1>6. \A s : Clear(w, s) => Clear(Tail(w), s) /\ ~Contrary(Head(w), s)
  BY <1>1, <1>2, <1>4 DEF Clear
<1>7. ASSUME NEW s, Ordered(w, s) PROVE Ordered(Tail(w), s)
  <2> SUFFICES ASSUME NEW i \in DOMAIN Tail(w), Tail(w)[i].id = s.id
               PROVE  /\ Tail(w)[i] = s
                      /\ \A j \in DOMAIN Tail(w) :
                           j > i => ~Contrary(Tail(w)[j], s)
    BY DEF Ordered
  <2>1. w[i + 1] = s /\ \A j \in DOMAIN w : j > i + 1 => ~Contrary(w[j], s)
    BY <1>2, <1>7 DEF Ordered
  <2>2. \A j \in DOMAIN Tail(w) : j > i => j + 1 > i + 1
    BY <1>1
  <2> QED  BY <1>2, <2>1, <2>2
<1>8. ASSUME NEW s, Ordered(w, s), Head(w).id = s.id
      PROVE  Head(w) = s /\ Clear(Tail(w), s)
  <2>1. w[1] = s /\ \A j \in DOMAIN w : j > 1 => ~Contrary(w[j], s)
    BY <1>1, <1>4, <1>8 DEF Ordered
  <2>2. \A i \in DOMAIN Tail(w) : i + 1 > 1
    BY <1>1
  <2> QED  BY <1>1, <1>2, <2>1, <2>2 DEF Clear
<1> QED  BY <1>5, <1>6, <1>7, <1>8

(* What the device and the broker do to the wire and the retained status.  *)

(* The device comes: a new status, and the capabilities behind it.         *)
Came ==
  LET online == New(1, "status", "online")
      capabilities == New(2, "capabilities", None)
  IN  /\ retained' = [status |-> online, capabilities |-> capabilities]
      /\ device'.unconfirmed = capabilities /\ device'.connected
      /\ ~device.connected
      /\ ~left.willPerBoot => device'.will = device.will + 1
      /\ wire' = Delivered(<<online, capabilities>>)
      /\ sent' = sent + 2

(* It goes: the will is the status.                                        *)
Gone ==
  LET will == [id |-> <<"will", device.will>>, channel |-> "status",
               body |-> "offline"]
  IN  /\ retained' = [status |-> will, capabilities |-> retained["capabilities"]]
      /\ device' = [device EXCEPT !.connected = FALSE]
      /\ device.connected
      /\ wire' = Delivered(<<will>>)
      /\ sent' = sent

(* It says something else, new or once more.                               *)
Told(m) ==
  /\ retained' = retained
  /\ device.connected /\ device'.connected /\ device'.will = device.will
  /\ wire' = Delivered(<<m>>)
  /\ \/ /\ m.id = <<"message", sent + 1>>
        /\ m.channel \in {"telemetry", "event"}
        /\ device'.unconfirmed \in {m, device.unconfirmed}
        /\ sent' = sent + 1
     \/ /\ m = device.unconfirmed /\ m # NoMessage
        /\ device' = device
        /\ sent' = sent

LEMMA DeviceStep ==
  ASSUME TypeInv, Device
  PROVE  /\ UNCHANGED <<gateway, db, lost, left.willPerBoot>>
         /\ Came \/ Gone \/ \E m \in Proper : Told(m)
<1>0. /\ left \in Budget /\ sent \in Nat
      /\ device \in [connected: BOOLEAN, will: Nat, unconfirmed: Message]
      /\ retained \in [{"status", "capabilities"} -> Message]
      /\ device.unconfirmed \in Proper \cup {NoMessage}
  BY DEF TypeInv, TypeOK, ProperInv
<1>1. UNCHANGED <<gateway, db, lost, left.willPerBoot>>
  BY <1>0 DEF Device, Connect, Disconnect, PublishTelemetry, PublishAgain,
              PublishEvent, Budget
<1>2. CASE Connect
  BY <1>0, <1>1, <1>2 DEF Connect, Came
<1>3. CASE Disconnect
  BY <1>0, <1>1, <1>3 DEF Disconnect, Gone
<1>4. CASE PublishTelemetry
  <2>1. New(1, "telemetry", None) \in Proper
    BY <1>0, NewIsProper
  <2>2. Told(New(1, "telemetry", None))
    BY <1>0, <1>4 DEF PublishTelemetry, Told, New
  <2> QED  BY <1>1, <2>1, <2>2
<1>5. CASE PublishAgain
  <2>1. Told(device.unconfirmed) /\ device.unconfirmed \in Proper
    BY <1>0, <1>5 DEF PublishAgain, Told
  <2> QED  BY <1>1, <2>1
<1>6. ASSUME NEW type \in EventTypes, PublishEvent(type)
      PROVE  \E m \in Proper : Told(m)
  <2>1. New(1, "event", type) \in Proper
    BY <1>0, NewIsProper
  <2>2. Told(New(1, "event", type))
    BY <1>0, <1>6 DEF PublishEvent, Told, New
  <2> QED  BY <2>1, <2>2
<1> QED  BY <1>1, <1>2, <1>3, <1>4, <1>5, <1>6 DEF Device

LEMMA DeliveredIds ==
  ASSUME TypeInv, NEW w \in Seq(Message)
  PROVE  Ids(Delivered(w)) \subseteq Ids(wire) \cup Ids(w)
<1>1. wire \in Seq(Message)
  BY DEF TypeInv, TypeOK
<1> QED  BY <1>1, IdsOfSeq DEF Delivered

LEMMA IdsOfFew ==
  /\ Ids(<<>>) = {}
  /\ \A m : Ids(<<m>>) = {m.id}
  /\ \A m, n : Ids(<<m, n>>) = {m.id, n.id}
BY DEF Ids

(* What the gateway does brings no id of a new message.                    *)
LEMMA GatewayStep ==
  ASSUME TypeInv, RetainedInv, Next, ~Device
  PROVE  /\ UNCHANGED <<device, retained, sent, left.willPerBoot>>
         /\ lost \subseteq lost'
         /\ \A id \in Around' : id \in Around \/ id = NoMessage.id
<1>0. /\ left \in Budget
      /\ gateway \in [connected: BOOLEAN, message: Message,
                      pc: {"idle", "store", "effect", "follow"}]
      /\ db \in Database /\ wire \in Seq(Message)
      /\ retained \in [{"status", "capabilities"} -> Message]
  BY DEF TypeInv, TypeOK
<1>1. UNCHANGED <<device, retained, sent, left.willPerBoot>> /\ lost \subseteq lost'
  BY <1>0 DEF Next, GatewayConnect, GatewayDisconnect, Handle, Take, Store,
              Effect, Follow, StoreFails, Crash, EventAges, Budget
<1>2. db'.inbox \subseteq db.inbox \cup {gateway.message.id}
  <2>1. CASE Store
    BY <1>0, <2>1 DEF Store, Stored, Database
  <2>2. CASE Effect
    BY <1>0, <2>2 DEF Effect, Database
  <2>3. ASSUME NEW type \in EventTypes, EventAges(type)
        PROVE  db'.inbox = db.inbox
    BY <2>3, AgesType
  <2>4. CASE GatewayConnect \/ GatewayDisconnect \/ Take \/ Follow
               \/ StoreFails \/ Crash
    BY <2>4 DEF GatewayConnect, GatewayDisconnect, Take, Follow, StoreFails,
                Crash
  <2> QED  BY <2>1, <2>2, <2>3, <2>4 DEF Next, Handle
<1>3. /\ Ids(wire') \subseteq Around
      /\ gateway'.message.id \in Around \cup {NoMessage.id}
  <2>1. CASE GatewayConnect
    <3>1. Ids(Subscribed) \subseteq Around
      <4>1. \A topic \in {"status", "capabilities"} :
              Kept(topic) \in Seq(Message) /\ Ids(Kept(topic)) \subseteq Around
        BY <1>0, IdsOfFew DEF Kept, Around, Stated
      <4> QED  BY <4>1, IdsOfSeq DEF Subscribed
    <3> QED  BY <1>0, <2>1, <3>1 DEF GatewayConnect, Around
  <2>2. CASE GatewayDisconnect \/ Crash
    BY <1>0, <2>2, IdsOfFew DEF GatewayDisconnect, Crash, Around
  <2>3. CASE Take
    BY <1>0, <2>3, IdsOfTail DEF Take, Around
  <2>4. CASE Store \/ Effect \/ Follow \/ StoreFails
    BY <1>0, <2>4 DEF Store, Effect, Follow, StoreFails, Around
  <2>5. ASSUME NEW type \in EventTypes, EventAges(type) PROVE <1>3
    BY <2>5 DEF EventAges, Around
  <2> QED  BY <2>1, <2>2, <2>3, <2>4, <2>5 DEF Next, Handle
<1> QED  BY <1>1, <1>2, <1>3 DEF Around, Stated

(* The ids of a step: the old ones, and new ones with larger numbers.      *)
LEMMA FreshIds ==
  ASSUME FreshInv, NEW X, Around' \subseteq Around \cup X,
         sent \in Nat, sent' \in Nat, sent' >= sent,
         UNCHANGED left.willPerBoot,
         \A n \in Nat : <<"message", n>> \in X => n <= sent',
         ~left.willPerBoot => \A n \in Nat :
           (<<"will", n>> \in X
              \/ (n <= device.will /\ (device.connected => n # device.will)))
             => n <= device'.will /\ (device'.connected => n # device'.will)
  PROVE  FreshInv'
<1> SUFFICES ASSUME NEW n \in Nat
             PROVE  /\ <<"message", n>> \in Around' => n <= sent'
                    /\ <<"will", n>> \in Around' /\ ~left'.willPerBoot =>
                         /\ n <= device'.will
                         /\ device'.connected => n # device'.will
  BY Zenon DEF FreshInv
<1>1. /\ <<"message", n>> \in Around => n <= sent
      /\ <<"will", n>> \in Around /\ ~left.willPerBoot =>
           n <= device.will /\ (device.connected => n # device.will)
  BY DEF FreshInv
<1>2. ASSUME <<"message", n>> \in Around' PROVE n <= sent'
  <2>1. CASE <<"message", n>> \in X
    BY <2>1
  <2>2. CASE <<"message", n>> \in Around
    <3>1. n <= sent
      BY <1>1, <2>2
    <3> QED  BY <3>1
  <2> QED  BY <1>2, <2>1, <2>2
<1>3. ASSUME <<"will", n>> \in Around', ~left'.willPerBoot
      PROVE  n <= device'.will /\ (device'.connected => n # device'.will)
  <2>0. ~left.willPerBoot
    BY <1>3
  <2>1. CASE <<"will", n>> \in X
    BY <2>0, <2>1
  <2>2. CASE <<"will", n>> \in Around
    <3>1. n <= device.will /\ (device.connected => n # device.will)
      BY <1>1, <2>0, <2>2
    <3> QED  BY <2>0, <3>1
  <2> QED  BY <1>3, <2>1, <2>2
<1> QED  BY <1>2, <1>3

LEMMA FreshStep == TypeInv /\ RetainedInv /\ FreshInv /\ [Next]_vars => FreshInv'
<1> SUFFICES ASSUME TypeInv, RetainedInv, FreshInv, [Next]_vars PROVE FreshInv'
  OBVIOUS
<1>0. /\ sent \in Nat /\ wire \in Seq(Message)
      /\ device \in [connected: BOOLEAN, will: Nat, unconfirmed: Message]
      /\ retained \in [{"status", "capabilities"} -> Message]
  BY DEF TypeInv, TypeOK
<1>1. CASE UNCHANGED vars
  BY <1>1 DEF vars, FreshInv, Around, Stated, Ids
<1>2. CASE Next /\ ~Device
  <2> DEFINE X == {NoMessage.id}
  <2>1. /\ UNCHANGED <<device, retained, sent, left.willPerBoot>>
        /\ Around' \subseteq Around \cup X
    BY <1>2, GatewayStep
  <2>2. \A n \in Nat : <<"will", n>> \notin X
    BY DEF NoMessage
  <2>3. \A n \in Nat : <<"message", n>> \in X => n <= sent
    BY <1>0 DEF NoMessage
  <2> HIDE DEF X
  <2>4. ~left.willPerBoot => \A n \in Nat :
       (<<"will", n>> \in X
          \/ (n <= device.will /\ (device.connected => n # device.will)))
         => n <= device'.will /\ (device'.connected => n # device'.will)
    BY <2>1, <2>2
  <2>5. sent >= sent
    BY <1>0
  <2> QED  BY <1>0, <2>1, <2>3, <2>4, <2>5, FreshIds
<1>3. CASE Device
  <2>1. UNCHANGED <<gateway, db, lost, left.willPerBoot>>
    BY <1>3, DeviceStep
  <2>2. CASE Came
    <3> DEFINE X == {<<"message", sent + 1>>, <<"message", sent + 2>>}
               online == New(1, "status", "online")
               capabilities == New(2, "capabilities", None)
    <3>1. /\ retained' = [status |-> online, capabilities |-> capabilities]
          /\ device'.unconfirmed = capabilities /\ ~device.connected
          /\ ~left.willPerBoot => device'.will = device.will + 1
          /\ wire' = Delivered(<<online, capabilities>>)
          /\ sent' = sent + 2
      BY <2>2 DEF Came
    <3>2. online.id \in X /\ capabilities.id \in X
      BY DEF New
    <3>3. online \in Message /\ capabilities \in Message
      BY <1>0, NewIsProper, ProperIsMessage
    <3>4. Ids(wire') \subseteq Ids(wire) \cup X
      <4>0. <<online, capabilities>> \in Seq(Message)
        BY <3>3
      <4> HIDE DEF online, capabilities
      <4>1. Ids(Delivered(<<online, capabilities>>))
              \subseteq Ids(wire) \cup Ids(<<online, capabilities>>)
        BY <4>0, DeliveredIds
      <4>2. Ids(<<online, capabilities>>) = {online.id, capabilities.id}
        BY IdsOfFew
      <4> QED  BY <3>1, <3>2, <4>1, <4>2
    <3>5. Around' \subseteq Around \cup X
      BY <2>1, <3>1, <3>2, <3>4 DEF Around, Stated
    <3>6. \A n \in Nat : <<"will", n>> \notin X
      OBVIOUS
    <3>7. \A n \in Nat : <<"message", n>> \in X => n <= sent + 2
      BY <1>0
    <3> HIDE DEF X
    <3>8. ~left.willPerBoot => \A n \in Nat :
         (<<"will", n>> \in X
            \/ (n <= device.will /\ (device.connected => n # device.will)))
           => n <= device'.will /\ (device'.connected => n # device'.will)
      BY <1>0, <3>1, <3>6
    <3>9. sent + 2 >= sent /\ sent + 2 \in Nat
      BY <1>0
    <3> QED  BY <1>0, <2>1, <3>1, <3>5, <3>7, <3>8, <3>9, FreshIds
  <2>3. CASE Gone
    <3> DEFINE will == [id |-> <<"will", device.will>>, channel |-> "status",
                        body |-> "offline"]
               X == {<<"will", device.will>>}
    <3>0. will \in Message /\ will.id \in X
      BY <1>0 DEF Message, MessageId, Channels
    <3>1. /\ retained' = [status |-> will, capabilities |-> retained["capabilities"]]
          /\ device'.will = device.will /\ ~device'.connected
          /\ device'.unconfirmed = device.unconfirmed
          /\ wire' = Delivered(<<will>>) /\ sent' = sent
      BY <1>0, <2>3 DEF Gone
    <3>2. Ids(wire') \subseteq Ids(wire) \cup X
      <4> HIDE DEF will, X
      <4>1. <<will>> \in Seq(Message) /\ Ids(<<will>>) = {will.id}
        BY <3>0, IdsOfFew
      <4>2. Ids(Delivered(<<will>>)) \subseteq Ids(wire) \cup Ids(<<will>>)
        BY <4>1, DeliveredIds
      <4> QED  BY <3>0, <3>1, <4>1, <4>2
    <3>3. Around' \subseteq Around \cup X
      BY <2>1, <3>0, <3>1, <3>2 DEF Around, Stated
    <3>4. \A n \in Nat : <<"message", n>> \notin X
      OBVIOUS
    <3>5. \A n \in Nat : <<"will", n>> \in X => n <= device.will
      BY <1>0
    <3> HIDE DEF X
    <3>6. ~left.willPerBoot => \A n \in Nat :
         (<<"will", n>> \in X
            \/ (n <= device.will /\ (device.connected => n # device.will)))
           => n <= device'.will /\ (device'.connected => n # device'.will)
      BY <1>0, <3>1, <3>5
    <3>7. sent >= sent
      BY <1>0
    <3> QED  BY <1>0, <2>1, <3>1, <3>3, <3>4, <3>6, <3>7, FreshIds
  <2>4. ASSUME NEW m \in Proper, Told(m) PROVE FreshInv'
    <3> DEFINE X == {<<"message", sent'>>}
    <3>0. /\ UNCHANGED <<device.will, device.connected, retained>>
          /\ wire' = Delivered(<<m>>)
          /\ sent' >= sent /\ sent' \in Nat
          /\ device'.unconfirmed \in {m, device.unconfirmed}
          /\ m.id \in X \/ m = device.unconfirmed
      <4>1. CASE m.id = <<"message", sent + 1>> /\ sent' = sent + 1
        BY <1>0, <2>4, <4>1 DEF Told
      <4>2. CASE m = device.unconfirmed /\ device' = device /\ sent' = sent
        BY <1>0, <2>4, <4>2 DEF Told
      <4> QED  BY <2>4, <4>1, <4>2 DEF Told
    <3>1. Ids(wire') \subseteq Ids(wire) \cup {m.id}
      <4>1. <<m>> \in Seq(Message) /\ Ids(<<m>>) = {m.id}
        BY IdsOfFew, ProperIsMessage
      <4>2. Ids(Delivered(<<m>>)) \subseteq Ids(wire) \cup Ids(<<m>>)
        BY <4>1, DeliveredIds
      <4> QED  BY <3>0, <4>1, <4>2
    <3>2. m.id \in Around \cup X
      BY <3>0 DEF Around
    <3>3. Around' \subseteq Around \cup X
      BY <2>1, <3>0, <3>1, <3>2 DEF Around, Stated
    <3>4. \A n \in Nat : <<"will", n>> \notin X
      OBVIOUS
    <3>5. \A n \in Nat : <<"message", n>> \in X => n <= sent'
      BY <1>0, <3>0
    <3> HIDE DEF X
    <3> QED  BY <1>0, <2>1, <3>0, <3>3, <3>4, <3>5, FreshIds
  <2> QED  BY <1>3, <2>2, <2>3, <2>4, DeviceStep
<1> QED  BY <1>1, <1>2, <1>3

(* A number that was not used yet is not that of the retained status, nor  *)
(* of anything that is around.                                             *)
LEMMA NewIsFresh ==
  ASSUME TypeInv, FreshInv
  PROVE  /\ <<"message", sent + 1>> \notin Around
         /\ <<"message", sent + 2>> \notin Around
         /\ device.connected /\ ~left.willPerBoot
              => <<"will", device.will>> \notin Around
<1>1. sent \in Nat /\ device.will \in Nat
  BY DEF TypeInv, TypeOK
<1>2. sent + 1 \in Nat /\ sent + 2 \in Nat /\ ~(sent + 1 <= sent) /\ ~(sent + 2 <= sent)
  BY <1>1
<1> QED  BY <1>1, <1>2 DEF FreshInv

LEMMA RetainedStep ==
  TypeInv /\ FreshInv /\ RetainedInv /\ [Next]_vars => RetainedInv'
<1> SUFFICES ASSUME TypeInv, FreshInv, RetainedInv, [Next]_vars
             PROVE  RetainedInv'
  OBVIOUS
<1>0. /\ sent \in Nat /\ wire \in Seq(Message)
      /\ device \in [connected: BOOLEAN, will: Nat, unconfirmed: Message]
      /\ retained \in [{"status", "capabilities"} -> Message]
      /\ gateway \in [connected: BOOLEAN, message: Message,
                      pc: {"idle", "store", "effect", "follow"}]
  BY DEF TypeInv, TypeOK
<1>1. CASE UNCHANGED vars
  BY <1>1 DEF vars, RetainedInv, Stated
<1>2. CASE Next /\ ~Device
  <2>1. UNCHANGED <<device, retained>>
    BY <1>2, GatewayStep
  <2>2. ~gateway'.connected => wire' = <<>> /\ gateway'.pc = "idle"
    <3> USE <1>0 DEF RetainedInv
    <3>1. CASE GatewayConnect  BY <3>1 DEF GatewayConnect
    <3>2. CASE GatewayDisconnect  BY <3>2 DEF GatewayDisconnect
    <3>3. CASE Take  BY <3>3 DEF Take
    <3>4. CASE Store \/ Effect \/ Follow \/ StoreFails
      BY <3>4 DEF Store, Effect, Follow, StoreFails
    <3>5. CASE Crash  BY <3>5 DEF Crash
    <3>6. CASE \E type \in EventTypes : EventAges(type)
      BY <3>6 DEF EventAges
    <3> QED  BY <1>2, <3>1, <3>2, <3>3, <3>4, <3>5, <3>6 DEF Next, Handle
  <2> QED  BY <2>1, <2>2 DEF RetainedInv, Stated
<1>3. CASE Device
  <2>1. gateway' = gateway
    BY <1>3, DeviceStep
  <2>2. ~gateway.connected => wire' = wire
    BY <1>3, DeviceStep DEF Came, Gone, Told, Delivered
  <2>3. CASE Came
    <3> DEFINE online == New(1, "status", "online")
               capabilities == New(2, "capabilities", None)
    <3>1. /\ online.id # capabilities.id
          /\ online # NoMessage /\ online.channel = "status"
          /\ online.body = "online"
          /\ capabilities.channel = "capabilities"
          /\ capabilities.id[1] = "message"
      BY <1>0 DEF New, NoMessage
    <3>2. /\ Stated' = online /\ retained'["capabilities"] = capabilities
          /\ device'.connected /\ device'.unconfirmed = capabilities
      BY <2>3 DEF Came, Stated
    <3> HIDE DEF online, capabilities
    <3> QED  BY <2>1, <2>2, <3>1, <3>2 DEF RetainedInv
  <2>4. CASE Gone
    BY <1>0, <2>1, <2>2, <2>4 DEF Gone, RetainedInv, Stated
  <2>5. ASSUME NEW m \in Proper, Told(m) PROVE RetainedInv'
    <3>1. Stated.id \in Around
      BY DEF Around
    <3>2. /\ device'.unconfirmed \in {m, device.unconfirmed}
          /\ retained' = retained /\ device'.connected /\ device.connected
      BY <2>5 DEF Told
    <3>3. CASE device'.unconfirmed = device.unconfirmed
      BY <2>1, <2>2, <3>2, <3>3 DEF RetainedInv, Stated
    <3>4. CASE device'.unconfirmed # device.unconfirmed
      <4>1. m.id = <<"message", sent + 1>> /\ m.channel \in {"telemetry", "event"}
        BY <2>5, <3>4 DEF Told
      <4>2. m.id # Stated.id
        BY <3>1, <4>1, NewIsFresh
      <4> QED  BY <2>1, <2>2, <3>2, <3>4, <4>1, <4>2 DEF RetainedInv, Stated
    <3> QED  BY <3>3, <3>4
  <2> QED  BY <1>3, <2>3, <2>4, <2>5, DeviceStep
<1> QED  BY <1>1, <1>2, <1>3

(* A fresh status is on its way to a gateway that is there, last of all    *)
(* but the capabilities.                                                   *)
LEMMA StatusIsNew ==
  ASSUME TypeInv, NEW s \in Message, NEW w \in Seq(Message),
         s.id \notin Around, UNCHANGED <<gateway, db>>, Stated' = s,
         wire' = Delivered(w), s.id \in Ids(w), Ordered(w, s)
  PROVE  StatusInv'
<1>0. wire \in Seq(Message)
  BY DEF TypeInv, TypeOK
<1>1. s.id \notin Ids(wire) /\ s.id \notin db.inbox /\ s.id # gateway.message.id
  BY DEF Around
<1>2. Ordered(wire, s)
  BY <1>1 DEF Ordered, Ids
<1>3. Ordered(wire', s)
  BY <1>0, <1>1, <1>2, IdsOfSeq DEF Delivered
<1>4. gateway.connected => s.id \in Ids(wire')
  BY <1>0, IdsOfSeq DEF Delivered
<1> QED  BY <1>1, <1>3, <1>4 DEF StatusInv, InHand

(* A message of a connected device that is no status changes nothing.      *)
LEMMA StatusIsKept ==
  ASSUME TypeInv, StatusInv, NEW m \in Message,
         m.id # Stated.id, ~Contrary(m, Stated),
         UNCHANGED <<gateway, db, lost, retained, left.willPerBoot>>,
         wire' = Delivered(<<m>>)
  PROVE  StatusInv'
<1>0. wire \in Seq(Message) /\ <<m>> \in Seq(Message)
  BY DEF TypeInv, TypeOK
<1>1. /\ Ids(<<m>>) = {m.id} /\ Clear(<<m>>, Stated)
  BY IdsOfFew DEF Clear
<1>2. /\ Clear(wire, Stated) => Clear(wire', Stated)
      /\ Ordered(wire, Stated) => Ordered(wire', Stated)
      /\ Stated.id \in Ids(wire) => Stated.id \in Ids(wire')
  <2>1. CASE ~gateway.connected
    BY <2>1 DEF Delivered
  <2>2. CASE gateway.connected
    <3> DEFINE v == <<m>>
    <3> HIDE DEF v
    <3>1. wire' = wire \o v /\ v \in Seq(Message) /\ Clear(v, Stated)
          /\ Stated.id \notin Ids(v)
      BY <1>0, <1>1, <2>2 DEF Delivered, v
    <3>2. /\ Ids(wire \o v) = Ids(wire) \cup Ids(v)
          /\ Clear(wire \o v, Stated) <=> Clear(wire, Stated) /\ Clear(v, Stated)
          /\ Ordered(wire, Stated) => Ordered(wire \o v, Stated)
      BY <1>0, <3>1, IdsOfSeq
    <3> QED  BY <3>1, <3>2
  <2> QED  BY <2>1, <2>2
<1>3. Stated' = Stated
  BY DEF Stated
<1>4. SUFFICES ASSUME Learnable PROVE StatusInv!2'
  BY <1>3 DEF StatusInv, Learnable
<1> QED  BY <1>2, <1>3, <1>4 DEF StatusInv, InHand

LEMMA StatusOfDevice ==
  ASSUME TypeInv, RetainedInv, FreshInv, StatusInv, Device
  PROVE  StatusInv'
<1>0. /\ sent \in Nat /\ wire \in Seq(Message)
      /\ device \in [connected: BOOLEAN, will: Nat, unconfirmed: Message]
      /\ UNCHANGED <<gateway, db, lost, left.willPerBoot>>
  BY DeviceStep DEF TypeInv, TypeOK
<1>1. CASE Came
  <2> DEFINE online == New(1, "status", "online")
             capabilities == New(2, "capabilities", None)
             w == <<online, capabilities>>
  <2>1. /\ online \in Message /\ capabilities \in Message
        /\ online.id # capabilities.id
        /\ online.id \notin Around
        /\ ~Contrary(capabilities, online)
    <3>1. online \in Message /\ capabilities \in Message
      BY <1>0, NewIsProper, ProperIsMessage
    <3>2. online.id # capabilities.id /\ online.id = <<"message", sent + 1>>
      BY <1>0 DEF New
    <3>3. ~Contrary(capabilities, online)
      BY DEF New, Contrary
    <3> HIDE DEF online, capabilities
    <3> QED  BY <3>1, <3>2, <3>3, NewIsFresh
  <2>2. Stated' = online /\ wire' = Delivered(w)
    BY <1>1 DEF Came, Stated
  <2> HIDE DEF online, capabilities
  <2>3. w \in Seq(Message) /\ online.id \in Ids(w) /\ Ordered(w, online)
    BY <2>1, IdsOfFew DEF Ordered
  <2> QED  BY <1>0, <2>1, <2>2, <2>3, StatusIsNew
<1>2. CASE Gone
  <2> DEFINE will == [id |-> <<"will", device.will>>, channel |-> "status",
                      body |-> "offline"]
             w == <<will>>
  <2>1. will \in Message /\ will.body = "offline"
    BY <1>0 DEF Message, MessageId, Channels
  <2>2. Stated' = will /\ wire' = Delivered(w) /\ device.connected
    BY <1>2 DEF Gone, Stated
  <2>3. ~left.willPerBoot => will.id \notin Around
    BY <2>2, NewIsFresh
  <2> HIDE DEF will
  <2>4. w \in Seq(Message) /\ will.id \in Ids(w) /\ Ordered(w, will)
    BY <2>1, IdsOfFew DEF Ordered
  <2>5. CASE left.willPerBoot
    BY <1>0, <2>1, <2>2, <2>5 DEF StatusInv, Learnable
  <2>6. CASE ~left.willPerBoot
    BY <1>0, <2>1, <2>2, <2>3, <2>4, <2>6, StatusIsNew
  <2> QED  BY <2>5, <2>6
<1>3. ASSUME NEW m \in Proper, Told(m) PROVE StatusInv'
  <2>1. /\ retained' = retained /\ device.connected
        /\ wire' = Delivered(<<m>>)
    BY <1>3 DEF Told
  <2>2. Stated.body = "online" /\ Stated.id \in Around
    BY <2>1 DEF RetainedInv, Around
  <2>3. m.channel # "status" /\ m.id # Stated.id
    BY <1>0, <1>3, <2>1, <2>2, NewIsFresh DEF Told, RetainedInv
  <2>4. ~Contrary(m, Stated)
    BY <2>2, <2>3 DEF Contrary
  <2> QED  BY <1>0, <2>1, <2>3, <2>4, StatusIsKept, ProperIsMessage
<1> QED  BY <1>1, <1>2, <1>3, DeviceStep

LEMMA StatusOfGateway ==
  ASSUME TypeInv, RetainedInv, StatusInv, Next, ~Device
  PROVE  StatusInv'
<1>0. /\ wire \in Seq(Message) /\ db \in Database
      /\ gateway \in [connected: BOOLEAN, message: Message,
                      pc: {"idle", "store", "effect", "follow"}]
      /\ retained \in [{"status", "capabilities"} -> Message]
      /\ gateway.pc # "idle" => gateway.message \in Proper
  BY DEF TypeInv, TypeOK, ProperInv
<1>1. /\ Stated' = Stated
      /\ Learnable' => Learnable
  BY GatewayStep DEF Learnable, Stated
<1> SUFFICES ASSUME Learnable, Learnable'
             PROVE  /\ InHand(Stated)' => gateway'.message = Stated /\ Clear(wire', Stated)
                    /\ Ordered(wire', Stated)
                    /\ Stated.id \notin db'.inbox /\ gateway'.connected =>
                         InHand(Stated)' \/ Stated.id \in Ids(wire')
                    /\ Stated.id \in db'.inbox =>
                         /\ db'.status = Stated.body
                         /\ Clear(wire', Stated)
                         /\ gateway'.pc = "store"
                              => ~Contrary(gateway'.message, Stated)
  BY <1>1 DEF StatusInv, InHand
<1>2. /\ InHand(Stated) => gateway.message = Stated /\ Clear(wire, Stated)
      /\ Ordered(wire, Stated)
      /\ Stated.id \notin db.inbox /\ gateway.connected =>
           InHand(Stated) \/ Stated.id \in Ids(wire)
      /\ Stated.id \in db.inbox =>
           /\ db.status = Stated.body
           /\ Clear(wire, Stated)
           /\ gateway.pc = "store" => ~Contrary(gateway.message, Stated)
      /\ Stated.channel = "status" /\ Stated # NoMessage
  BY DEF StatusInv, RetainedInv, Learnable
<1>3. Ordered(<<>>, Stated) /\ Clear(<<>>, Stated)
  BY DEF Ordered, Clear
<1>4. CASE GatewayConnect
  <2>1. /\ gateway'.pc = "idle" /\ db' = db /\ wire' = Subscribed
    BY <1>0, <1>4 DEF GatewayConnect, RetainedInv
  <2> DEFINE capabilities == retained["capabilities"]
             v == Kept("status")
             w == Kept("capabilities")
  <2>2. /\ v = <<Stated>>
        /\ \/ w = <<>>
           \/ /\ w = <<capabilities>>
              /\ capabilities.id # Stated.id
              /\ capabilities.channel = "capabilities"
    <3>1. capabilities # NoMessage =>
            capabilities.id # Stated.id /\ capabilities.channel = "capabilities"
      BY <1>2 DEF RetainedInv
    <3>2. v = <<Stated>>
      BY <1>2 DEF Kept, Stated
    <3>3. w = <<>> \/ (w = <<capabilities>> /\ capabilities # NoMessage)
      BY DEF Kept
    <3> HIDE DEF capabilities, v, w
    <3> QED  BY <3>1, <3>2, <3>3
  <2>3. v \in Seq(Message) /\ w \in Seq(Message) /\ Subscribed = v \o w
    <3>1. Stated \in Message /\ capabilities \in Message
      BY <1>0 DEF Stated
    <3>2. Subscribed = v \o w
      BY DEF Subscribed
    <3> HIDE DEF capabilities, v, w
    <3>3. \A m \in Message : <<m>> \in Seq(Message)
      OBVIOUS
    <3>4. v \in Seq(Message)
      BY <2>2, <3>1, <3>3
    <3>5. CASE w = <<>>
      BY <3>2, <3>4, <3>5
    <3>6. CASE w = <<capabilities>>
      BY <3>1, <3>2, <3>3, <3>4, <3>6
    <3> QED  BY <2>2, <3>5, <3>6
  <2> HIDE DEF capabilities, v, w
  <2>4. ~Contrary(Stated, Stated)
        /\ (capabilities.channel = "capabilities" => ~Contrary(capabilities, Stated))
    BY <1>2 DEF Contrary
  <2>5. /\ Ids(v) = {Stated.id} /\ Clear(v, Stated) /\ Ordered(v, Stated)
        /\ Stated.id \notin Ids(w) /\ Clear(w, Stated)
    BY <2>2, <2>4, IdsOfFew DEF Ordered, Clear
  <2>6. /\ Ids(v \o w) = Ids(v) \cup Ids(w)
        /\ Clear(v \o w, Stated) /\ Ordered(v \o w, Stated)
    BY <2>3, <2>5, IdsOfSeq
  <2>7. /\ Ordered(Subscribed, Stated) /\ Clear(Subscribed, Stated)
        /\ Stated.id \in Ids(Subscribed)
    BY <2>3, <2>5, <2>6
  <2> QED  BY <1>1, <1>2, <2>1, <2>7 DEF InHand
<1>5. CASE GatewayDisconnect \/ Crash
  <2>1. gateway'.pc = "idle" /\ db' = db /\ wire' = <<>> /\ ~gateway'.connected
    BY <1>0, <1>5 DEF GatewayDisconnect, Crash
  <2> QED  BY <1>1, <1>2, <1>3, <2>1 DEF InHand
<1>6. CASE StoreFails
  BY <1>6 DEF StoreFails, Learnable
<1>7. CASE Take
  <2>1. /\ wire # <<>> /\ wire' = Tail(wire) /\ db' = db
        /\ gateway'.connected = gateway.connected /\ gateway.pc = "idle"
    BY <1>0, <1>7 DEF Take
  <2>2. /\ Ids(wire) = {Head(wire).id} \cup Ids(Tail(wire))
        /\ Clear(wire, Stated) => Clear(Tail(wire), Stated)
                                    /\ ~Contrary(Head(wire), Stated)
        /\ Ordered(Tail(wire), Stated)
        /\ Head(wire).id = Stated.id =>
             Head(wire) = Stated /\ Clear(Tail(wire), Stated)
    BY <1>0, <1>2, <2>1, IdsOfTail
  <2>3. CASE Known(Head(wire))
    <3>1. gateway' = gateway /\ Head(wire).id \in db.inbox
      BY <1>7, <2>3 DEF Take, Known
    <3> QED  BY <1>1, <1>2, <2>1, <2>2, <3>1 DEF InHand
  <2>4. CASE ~Known(Head(wire))
    <3>1. /\ gateway'.pc = "store" /\ gateway'.message = Head(wire)
          /\ Head(wire).id \notin db.inbox
      BY <1>0, <1>7, <2>4 DEF Take, Known
    <3> QED  BY <1>1, <1>2, <2>1, <2>2, <3>1 DEF InHand
  <2> QED  BY <2>3, <2>4
<1>8. CASE Store
  <2> DEFINE m == gateway.message
  <2>1. /\ db'.inbox = db.inbox \cup {m.id}
        /\ m.channel = "status" => db'.status = m.body
        /\ m.channel = "capabilities" => db'.status = db.status
        /\ m.channel \in {"telemetry", "event"} => db'.status = "online"
        /\ m.channel \in Channels
    <3>1. db' = Stored(m) /\ m.channel \in Channels
      BY <1>0, <1>8, ProperIsMessage DEF Store, Message
    <3> QED  BY <1>0, <3>1 DEF Stored, Database, Channels
  <2>2. /\ gateway.pc = "store" /\ gateway'.pc # "store" /\ wire' = wire
        /\ gateway'.connected = gateway.connected
    BY <1>0, <1>8 DEF Store
  <2>3. CASE m.id = Stated.id
    BY <1>1, <1>2, <2>1, <2>2, <2>3 DEF InHand
  <2>4. CASE m.id # Stated.id
    <3>1. Stated.id \in db.inbox => db'.status = Stated.body
      BY <1>2, <2>1, <2>2 DEF Contrary, Channels
    <3> QED  BY <1>1, <1>2, <2>1, <2>2, <2>4, <3>1 DEF InHand
  <2> QED  BY <2>3, <2>4
<1>9. CASE Effect \/ Follow
  <2>1. /\ gateway.pc # "store" /\ gateway'.pc # "store" /\ wire' = wire
        /\ gateway'.connected = gateway.connected
        /\ db'.inbox = db.inbox /\ db'.status = db.status
    BY <1>0, <1>9 DEF Effect, Follow, Database
  <2> QED  BY <1>1, <1>2, <2>1 DEF InHand
<1>10. ASSUME NEW type \in EventTypes, EventAges(type)
       PROVE  /\ wire' = wire /\ gateway' = gateway
              /\ db'.inbox = db.inbox /\ db'.status = db.status
  BY <1>0, <1>10 DEF EventAges, Database
<1>11. CASE \E type \in EventTypes : EventAges(type)
  BY <1>1, <1>2, <1>10, <1>11 DEF InHand
<1> QED  BY <1>4, <1>5, <1>6, <1>7, <1>8, <1>9, <1>11 DEF Next, Handle

ReachInv == TypeInv /\ RetainedInv /\ FreshInv /\ StatusInv

LEMMA InitReach == Init => ReachInv
<1> SUFFICES ASSUME Init PROVE ReachInv
  OBVIOUS
<1>1. TypeInv
  BY InitType
<1>2. RetainedInv /\ StatusInv
  BY DEF Init, RetainedInv, StatusInv, Learnable, Stated, NoMessage
<1>3. Around = {<<"message", 0>>}
  BY IdsOfFew DEF Init, Around, Stated, NoMessage
<1>4. FreshInv
  BY <1>3 DEF FreshInv, Init
<1> QED  BY <1>1, <1>2, <1>4 DEF ReachInv

LEMMA ReachStep == ReachInv /\ [Next]_vars => ReachInv'
<1> SUFFICES ASSUME ReachInv, [Next]_vars PROVE ReachInv'
  OBVIOUS
<1>1. TypeInv' /\ RetainedInv' /\ FreshInv'
  BY NextType, RetainedStep, FreshStep DEF ReachInv
<1>2. CASE UNCHANGED vars
  <2>1. UNCHANGED <<retained, wire, gateway, db, lost, left>>
    BY <1>2 DEF vars
  <2>2. StatusInv'
    BY <2>1 DEF ReachInv, StatusInv, Learnable, InHand, Stated
  <2> QED  BY <1>1, <2>2 DEF ReachInv
<1>3. CASE Next /\ Device
  BY <1>1, <1>3, StatusOfDevice DEF ReachInv
<1>4. CASE Next /\ ~Device
  BY <1>1, <1>4, StatusOfGateway DEF ReachInv
<1> QED  BY <1>2, <1>3, <1>4

(* Whatever was missed, in whatever order of outages, restarts and messages *)
(* sent again: a gateway that has taken all there is and lost nothing to a  *)
(* fault shows a connected device online, and one whose will the broker     *)
(* has published offline.                                                  *)
THEOREM StatusIsTold == Spec => []StatusIsTrue
<1>1. ReachInv => StatusIsTrue
  <2> SUFFICES ASSUME ReachInv, Quiet, lost = {}
               PROVE  /\ device.connected => db.status = "online"
                      /\ retained["status"].body = "offline" /\ ~left.willPerBoot
                           => db.status = "offline"
    BY DEF StatusIsTrue
  <2>1. Ids(wire) = {} /\ gateway.connected /\ gateway.pc = "idle"
    BY IdsOfFew DEF Quiet
  <2>2. Learnable => db.status = Stated.body
    BY <2>1 DEF ReachInv, StatusInv, InHand
  <2>3. device.connected => Learnable /\ Stated.body = "online"
    BY DEF ReachInv, RetainedInv, Learnable
  <2>4. Stated.body = "offline" /\ ~left.willPerBoot => Learnable
    BY IngressAssumption DEF Learnable, NoMessage
  <2> QED  BY <2>2, <2>3, <2>4 DEF Stated
<1> QED  BY InitReach, ReachStep, <1>1, PTL DEF Spec

-----------------------------------------------------------------------------
(* LiveUpdates *)

(* The steps, one by one. *)
LEMMA LiveSteps ==
  ASSUME LiveTypeOK, [LiveNext]_liveVars
  PROVE  \/ \E c \in Commands : Create(c) \/ Refuse(c) \/ TellCreated(c) \/ Answered(c)
         \/ \E c \in Commands, g \in Gateways : Post(c, g) \/ Publish(g, c) \/ Record(g, c)
         \/ \E g \in Gateways : TellChanged(g) \/ Claim(g) \/ BroadcastRow(g) \/ Finish(g)
         \/ \E g \in Gateways : BroadcastAck(g) \/ OpenSocket(g) \/ RestartGateway(g) \/ Fail(g)
         \/ \E g \in Gateways, due \in SUBSET Commands : GiveUp(g, due)
         \/ \E g \in Gateways, change \in Change : IngestAck(g, change)
         \/ \E i \in DOMAIN events : LeaseExpires(i)
         \/ Receive \/ Fetch \/ AnswerFetch \/ Fetched \/ Drop
         \/ UNCHANGED liveVars
<1>1. chances.gateways \subseteq Gateways
  BY DEF LiveTypeOK, Chances
<1> QED  BY <1>1 DEF LiveNext, Request, Dispatcher, Relay, Refetch

-----------------------------------------------------------------------------
(* The rows *)

NewRow(change) ==
  [change |-> change, state |-> "pending", owner |-> Null, token |-> 0,
   expired |-> FALSE, closedUnder |-> 0]

RowsInv ==
  /\ events \in Seq(Row)
  /\ claims \in Nat
  /\ relay \in [Gateways -> [batch: SUBSET Claimed, out: BOOLEAN]]
  /\ \A g \in Gateways : /\ \A m \in relay[g].batch : m.row \in DOMAIN events
                         /\ relay[g].out => relay[g].batch # {}
  /\ \A i \in DOMAIN events : events[i].owner # Null => events[i].state = "delivering"

LEMMA FirstIsOf ==
  ASSUME NEW batch \in SUBSET Claimed, batch # {}
  PROVE  First(batch) \in batch
<1> DEFINE rowsOf == {m.row : m \in batch}
<1>1. rowsOf \in SUBSET Nat /\ rowsOf # {}
  BY DEF Claimed
<1>2. PICK r \in rowsOf : \A k \in rowsOf : ~(<<k, r>> \in OpToRel(<, Nat))
  <2> HIDE DEF rowsOf
  <2> QED  BY <1>1, WFMin, NatLessThanWellFounded
<1>3. \A k \in rowsOf : k \in Nat /\ r \in Nat /\ ~(k < r)
  BY <1>1, <1>2 DEF OpToRel
<1>4. PICK m \in batch : m.row = r
  OBVIOUS
<1>5. \A n \in batch : m.row <= n.row
  BY <1>3, <1>4
<1> QED  BY <1>5 DEF First

LEMMA RowAdded ==
  ASSUME RowsInv, NEW change \in Change, events' = Written(change),
         UNCHANGED <<claims, relay>>
  PROVE  RowsInv'
<1>1. NewRow(change) \in Row
  BY DEF NewRow, Row
<1>2. events' = Append(events, NewRow(change))
  BY DEF Written, NewRow
<1>3. /\ events' \in Seq(Row) /\ Len(events') = Len(events) + 1
      /\ Len(events) \in Nat /\ DOMAIN events = 1..Len(events)
      /\ DOMAIN events' = 1..(Len(events) + 1)
      /\ \A i \in 1..Len(events) : events'[i] = events[i]
      /\ events'[Len(events) + 1] = NewRow(change)
  BY <1>1, <1>2, AppendProperties, LenProperties DEF RowsInv
<1>4. ASSUME NEW i \in DOMAIN events' PROVE events'[i].owner # Null => events'[i].state = "delivering"
  <2>1. CASE i = Len(events) + 1
    BY <1>3, <2>1 DEF NewRow
  <2>2. CASE i # Len(events) + 1
    <3>1. i \in 1..Len(events)
      BY <1>3, <2>2
    <3> QED  BY <1>3, <3>1 DEF RowsInv
  <2> QED  BY <2>1, <2>2
<1>5. \A g \in Gateways : \A m \in relay[g].batch : m.row \in DOMAIN events'
  <2>1. DOMAIN events \subseteq DOMAIN events'
    BY <1>3
  <2> QED  BY <2>1 DEF RowsInv
<1> QED  BY <1>3, <1>4, <1>5 DEF RowsInv

(* The rows that are changed keep their places.                            *)
LEMMA RowsChanged ==
  ASSUME events \in Seq(Row), NEW f, f \in [DOMAIN events -> Row]
  PROVE  f \in Seq(Row) /\ DOMAIN f = DOMAIN events /\ Len(f) = Len(events)
<1>1. DOMAIN events = 1..Len(events) /\ Len(events) \in Nat
  BY LenProperties
<1>2. f \in Seq(Row)
  BY <1>1, SeqDef
<1> QED  BY <1>1, <1>2, LenProperties

LEMMA ClaimRows ==
  ASSUME RowsInv, NEW g \in Gateways, Claim(g)
  PROVE  RowsInv'
<1> DEFINE due == {i \in DOMAIN events : Claimable(events[i])}
<1>1. claims' = claims + 1 /\ claims' \in Nat
  <2>1. claims' = claims + 1
    BY DEF Claim
  <2> QED  BY <2>1 DEF RowsInv
<1>2. \A i \in DOMAIN events : events[i] \in Row
  BY ElementOfSeq, LenProperties DEF RowsInv
<1>3. \A i \in DOMAIN events :
        LET row == [events[i] EXCEPT !.state = "delivering", !.owner = g,
                                     !.token = claims', !.expired = FALSE]
        IN  row \in Row /\ row.state = "delivering"
  BY <1>1, <1>2 DEF Row
<1>4. events' = [i \in DOMAIN events |->
           IF i \in due
           THEN [events[i] EXCEPT !.state = "delivering", !.owner = g,
                                  !.token = claims', !.expired = FALSE]
           ELSE events[i]]
  BY DEF Claim
<1>5. events' \in [DOMAIN events -> Row]
  BY <1>2, <1>3, <1>4
<1>6. events' \in Seq(Row) /\ DOMAIN events' = DOMAIN events
  BY <1>5, RowsChanged DEF RowsInv
<1>7. \A i \in DOMAIN events' : events'[i].owner # Null => events'[i].state = "delivering"
  BY <1>3, <1>4, <1>6 DEF RowsInv
<1>8. relay' = [relay EXCEPT ![g].batch = {[row |-> i, token |-> claims'] : i \in due}]
      /\ relay[g].batch = {}
  BY DEF Claim
<1>9. \A i \in due : i \in DOMAIN events /\ [row |-> i, token |-> claims'] \in Claimed
  BY <1>1, LenProperties DEF Claimed, RowsInv
<1>10. PICK batch : /\ batch \in SUBSET Claimed
                    /\ \A m \in batch : m.row \in DOMAIN events
                    /\ batch # {}
                    /\ relay' = [relay EXCEPT ![g].batch = batch]
  <2>1. due # {}
    BY DEF Claim
  <2> DEFINE taken == {[row |-> i, token |-> claims'] : i \in due}
  <2> HIDE DEF due
  <2>2. taken \in SUBSET Claimed /\ taken # {}
    BY <1>9, <2>1
  <2>3. \A m \in taken : m.row \in DOMAIN events
    BY <1>9
  <2>4. relay' = [relay EXCEPT ![g].batch = taken]
    BY <1>8
  <2> HIDE DEF taken
  <2> QED  BY <2>2, <2>3, <2>4
<1>11. relay' \in [Gateways -> [batch: SUBSET Claimed, out: BOOLEAN]]
  BY <1>10 DEF RowsInv
<1>12. \A h \in Gateways : relay'[h].batch = IF h = g THEN batch ELSE relay[h].batch
  BY <1>10 DEF RowsInv
<1>13. \A h \in Gateways : relay'[h].out = relay[h].out
  BY <1>10 DEF RowsInv
<1>14. \A h \in Gateways : /\ \A m \in relay'[h].batch : m.row \in DOMAIN events'
                           /\ relay'[h].out => relay'[h].batch # {}
  BY <1>6, <1>10, <1>12, <1>13 DEF RowsInv
<1> QED  BY <1>1, <1>6, <1>7, <1>11, <1>14 DEF RowsInv

LEMMA FinishRows ==
  ASSUME RowsInv, NEW g \in Gateways, Finish(g)
  PROVE  RowsInv'
<1> DEFINE m == First(relay[g].batch)
<1>1. m \in relay[g].batch /\ m \in Claimed /\ m.row \in DOMAIN events /\ m.token \in Nat
  <2>1. relay[g].batch \in SUBSET Claimed /\ relay[g].batch # {}
    BY DEF RowsInv, Finish
  <2>2. m \in relay[g].batch
    BY <2>1, FirstIsOf
  <2> HIDE DEF m
  <2> QED  BY <2>1, <2>2 DEF RowsInv, Claimed
<1>2. events[m.row] \in Row
  BY <1>1, ElementOfSeq, LenProperties DEF RowsInv
<1>3. \/ events' = events
      \/ events' = [events EXCEPT ![m.row] =
                      [@ EXCEPT !.state = "delivered", !.owner = Null, !.token = 0,
                                !.expired = FALSE, !.closedUnder = m.token]]
  BY DEF Finish
<1> HIDE DEF m
<1>4. \E row \in Row : /\ row.owner = Null
                       /\ events' = events \/ events' = [events EXCEPT ![m.row] = row]
  <2> DEFINE row == [events[m.row] EXCEPT !.state = "delivered", !.owner = Null, !.token = 0,
                               !.expired = FALSE, !.closedUnder = m.token]
  <2>1. row \in Row /\ row.owner = Null
    BY <1>1, <1>2 DEF Row
  <2> QED  BY <1>3, <2>1
<1>5. PICK row \in Row : /\ row.owner = Null
                         /\ events' = events \/ events' = [events EXCEPT ![m.row] = row]
  BY <1>4
<1>6. \A i \in DOMAIN events : events[i] \in Row
  BY ElementOfSeq, LenProperties DEF RowsInv
<1>7. events' \in [DOMAIN events -> Row]
  BY <1>5, <1>6 DEF RowsInv
<1>8. events' \in Seq(Row) /\ DOMAIN events' = DOMAIN events
  BY <1>7, RowsChanged DEF RowsInv
<1>9. \A i \in DOMAIN events' : events'[i].owner # Null => events'[i].state = "delivering"
  BY <1>1, <1>5, <1>8 DEF RowsInv
<1>10. relay' = [relay EXCEPT ![g] = [batch |-> relay[g].batch \ {m}, out |-> FALSE]]
  BY DEF Finish, m
<1>11. relay' \in [Gateways -> [batch: SUBSET Claimed, out: BOOLEAN]]
  BY <1>10 DEF RowsInv
<1>12. \A h \in Gateways : /\ relay'[h].batch \subseteq relay[h].batch
                           /\ h # g => relay'[h] = relay[h]
                           /\ h = g => ~relay'[h].out
  BY <1>10 DEF RowsInv
<1>13. \A h \in Gateways : /\ \A n \in relay'[h].batch : n.row \in DOMAIN events'
                           /\ relay'[h].out => relay'[h].batch # {}
  BY <1>8, <1>12 DEF RowsInv
<1>14. claims' = claims
  BY DEF Finish
<1> QED  BY <1>8, <1>9, <1>11, <1>13, <1>14 DEF RowsInv

LEMMA ExpireRows ==
  ASSUME RowsInv, NEW i \in DOMAIN events, LeaseExpires(i)
  PROVE  RowsInv' /\ DOMAIN events' = DOMAIN events
         /\ \A j \in DOMAIN events : /\ events'[j].state = events[j].state
                                     /\ events'[j].token = events[j].token
                                     /\ events'[j].closedUnder = events[j].closedUnder
                                     /\ events'[j].change = events[j].change
<1>1. \A j \in DOMAIN events : events[j] \in Row
  BY ElementOfSeq, LenProperties DEF RowsInv
<1>2. events' = [events EXCEPT ![i].expired = TRUE] /\ claims' = claims /\ relay' = relay
  BY DEF LeaseExpires
<1>3. [events[i] EXCEPT !.expired = TRUE] \in Row
  BY <1>1 DEF Row
<1>4. DOMAIN events' = DOMAIN events
  BY <1>2
<1>5. \A j \in DOMAIN events : events'[j] =
        IF j = i THEN [events[i] EXCEPT !.expired = TRUE] ELSE events[j]
  BY <1>2
<1>6. \A j \in DOMAIN events : /\ events'[j].state = events[j].state
                               /\ events'[j].token = events[j].token
                               /\ events'[j].closedUnder = events[j].closedUnder
                               /\ events'[j].change = events[j].change
                               /\ events'[j].owner = events[j].owner
  BY <1>1, <1>5 DEF Row
<1>7. events' \in [DOMAIN events -> Row]
  BY <1>1, <1>2, <1>3
<1>8. events' \in Seq(Row)
  BY <1>7, RowsChanged DEF RowsInv
<1> QED  BY <1>2, <1>4, <1>6, <1>8 DEF RowsInv

LEMMA RowsKept ==
  ASSUME LiveTypeOK, RowsInv, [LiveNext]_liveVars
  PROVE  RowsInv'
<1>1. ASSUME NEW c \in Commands, TellCreated(c) PROVE RowsInv'
  <2>1. Is(c, "queued") \in Change
    BY DEF Is, Change, Status, COMMAND_STATUS_ORDER, TERMINAL
  <2> QED  BY <1>1, <2>1, RowAdded DEF TellCreated
<1>2. ASSUME NEW g \in Gateways, TellChanged(g) PROVE RowsInv'
  <2>1. PICK change \in notices[g] : events' = Written(change)
    BY <1>2 DEF TellChanged
  <2>2. change \in Change
    BY DEF LiveTypeOK
  <2> QED  BY <1>2, <2>1, <2>2, RowAdded DEF TellChanged
<1>3. ASSUME NEW g \in Gateways, BroadcastRow(g) PROVE RowsInv'
  <2>1. events' = events /\ claims' = claims /\ relay' = [relay EXCEPT ![g].out = TRUE]
        /\ relay[g].batch # {}
    BY <1>3 DEF BroadcastRow
  <2>2. relay' \in [Gateways -> [batch: SUBSET Claimed, out: BOOLEAN]]
    BY <2>1 DEF RowsInv
  <2>3. \A h \in Gateways : /\ relay'[h].batch = relay[h].batch
                            /\ h # g => relay'[h].out = relay[h].out
    BY <2>1 DEF RowsInv
  <2> QED  BY <2>1, <2>2, <2>3 DEF RowsInv
<1>4. ASSUME NEW g \in Gateways, RestartGateway(g) \/ Fail(g) PROVE RowsInv'
  <2>1. /\ events' = events /\ claims' = claims
        /\ relay' = relay \/ relay' = [relay EXCEPT ![g] = NoWork]
    BY <1>4 DEF RestartGateway, Fail
  <2>2. CASE relay' = [relay EXCEPT ![g] = NoWork]
    <3>1. relay' \in [Gateways -> [batch: SUBSET Claimed, out: BOOLEAN]]
      BY <2>2 DEF RowsInv, NoWork
    <3>2. \A h \in Gateways : relay'[h] = relay[h] \/ relay'[h] = NoWork
      BY <2>2 DEF RowsInv
    <3> QED  BY <2>1, <3>1, <3>2 DEF RowsInv, NoWork
  <2>3. CASE relay' = relay
    BY <2>1, <2>3 DEF RowsInv
  <2> QED  BY <2>1, <2>2, <2>3
<1>5. ASSUME UNCHANGED rows PROVE RowsInv'
  BY <1>5 DEF rows, RowsInv
<1>6. ASSUME NEW c \in Commands, Create(c) \/ Refuse(c) \/ Answered(c) PROVE UNCHANGED rows
  BY <1>6 DEF Create, Refuse, Answered, rows
<1>7. ASSUME NEW c \in Commands, NEW g \in Gateways, Post(c, g) \/ Publish(g, c) \/ Record(g, c)
      PROVE  UNCHANGED rows
  BY <1>7 DEF Post, Publish, Record, rows
<1>8. ASSUME NEW g \in Gateways, BroadcastAck(g) \/ OpenSocket(g) PROVE UNCHANGED rows
  BY <1>8 DEF BroadcastAck, OpenSocket, rows
<1>9. ASSUME NEW g \in Gateways,
             \/ \E due \in SUBSET Commands : GiveUp(g, due)
             \/ \E change \in Change : IngestAck(g, change)
      PROVE  UNCHANGED rows
  BY <1>9 DEF GiveUp, IngestAck, rows
<1>10. ASSUME Receive \/ Fetch \/ AnswerFetch \/ Fetched \/ Drop \/ UNCHANGED liveVars
       PROVE  UNCHANGED rows
  BY <1>10 DEF Receive, Fetch, AnswerFetch, Fetched, Drop, rows, liveVars
<1> QED  BY <1>1, <1>2, <1>3, <1>4, <1>5, <1>6, <1>7, <1>8, <1>9, <1>10,
            LiveSteps, ClaimRows, FinishRows, ExpireRows

-----------------------------------------------------------------------------
(* The rows are leased work *)

LEMMA Leases ==
  /\ DOMAIN LeasedRows = 1..MaxRows
  /\ \A i \in 1..MaxRows : LeasedRows[i] = LeasedRow(i)
BY DEF LeasedRows

LEMMA LeasesNext ==
  /\ DOMAIN LeasedRows' = 1..MaxRows
  /\ \A i \in 1..MaxRows : LeasedRows'[i] = LeasedRow(i)'
BY DEF LeasedRows

LEMMA AddIsLeased ==
  ASSUME RowsInv, NEW change \in Change, events' = Written(change),
         UNCHANGED <<claims, relay>>
  PROVE  [Work!Next]_<<LeasedRows, claims + 1>>
<1>1. NewRow(change) \in Row /\ events' = Append(events, NewRow(change))
  BY DEF NewRow, Row, Written
<1>2. Len(events) \in Nat /\ DOMAIN events = 1..Len(events)
  BY LenProperties DEF RowsInv
<1>3. PICK n \in Nat : n = Len(events) + 1
  BY <1>2
<1>4. /\ DOMAIN events = 1..(n - 1) /\ DOMAIN events' = 1..n
      /\ \A i \in 1..(n - 1) : events'[i] = events[i]
      /\ events'[n] = NewRow(change)
  <2>1. /\ DOMAIN events' = 1..(Len(events) + 1)
        /\ \A i \in 1..Len(events) : events'[i] = events[i]
        /\ events'[Len(events) + 1] = NewRow(change)
    BY <1>1, <1>2, AppendProperties, LenProperties DEF RowsInv
  <2> QED  BY <1>2, <1>3, <2>1
<1>5. \A i \in Nat : i # n => LeasedRow(i)' = LeasedRow(i)
  <2> TAKE i \in Nat
  <2>1. CASE i \in DOMAIN events
    <3>1. i \in DOMAIN events' /\ events'[i] = events[i]
      BY <1>4, <2>1
    <3> QED  BY <2>1, <3>1 DEF LeasedRow
  <2>2. CASE i \notin DOMAIN events
    <3>1. i # n => i \notin DOMAIN events'
      BY <1>4, <2>2
    <3> QED  BY <2>2, <3>1 DEF LeasedRow
  <2> QED  BY <2>1, <2>2
<1>6. /\ LeasedRow(n) = [state |-> "absent", holder |-> 0, result |-> 0]
      /\ LeasedRow(n)' = [state |-> "ready", holder |-> 0, result |-> 0]
  <2>1. n \notin DOMAIN events /\ n \in DOMAIN events'
    <3>1. n \notin 1..(n - 1) /\ n \in 1..n
      BY <1>2, <1>3
    <3> QED  BY <1>4, <3>1
  <2>2. events'[n].state = "pending" /\ events'[n].token = 0 /\ events'[n].closedUnder = 0
    BY <1>4 DEF NewRow
  <2> QED  BY <2>1, <2>2 DEF LeasedRow
<1>7. claims' + 1 = claims + 1
  OBVIOUS
<1>8. CASE n \in 1..MaxRows
  <2>1. LeasedRows[n] = [state |-> "absent", holder |-> 0, result |-> 0]
    BY <1>6, <1>8 DEF LeasedRows
  <2>2. [LeasedRows[n] EXCEPT !.state = "ready"]
          = [state |-> "ready", holder |-> 0, result |-> 0]
    BY <2>1
  <2>3. \A i \in 1..MaxRows :
          LeasedRow(i)' = IF i = n THEN [LeasedRows[n] EXCEPT !.state = "ready"]
                                   ELSE LeasedRows[i]
    <3>1. \A i \in 1..MaxRows : i \in Nat
      OBVIOUS
    <3> QED  BY <1>5, <1>6, <1>8, <2>2, <3>1 DEF LeasedRows
  <2>4. LeasedRows' = [i \in 1..MaxRows |->
                         IF i = n THEN [LeasedRows[n] EXCEPT !.state = "ready"]
                                  ELSE LeasedRows[i]]
    BY <2>3 DEF LeasedRows
  <2>5. LeasedRows' = [LeasedRows EXCEPT ![n].state = "ready"]
    BY <1>8, <2>4, Leases
  <2>6. Work!Add(n)
    BY <1>7, <2>1, <2>5 DEF Work!Add
  <2> QED  BY <1>8, <2>6 DEF Work!Next
<1>9. CASE n \notin 1..MaxRows
  <2>1. \A i \in 1..MaxRows : LeasedRow(i)' = LeasedRow(i)
    BY <1>5, <1>9
  <2>2. LeasedRows' = LeasedRows
    BY <2>1 DEF LeasedRows
  <2> QED  BY <1>7, <2>2
<1> QED  BY <1>8, <1>9

LEMMA ClaimIsLeased ==
  ASSUME RowsInv, NEW g \in Gateways, Claim(g)
  PROVE  Work!Next
<1> DEFINE due == {i \in DOMAIN events : Claimable(events[i])}
<1> DEFINE batch == {i \in 1..MaxRows : i \in due}
<1>1. claims' = claims + 1 /\ claims' + 1 = claims + 1 + 1
  BY DEF Claim, RowsInv
<1>2. events' = [i \in DOMAIN events |->
           IF i \in due
           THEN [events[i] EXCEPT !.state = "delivering", !.owner = g,
                                  !.token = claims', !.expired = FALSE]
           ELSE events[i]]
  BY DEF Claim
<1>3. \A i \in DOMAIN events : events[i] \in Row
  BY ElementOfSeq, LenProperties DEF RowsInv
<1>4. DOMAIN events' = DOMAIN events
  BY <1>2
<1>5. \A i \in due : /\ i \in DOMAIN events
                     /\ events'[i].state = "delivering"
                     /\ events'[i].token = claims + 1
                     /\ events'[i].closedUnder = events[i].closedUnder
                     /\ events[i].state \in {"pending", "delivering"}
  <2> TAKE i \in due
  <2>1. i \in DOMAIN events /\ Claimable(events[i])
    OBVIOUS
  <2>2. events'[i] = [events[i] EXCEPT !.state = "delivering", !.owner = g,
                                  !.token = claims', !.expired = FALSE]
    BY <1>2
  <2> QED  BY <1>1, <1>3, <2>1, <2>2 DEF Row, Claimable
<1>6. \A i \in DOMAIN events : i \notin due => events'[i] = events[i]
  BY <1>2
<1> HIDE DEF due
<1>7. \A i \in batch : /\ LeasedRow(i).state \in {"ready", "held"}
                       /\ LeasedRow(i)' = [LeasedRow(i) EXCEPT !.state = "held", !.holder = claims + 1]
  <2> TAKE i \in batch
  <2>1. i \in due
    OBVIOUS
  <2> HIDE DEF batch
  <2>2. i \in DOMAIN events /\ i \in DOMAIN events'
    BY <1>4, <1>5, <2>1
  <2>3. /\ LeasedRow(i).state \in {"ready", "held"}
        /\ LeasedRow(i).result = events[i].closedUnder
        /\ \E s, h, r : LeasedRow(i) = [state |-> s, holder |-> h, result |-> r]
    BY <1>5, <2>1, <2>2 DEF LeasedRow
  <2>4. LeasedRow(i)' = [state |-> "held", holder |-> claims + 1,
                         result |-> events[i].closedUnder]
    BY <1>5, <2>1, <2>2 DEF LeasedRow
  <2>5. PICK s, h, r : LeasedRow(i) = [state |-> s, holder |-> h, result |-> r]
    BY <2>3
  <2>6. r = events[i].closedUnder
    BY <2>3, <2>5
  <2>7. [LeasedRow(i) EXCEPT !.state = "held", !.holder = claims + 1]
           = [state |-> "held", holder |-> claims + 1, result |-> r]
    <3>1. [LeasedRow(i) EXCEPT !.state = "held"]
            = [state |-> "held", holder |-> h, result |-> r]
      BY <2>5
    <3>2. [[state |-> "held", holder |-> h, result |-> r] EXCEPT !.holder = claims + 1]
            = [state |-> "held", holder |-> claims + 1, result |-> r]
      OBVIOUS
    <3> QED  BY <3>1, <3>2, Zenon
  <2> QED  BY <2>3, <2>4, <2>6, <2>7, Zenon
<1>8. \A i \in 1..MaxRows : i \notin batch => LeasedRow(i)' = LeasedRow(i)
  BY <1>4, <1>6 DEF LeasedRow
<1> HIDE DEF batch
<1>9. \A i \in 1..MaxRows :
        LeasedRow(i)' = IF i \in batch
                        THEN [LeasedRows[i] EXCEPT !.state = "held", !.holder = claims + 1]
                        ELSE LeasedRows[i]
  BY <1>7, <1>8, Leases
<1>10. LeasedRows' = [i \in 1..MaxRows |->
                        IF i \in batch
                        THEN [LeasedRows[i] EXCEPT !.state = "held", !.holder = claims + 1]
                        ELSE LeasedRows[i]]
  BY <1>9 DEF LeasedRows
<1>11. batch \in SUBSET (1..MaxRows)
  BY DEF batch
<1>12. \A i \in batch : LeasedRows[i].state \in {"ready", "held"}
  BY <1>7, <1>11, Leases
<1>13. Work!Grant(batch)
  BY <1>1, <1>10, <1>12 DEF Work!Grant
<1> QED  BY <1>11, <1>13 DEF Work!Next

LEMMA FinishIsLeased ==
  ASSUME RowsInv, NEW g \in Gateways, Finish(g)
  PROVE  [Work!Next]_<<LeasedRows, claims + 1>>
<1> DEFINE m == First(relay[g].batch)
<1>1. m.row \in DOMAIN events /\ g # Null
  <2>1. relay[g].batch \in SUBSET Claimed /\ relay[g].batch # {}
    BY DEF RowsInv, Finish
  <2>2. m \in relay[g].batch
    BY <2>1, FirstIsOf
  <2> HIDE DEF m
  <2> QED  BY <2>1, <2>2, LiveAssumption DEF RowsInv
<1>2. events' = IF Holds(g, m)
                THEN [events EXCEPT ![m.row] =
                       [@ EXCEPT !.state = "delivered", !.owner = Null, !.token = 0,
                                 !.expired = FALSE, !.closedUnder = m.token]]
                ELSE events
  BY DEF Finish
<1>3. claims' + 1 = claims + 1
  BY DEF Finish
<1> HIDE DEF m
<1>4. PICK n : n = m.row
  OBVIOUS
<1>5. CASE ~Holds(g, m)
  <2>1. events' = events
    BY <1>2, <1>5
  <2>2. LeasedRows' = LeasedRows
    BY <2>1 DEF LeasedRows, LeasedRow
  <2> QED  BY <1>3, <2>2
<1>6. CASE Holds(g, m)
  <2>1. /\ events[n] \in Row /\ events[n].state = "delivering"
        /\ events[n].token = m.token
    BY <1>1, <1>4, <1>6, ElementOfSeq, LenProperties DEF RowsInv, Holds
  <2>2. /\ DOMAIN events' = DOMAIN events
        /\ \A i \in DOMAIN events : i # n => events'[i] = events[i]
        /\ events'[n].state = "delivered" /\ events'[n].token = 0
        /\ events'[n].closedUnder = m.token
    BY <1>1, <1>2, <1>4, <1>6, <2>1 DEF Row
  <2>3. \A i : i # n => LeasedRow(i)' = LeasedRow(i)
    BY <2>2 DEF LeasedRow
  <2>4. /\ LeasedRow(n).state = "held" /\ LeasedRow(n).holder = m.token
        /\ LeasedRow(n)' = [state |-> "closed", holder |-> 0, result |-> m.token]
    BY <1>1, <1>4, <2>1, <2>2 DEF LeasedRow
  <2>5. CASE n \in 1..MaxRows
    <3>1. \A i \in 1..MaxRows :
            LeasedRow(i)' = IF i = n THEN [state |-> "closed", holder |-> 0, result |-> m.token]
                                     ELSE LeasedRows[i]
      BY <2>3, <2>4, Leases
    <3>2. LeasedRows' = [i \in 1..MaxRows |->
            IF i = n THEN [state |-> "closed", holder |-> 0, result |-> m.token]
                     ELSE LeasedRows[i]]
      BY <3>1 DEF LeasedRows
    <3>3. LeasedRows' = [LeasedRows EXCEPT ![n] =
                           [state |-> "closed", holder |-> 0, result |-> m.token]]
      BY <2>5, <3>2, Leases
    <3>4. LeasedRows[n].state = "held" /\ LeasedRows[n].holder = m.token
      BY <2>4, <2>5, Leases
    <3>5. Work!Close(n)
      BY <1>3, <3>3, <3>4 DEF Work!Close
    <3> QED  BY <2>5, <3>5 DEF Work!Next
  <2>6. CASE n \notin 1..MaxRows
    <3>1. \A i \in 1..MaxRows : LeasedRow(i)' = LeasedRow(i)
      BY <2>3, <2>6
    <3>2. LeasedRows' = LeasedRows
      BY <3>1 DEF LeasedRows
    <3> QED  BY <1>3, <3>2
  <2> QED  BY <2>5, <2>6
<1> QED  BY <1>5, <1>6

(* A step of the gateway, of the browser or of a fault is one of leased    *)
(* work on the rows, or leaves them as they are.                           *)
LEMMA StepIsLeased ==
  ASSUME LiveTypeOK, RowsInv, [LiveNext]_liveVars
  PROVE  [Work!Next]_<<LeasedRows, claims + 1>>
<1> DEFINE G == [Work!Next]_<<LeasedRows, claims + 1>>
<1>1. ASSUME NEW c \in Commands, TellCreated(c) PROVE G
  <2>1. Is(c, "queued") \in Change
    BY DEF Is, Change, Status, COMMAND_STATUS_ORDER, TERMINAL
  <2>2. events' = Written(Is(c, "queued")) /\ UNCHANGED <<claims, relay>>
    BY <1>1 DEF TellCreated
  <2> QED  BY <2>1, <2>2, AddIsLeased
<1>2. ASSUME NEW g \in Gateways, TellChanged(g) PROVE G
  <2>1. PICK change \in notices[g] : events' = Written(change)
    BY <1>2 DEF TellChanged
  <2>2. change \in Change /\ UNCHANGED <<claims, relay>>
    BY <1>2 DEF LiveTypeOK, TellChanged
  <2> QED  BY <2>1, <2>2, AddIsLeased
<1>3. ASSUME NEW i \in DOMAIN events, LeaseExpires(i) PROVE G
  <2>1. DOMAIN events' = DOMAIN events
        /\ \A j \in DOMAIN events : /\ events'[j].state = events[j].state
                                    /\ events'[j].token = events[j].token
                                    /\ events'[j].closedUnder = events[j].closedUnder
    BY <1>3, ExpireRows
  <2>2. \A j \in 1..MaxRows : LeasedRow(j)' = LeasedRow(j)
    BY <2>1 DEF LeasedRow
  <2>3. LeasedRows' = LeasedRows
    BY <2>2 DEF LeasedRows
  <2>4. claims' = claims
    BY <1>3 DEF LeaseExpires
  <2> QED  BY <2>3, <2>4
<1>4. ASSUME UNCHANGED <<events, claims>> PROVE G
  <2>1. LeasedRows' = LeasedRows
    BY <1>4 DEF LeasedRows, LeasedRow
  <2> QED  BY <1>4, <2>1
<1>5. ASSUME NEW c \in Commands, Create(c) \/ Refuse(c) \/ Answered(c)
      PROVE  UNCHANGED <<events, claims>>
  BY <1>5 DEF Create, Refuse, Answered, rows
<1>6. ASSUME NEW c \in Commands, NEW g \in Gateways, Post(c, g) \/ Publish(g, c) \/ Record(g, c)
      PROVE  UNCHANGED <<events, claims>>
  BY <1>6 DEF Post, Publish, Record, rows
<1>7. ASSUME NEW g \in Gateways,
             \/ BroadcastAck(g) \/ OpenSocket(g) \/ RestartGateway(g) \/ Fail(g)
             \/ BroadcastRow(g)
      PROVE  UNCHANGED <<events, claims>>
  BY <1>7 DEF BroadcastAck, OpenSocket, RestartGateway, Fail, BroadcastRow, rows
<1>8. ASSUME NEW g \in Gateways,
             \/ \E due \in SUBSET Commands : GiveUp(g, due)
             \/ \E change \in Change : IngestAck(g, change)
      PROVE  UNCHANGED <<events, claims>>
  BY <1>8 DEF GiveUp, IngestAck, rows
<1>9. ASSUME Receive \/ Fetch \/ AnswerFetch \/ Fetched \/ Drop \/ UNCHANGED liveVars
      PROVE  UNCHANGED <<events, claims>>
  BY <1>9 DEF Receive, Fetch, AnswerFetch, Fetched, Drop, rows, liveVars
<1>10. ASSUME NEW g \in Gateways, Claim(g) PROVE G
  BY <1>10, ClaimIsLeased
<1>11. ASSUME NEW g \in Gateways, Finish(g) PROVE G
  BY <1>11, FinishIsLeased
<1> HIDE DEF G
<1>12. G
  BY <1>1, <1>2, <1>3, <1>4, <1>5, <1>6, <1>7, <1>8, <1>9, <1>10, <1>11, LiveSteps
<1> QED  BY <1>12 DEF G

-----------------------------------------------------------------------------
(* The browser *)

(* The ids kept: the new one is last, the oldest goes when there are Cap.  *)
LEMMA RememberedIds ==
  ASSUME NEW ids \in Seq(EventId), Len(ids) <= Cap, NEW id \in EventId
  PROVE  /\ Remembered(ids, id) \in Seq(EventId)
         /\ Len(Remembered(ids, id)) \in 1..Cap
         /\ Remembered(ids, id)[Len(Remembered(ids, id))] = id
         /\ Len(Remembered(ids, id)) = IF Len(ids) < Cap THEN Len(ids) + 1 ELSE Cap
         /\ \A k \in 1..(Len(Remembered(ids, id)) - 1) :
              Remembered(ids, id)[k] = ids[Len(ids) + 1 - Len(Remembered(ids, id)) + k]
<1> DEFINE all == Append(ids, id)
<1>1. /\ all \in Seq(EventId) /\ all # <<>> /\ Len(all) = Len(ids) + 1
      /\ \A i \in 1..Len(ids) : all[i] = ids[i]
      /\ all[Len(ids) + 1] = id
  BY AppendProperties
<1>2. Cap \in Nat \ {0} /\ Len(ids) \in Nat
  BY LiveAssumption, LenProperties
<1>3. Remembered(ids, id) = IF Len(all) > Cap THEN Tail(all) ELSE all
  BY DEF Remembered
<1> HIDE DEF all
<1>4. CASE Len(all) > Cap
  <2>1. /\ Tail(all) \in Seq(EventId) /\ Len(Tail(all)) = Len(all) - 1
        /\ \A i \in 1..Len(Tail(all)) : Tail(all)[i] = all[i + 1]
    BY <1>1, HeadTailProperties
  <2>2. Len(ids) = Cap /\ Len(Tail(all)) = Cap
    BY <1>1, <1>2, <1>4, <2>1
  <2>3. Tail(all)[Cap] = id
    BY <1>1, <1>2, <2>1, <2>2
  <2>4. \A k \in 1..(Cap - 1) : Tail(all)[k] = ids[k + 1]
    BY <1>1, <1>2, <2>1, <2>2
  <2>5. Remembered(ids, id) = Tail(all)
    BY <1>3, <1>4
  <2>6. \A k \in 1..(Cap - 1) : Len(ids) + 1 - Cap + k = k + 1
    BY <1>2, <2>2
  <2>7. /\ Cap \in 1..Cap
        /\ Cap = IF Len(ids) < Cap THEN Len(ids) + 1 ELSE Cap
    BY <1>2, <2>2
  <2>8. \A k \in 1..(Cap - 1) : Tail(all)[k] = ids[Len(ids) + 1 - Cap + k]
    BY <2>4, <2>6
  <2> QED  BY <2>1, <2>2, <2>3, <2>5, <2>7, <2>8
<1>5. CASE ~(Len(all) > Cap)
  BY <1>1, <1>2, <1>3, <1>5
<1> QED  BY <1>4, <1>5

(* The events shown: the new one is first, and there are EventCap at most. *)
LEMMA ShownIds ==
  ASSUME NEW ids \in Seq(EventId), Len(ids) <= EventCap, NEW id \in EventId
  PROVE  /\ Shown(ids, id) \in Seq(EventId)
         /\ Len(Shown(ids, id)) = IF Len(ids) < EventCap THEN Len(ids) + 1 ELSE EventCap
         /\ Shown(ids, id)[1] = id
         /\ \A k \in 2..Len(Shown(ids, id)) : Shown(ids, id)[k] = ids[k - 1]
<1> DEFINE all == <<id>> \o ids
<1>1. /\ all \in Seq(EventId) /\ Len(all) = 1 + Len(ids) /\ all[1] = id
      /\ \A i \in 2..Len(all) : all[i] = ids[i - 1]
  <2>1. <<id>> \in Seq(EventId) /\ Len(<<id>>) = 1 /\ <<id>>[1] = id
    OBVIOUS
  <2>2. /\ all \in Seq(EventId) /\ Len(all) = 1 + Len(ids)
        /\ \A i \in 1..(1 + Len(ids)) : all[i] = IF i <= 1 THEN <<id>>[i] ELSE ids[i - 1]
    BY <2>1, ConcatProperties
  <2>3. Len(ids) \in Nat
    BY LenProperties
  <2> QED  BY <2>1, <2>2, <2>3
<1>2. EventCap \in Nat \ {0} /\ Len(ids) \in Nat
  BY LiveAssumption, LenProperties
<1>3. PICK n \in Nat : n = IF Len(ids) < EventCap THEN Len(ids) + 1 ELSE EventCap
  BY <1>2
<1>4. Shown(ids, id) = SubSeq(all, 1, n)
  BY <1>3 DEF Shown
<1>5. n \in 1..Len(all)
  BY <1>1, <1>2, <1>3
<1> HIDE DEF all
<1>6. \A i \in 1..n : all[i] \in EventId
  BY <1>1, <1>5, ElementOfSeq, LenProperties
<1>7. /\ SubSeq(all, 1, n) \in Seq(EventId) /\ Len(SubSeq(all, 1, n)) = n
      /\ \A i \in 1..n : SubSeq(all, 1, n)[i] = all[i]
  BY <1>5, <1>6, SubSeqProperties
<1> QED  BY <1>1, <1>3, <1>4, <1>5, <1>7

LEMMA ReducedStatus ==
  ASSUME NEW previous \in Status, NEW incoming \in Status \ {"unknown"}
  PROVE  /\ reduceCommandStatus(previous, incoming) \in Status \ {"unknown"}
         /\ previous \in TERMINAL => reduceCommandStatus(previous, incoming) = previous
         /\ reduceCommandStatus(previous, incoming) \in {previous, incoming}
<1>1. COMMAND_STATUS_ORDER["unknown"] = 0 /\ COMMAND_STATUS_ORDER[incoming] \in 0..4
  BY DEF COMMAND_STATUS_ORDER, Status, TERMINAL
<1>2. previous = "unknown" => reduceCommandStatus(previous, incoming) = incoming
  BY <1>1 DEF reduceCommandStatus, TERMINAL
<1>3. previous \in TERMINAL => reduceCommandStatus(previous, incoming) = previous
  BY DEF reduceCommandStatus
<1> QED  BY <1>2, <1>3 DEF reduceCommandStatus

(* What an envelope that is new does to the browser.                       *)
LEMMA AppliedBrowser ==
  ASSUME NEW b \in Browser, Len(b.processed) <= Cap, Len(b.shown) <= EventCap,
         NEW e \in Envelope, ~Contains(b.processed, e.id)
  PROVE  LET c == e.change.command
             after == reduceCommandStatus(b.statuses[c], e.change.status)
             n == Applied(b, e)
         IN  /\ n \in Browser
             /\ n.processed = Remembered(b.processed, e.id)
             /\ n.shown = Shown(b.shown, e.id)
             /\ n.statuses = [b.statuses EXCEPT ![c] = after]
             /\ n.pending = Cleared(b.pending, c, b.statuses[c], after)
<1> DEFINE c == e.change.command
           after == reduceCommandStatus(b.statuses[c], e.change.status)
<1>1. c \in Commands /\ e.change.status \in Status \ {"unknown"} /\ e.id \in EventId
      /\ b.statuses[c] \in Status /\ after \in Status \ {"unknown"}
  <2>1. e.change \in Change /\ e.id \in EventId
    BY DEF Envelope
  <2>2. c \in Commands /\ e.change.status \in Status \ {"unknown"}
    BY <2>1 DEF Change
  <2>3. b.statuses[c] \in Status
    BY <2>2 DEF Browser
  <2> QED  BY <2>1, <2>2, <2>3, ReducedStatus
<1>2. PICK p \in Seq(EventId) : p = Remembered(b.processed, e.id)
  BY <1>1, RememberedIds DEF Browser
<1>3. PICK s \in Seq(EventId) : s = Shown(b.shown, e.id)
  BY <1>1, ShownIds DEF Browser
<1>4. PICK t \in [Commands -> Status] : t = [b.statuses EXCEPT ![c] = after]
  BY <1>1 DEF Browser
<1>5. PICK q \in SUBSET Commands : q = Cleared(b.pending, c, b.statuses[c], after)
  BY DEF Cleared, Browser
<1>6. PICK l \in Change \cup {NoChange} :
        l = IF b.latest.command = c THEN Is(c, after) ELSE b.latest
  BY <1>1 DEF Is, Change, Browser
<1>7. Applied(b, e) = [b EXCEPT !.processed = p, !.shown = s, !.statuses = t,
                                !.pending = q, !.latest = l]
  BY <1>2, <1>3, <1>4, <1>5, <1>6 DEF Applied
<1> HIDE DEF c, after
<1>8. Applied(b, e) \in Browser
  BY <1>7 DEF Browser
<1>9. /\ Applied(b, e).processed = p /\ Applied(b, e).shown = s
      /\ Applied(b, e).statuses = t /\ Applied(b, e).pending = q
  BY <1>7 DEF Browser
<1> QED  BY <1>2, <1>3, <1>4, <1>5, <1>8, <1>9 DEF c, after

-----------------------------------------------------------------------------
(* The commands *)

(* A command that someone has heard of has been created.                   *)
KnownInv ==
  /\ \A c \in Commands :
       /\ request[c].phase \in {"none", "posted"} => command[c] = "unknown"
       /\ outbox[c] # "none" => command[c] # "unknown"
  /\ newest # Null => command[newest] # "unknown"

LEMMA ServerAnswers ==
  ASSUME LiveTypeOK, KnownInv, NEW c \in Commands, Create(c) \/ Refuse(c) \/ TellCreated(c) \/ Answered(c)
  PROVE  /\ command' \in [Commands -> Status]
         /\ newest' \in Commands \cup {Null}
         /\ outbox' \in [Commands -> {"none", "pending", "sent", "recorded"}]
         /\ request' \in [Commands -> [phase: Phase, at: Gateways \cup {Null}]]
         /\ notices' = notices /\ ingest' = ingest
         /\ KnownInv'
         /\ \A d \in Commands : command[d] # "unknown" => command'[d] = command[d]
<1> DEFINE Posts == [phase: Phase, at: Gateways \cup {Null}]
<1>0. /\ command \in [Commands -> Status] /\ request \in [Commands -> Posts]
      /\ outbox \in [Commands -> {"none", "pending", "sent", "recorded"}]
      /\ newest \in Commands \cup {Null} /\ Null \notin Commands
      /\ "queued" \in Status /\ "queued" # "unknown"
  BY LiveAssumption DEF LiveTypeOK, Status, COMMAND_STATUS_ORDER
<1>1. PICK post \in Posts : /\ request' = [request EXCEPT ![c] = post]
                            /\ post.phase \in {"created", "told", "done"}
  <2>1. request[c] \in Posts
    BY <1>0
  <2>2. CASE Create(c)
    <3>1. [request[c] EXCEPT !.phase = "created"] \in Posts
          /\ [request[c] EXCEPT !.phase = "created"].phase = "created"
      BY <2>1 DEF Phase
    <3> QED  BY <2>2, <3>1 DEF Create
  <2>3. CASE TellCreated(c)
    <3>1. [request[c] EXCEPT !.phase = "told"] \in Posts
          /\ [request[c] EXCEPT !.phase = "told"].phase = "told"
      BY <2>1 DEF Phase
    <3> QED  BY <2>3, <3>1 DEF TellCreated
  <2>4. CASE Refuse(c) \/ Answered(c)
    <3>1. [phase |-> "done", at |-> Null] \in Posts
      BY DEF Phase
    <3> QED  BY <2>4, <3>1 DEF Refuse, Answered
  <2> QED  BY <2>2, <2>3, <2>4
<1>2. request' \in [Commands -> Posts] /\ request'[c].phase \in {"created", "told", "done"}
      /\ \A d \in Commands : d # c => request'[d] = request[d]
  BY <1>0, <1>1
<1>3. notices' = notices /\ ingest' = ingest
  BY DEF Create, Refuse, TellCreated, Answered
<1>4. CASE Create(c)
  <2>1. /\ command' = [command EXCEPT ![c] = "queued"] /\ newest' = c
        /\ outbox' = [outbox EXCEPT ![c] = "pending"]
        /\ request[c].phase = "posted"
    BY <1>4 DEF Create
  <2>2. command[c] = "unknown"
    BY <2>1 DEF KnownInv
  <2>3. /\ command' \in [Commands -> Status] /\ command'[c] = "queued"
        /\ \A d \in Commands : d # c => command'[d] = command[d] /\ outbox'[d] = outbox[d]
        /\ outbox' \in [Commands -> {"none", "pending", "sent", "recorded"}]
    BY <1>0, <2>1
  <2>4. KnownInv'
    BY <1>0, <1>2, <2>1, <2>3 DEF KnownInv
  <2> QED  BY <1>0, <1>2, <1>3, <2>1, <2>2, <2>3, <2>4
<1>5. CASE Refuse(c) \/ TellCreated(c) \/ Answered(c)
  <2>1. command' = command /\ newest' = newest /\ outbox' = outbox
    BY <1>5 DEF Refuse, TellCreated, Answered
  <2>2. KnownInv'
    BY <1>2, <2>1 DEF KnownInv
  <2> QED  BY <1>0, <1>2, <1>3, <2>1, <2>2
<1> QED  BY <1>4, <1>5

LEMMA ServerChanges ==
  ASSUME LiveTypeOK, KnownInv, NEW g \in Gateways,
         \/ \E due \in SUBSET Commands : GiveUp(g, due)
         \/ \E change \in Change : IngestAck(g, change)
         \/ \E c \in Commands : Publish(g, c) \/ Record(g, c)
  PROVE  /\ command' \in [Commands -> Status]
         /\ newest' = newest /\ request' = request
         /\ outbox' \in [Commands -> {"none", "pending", "sent", "recorded"}]
         /\ \E told \in SUBSET Change :
              /\ notices' = [notices EXCEPT ![g] = told]
              /\ \A m \in told : m \in notices[g] \/ m.status = command'[m.command]
         /\ \E told \in Change \cup {NoChange} :
              /\ ingest' = [ingest EXCEPT ![g] = told]
              /\ told = ingest[g] \/ told.status = command'[told.command]
         /\ KnownInv'
         /\ \A d \in Commands : command[d] \in TERMINAL => command'[d] = command[d]
<1>0. /\ command \in [Commands -> Status]
      /\ outbox \in [Commands -> {"none", "pending", "sent", "recorded"}]
      /\ notices \in [Gateways -> SUBSET Change]
      /\ ingest \in [Gateways -> Change \cup {NoChange}]
  BY DEF LiveTypeOK
<1>1. newest' = newest /\ request' = request
  BY DEF GiveUp, IngestAck, Publish, Record
<1>2. /\ notices = [notices EXCEPT ![g] = notices[g]]
      /\ ingest = [ingest EXCEPT ![g] = ingest[g]]
  BY <1>0
<1>3. /\ notices[g] \in SUBSET Change /\ ingest[g] \in Change \cup {NoChange}
  BY <1>0
<1>4. ASSUME NEW due \in SUBSET Commands, GiveUp(g, due)
      PROVE  /\ command' \in [Commands -> Status]
             /\ outbox' \in [Commands -> {"none", "pending", "sent", "recorded"}]
             /\ \E told \in SUBSET Change :
                  /\ notices' = [notices EXCEPT ![g] = told]
                  /\ \A m \in told : m \in notices[g] \/ m.status = command'[m.command]
             /\ ingest' = ingest
             /\ \A c \in Commands : command[c] # "unknown" => command'[c] # "unknown"
             /\ \A c \in Commands : command[c] = "unknown" => command'[c] = "unknown"
             /\ \A c \in Commands : outbox'[c] # "none" => outbox[c] # "none" 
             /\ \A d \in Commands : command[d] \in TERMINAL => command'[d] = command[d]
  <2>1. /\ command' = [c \in Commands |-> IF c \in due THEN "timed_out" ELSE command[c]]
        /\ notices' = [notices EXCEPT ![g] = {Is(c, "timed_out") : c \in due}]
        /\ outbox' = [c \in Commands |-> IF c \in due /\ outbox[c] = "pending" THEN "none"
                                         ELSE outbox[c]]
        /\ ingest' = ingest /\ due \subseteq Open
    BY <1>4 DEF GiveUp
  <2>2. "timed_out" \in Status
    BY DEF Status, COMMAND_STATUS_ORDER, TERMINAL
  <2>3. \A c \in due : /\ command[c] \notin TERMINAL \cup {"unknown"}
                       /\ Is(c, "timed_out") \in Change
                       /\ Is(c, "timed_out").status = command'[Is(c, "timed_out").command]
    BY <2>1, <2>2 DEF Open, TERMINAL, Is, Change
  <2>4. \E told \in SUBSET Change :
                  /\ notices' = [notices EXCEPT ![g] = told]
                  /\ \A m \in told : m \in notices[g] \/ m.status = command'[m.command]
    <3> DEFINE news == {Is(c, "timed_out") : c \in due}
    <3>1. news \in SUBSET Change /\ \A m \in news : m.status = command'[m.command]
      BY <2>3
    <3> QED  BY <2>1, <3>1
  <2> QED  BY <1>0, <2>1, <2>2, <2>3, <2>4
<1>5. ASSUME NEW change \in Change, IngestAck(g, change)
      PROVE  /\ command' \in [Commands -> Status]
             /\ outbox' = outbox /\ notices' = notices
             /\ ingest' = [ingest EXCEPT ![g] = change]
             /\ change.status = command'[change.command]
             /\ \A c \in Commands : command[c] # "unknown" => command'[c] # "unknown"
             /\ \A c \in Commands : command[c] = "unknown" => command'[c] = "unknown"
             /\ \A d \in Commands : command[d] \in TERMINAL => command'[d] = command[d]
  <2>1. /\ command' = [command EXCEPT ![change.command] = change.status]
        /\ ingest' = [ingest EXCEPT ![g] = change]
        /\ outbox' = outbox /\ notices' = notices
        /\ COMMAND_STATUS_ORDER[change.status] > COMMAND_STATUS_ORDER[command[change.command]]
        /\ outbox[change.command] # "none"
    BY <1>5 DEF IngestAck
  <2>2. change.command \in Commands /\ change.status \in Status \ {"unknown"}
    BY DEF Change
  <2>3. command[change.command] # "unknown"
    BY <2>1, <2>2 DEF KnownInv
  <2>4. /\ COMMAND_STATUS_ORDER[change.status] \in 0..4
        /\ \A s \in TERMINAL : COMMAND_STATUS_ORDER[s] = 4
    BY <2>2 DEF COMMAND_STATUS_ORDER, Status, TERMINAL
  <2>5. command[change.command] \notin TERMINAL
    BY <2>1, <2>4
  <2> QED  BY <1>0, <2>1, <2>2, <2>3, <2>5
<1>6. ASSUME NEW c \in Commands, Publish(g, c)
      PROVE  /\ outbox' \in [Commands -> {"none", "pending", "sent", "recorded"}]
             /\ command' = command /\ notices' = notices /\ ingest' = ingest
             /\ \A d \in Commands : outbox'[d] # "none" => outbox[d] # "none" 
  BY <1>0, <1>6 DEF Publish
<1>7. ASSUME NEW c \in Commands, Record(g, c)
      PROVE  /\ command' \in [Commands -> Status]
             /\ outbox' \in [Commands -> {"none", "pending", "sent", "recorded"}]
             /\ \E told \in SUBSET Change :
                  /\ notices' = [notices EXCEPT ![g] = told]
                  /\ \A m \in told : m \in notices[g] \/ m.status = command'[m.command]
             /\ ingest' = ingest
             /\ \A d \in Commands : command[d] # "unknown" => command'[d] # "unknown"
             /\ \A d \in Commands : command[d] = "unknown" => command'[d] = "unknown"
             /\ \A d \in Commands : outbox'[d] # "none" => outbox[d] # "none" 
             /\ \A d \in Commands : command[d] \in TERMINAL => command'[d] = command[d]
  <2>1. /\ command' = [command EXCEPT ![c] = IF @ = "queued" THEN "published" ELSE @]
        /\ outbox[c] = "sent" /\ outbox' = [outbox EXCEPT ![c] = "recorded"]
        /\ notices' = [notices EXCEPT ![g] = {Is(c, command'[c])}]
        /\ ingest' = ingest
    BY <1>7 DEF Record
  <2>2. command[c] # "unknown" /\ "published" \in Status /\ "published" # "unknown"
        /\ "queued" \notin TERMINAL
    BY <2>1 DEF KnownInv, Status, COMMAND_STATUS_ORDER, TERMINAL
  <2>3. command' \in [Commands -> Status] /\ command'[c] # "unknown"
    BY <1>0, <2>1, <2>2
  <2>4. Is(c, command'[c]) \in Change
        /\ Is(c, command'[c]).status = command'[Is(c, command'[c]).command]
    BY <2>3 DEF Is, Change
  <2>5. \E told \in SUBSET Change :
                  /\ notices' = [notices EXCEPT ![g] = told]
                  /\ \A m \in told : m \in notices[g] \/ m.status = command'[m.command]
    <3> DEFINE news == {Is(c, command'[c])}
    <3>1. news \in SUBSET Change /\ \A m \in news : m.status = command'[m.command]
      BY <2>4
    <3> QED  BY <2>1, <3>1
  <2> QED  BY <1>0, <2>1, <2>2, <2>3, <2>5
<1>8. /\ command' \in [Commands -> Status]
      /\ outbox' \in [Commands -> {"none", "pending", "sent", "recorded"}]
      /\ \A d \in Commands : command[d] # "unknown" => command'[d] # "unknown"
      /\ \A d \in Commands : command[d] = "unknown" => command'[d] = "unknown"
      /\ \A d \in Commands : outbox'[d] # "none" => outbox[d] # "none" 
      /\ \A d \in Commands : command[d] \in TERMINAL => command'[d] = command[d]
  BY <1>0, <1>4, <1>5, <1>6, <1>7
<1>9. KnownInv'
  <2>1. newest # Null => newest \in Commands
    BY DEF LiveTypeOK
  <2> QED  BY <1>1, <1>8, <2>1 DEF KnownInv
<1>10. \E told \in SUBSET Change :
              /\ notices' = [notices EXCEPT ![g] = told]
              /\ \A m \in told : m \in notices[g] \/ m.status = command'[m.command]
  BY <1>2, <1>3, <1>4, <1>5, <1>6, <1>7
<1>11. \E told \in Change \cup {NoChange} :
              /\ ingest' = [ingest EXCEPT ![g] = told]
              /\ told = ingest[g] \/ told.status = command'[told.command]
  BY <1>2, <1>3, <1>4, <1>5, <1>6, <1>7
<1> QED  BY <1>1, <1>8, <1>9, <1>10, <1>11

ServerType ==
  /\ command \in [Commands -> Status]
  /\ newest \in Commands \cup {Null}
  /\ outbox \in [Commands -> {"none", "pending", "sent", "recorded"}]
  /\ request \in [Commands -> [phase: Phase, at: Gateways \cup {Null}]]
  /\ notices \in [Gateways -> SUBSET Change]
  /\ ingest \in [Gateways -> Change \cup {NoChange}]

LEMMA ServerKept ==
  ASSUME LiveTypeOK, KnownInv, [LiveNext]_liveVars
  PROVE  /\ ServerType' /\ KnownInv'
         /\ \A d \in Commands : command[d] \in TERMINAL => command'[d] = command[d]
<1> DEFINE G == /\ ServerType' /\ KnownInv'
                /\ \A d \in Commands : command[d] \in TERMINAL => command'[d] = command[d]
<1>0. ServerType
  BY DEF LiveTypeOK, ServerType
<1>1. ASSUME NEW c \in Commands, Create(c) \/ Refuse(c) \/ TellCreated(c) \/ Answered(c)
      PROVE  G
  <2>1. /\ command' \in [Commands -> Status]
        /\ newest' \in Commands \cup {Null}
        /\ outbox' \in [Commands -> {"none", "pending", "sent", "recorded"}]
        /\ request' \in [Commands -> [phase: Phase, at: Gateways \cup {Null}]]
        /\ notices' = notices /\ ingest' = ingest
        /\ KnownInv'
        /\ \A d \in Commands : command[d] # "unknown" => command'[d] = command[d]
    BY <1>1, ServerAnswers
  <2>2. "unknown" \notin TERMINAL
    BY DEF TERMINAL
  <2> QED  BY <1>0, <2>1, <2>2 DEF ServerType
<1>2. ASSUME NEW g \in Gateways,
             \/ \E due \in SUBSET Commands : GiveUp(g, due)
             \/ \E change \in Change : IngestAck(g, change)
             \/ \E c \in Commands : Publish(g, c) \/ Record(g, c)
      PROVE  G
  <2>1. /\ command' \in [Commands -> Status]
        /\ newest' = newest /\ request' = request
        /\ outbox' \in [Commands -> {"none", "pending", "sent", "recorded"}]
        /\ \E told \in SUBSET Change : notices' = [notices EXCEPT ![g] = told]
        /\ \E told \in Change \cup {NoChange} : ingest' = [ingest EXCEPT ![g] = told]
        /\ KnownInv'
        /\ \A d \in Commands : command[d] \in TERMINAL => command'[d] = command[d]
    BY <1>2, ServerChanges
  <2> QED  BY <1>0, <2>1 DEF ServerType
<1>3. ASSUME NEW g \in Gateways, NEW c \in Commands, Post(c, g) PROVE G
  <2>1. /\ command' = command /\ newest' = newest /\ outbox' = outbox
        /\ notices' = notices /\ ingest' = ingest
        /\ request' = [request EXCEPT ![c] = [phase |-> "posted", at |-> g]]
        /\ request[c].phase = "none"
    BY <1>3 DEF Post
  <2>2. [phase |-> "posted", at |-> g] \in [phase: Phase, at: Gateways \cup {Null}]
    BY DEF Phase
  <2>3. request' \in [Commands -> [phase: Phase, at: Gateways \cup {Null}]]
    BY <1>0, <2>1, <2>2 DEF ServerType
  <2>4. command[c] = "unknown" /\ \A d \in Commands : d # c => request'[d] = request[d]
    BY <1>0, <2>1 DEF KnownInv, ServerType
  <2>5. KnownInv'
    BY <2>1, <2>4 DEF KnownInv
  <2> QED  BY <1>0, <2>1, <2>3, <2>5 DEF ServerType
<1>4. ASSUME NEW g \in Gateways, TellChanged(g) \/ BroadcastAck(g) \/ Fail(g)
      PROVE  G
  <2>1. /\ command' = command /\ newest' = newest /\ outbox' = outbox /\ request' = request
    BY <1>4 DEF TellChanged, BroadcastAck, Fail
  <2>2. \/ notices' = notices
        \/ notices' = [notices EXCEPT ![g] = {}]
        \/ \E change \in notices[g] : notices' = [notices EXCEPT ![g] = @ \ {change}]
    BY <1>4 DEF TellChanged, BroadcastAck, Fail
  <2>3. ingest' = ingest \/ ingest' = [ingest EXCEPT ![g] = NoChange]
    BY <1>4 DEF TellChanged, BroadcastAck, Fail
  <2>4. notices' \in [Gateways -> SUBSET Change] /\ ingest' \in [Gateways -> Change \cup {NoChange}]
    BY <1>0, <2>2, <2>3 DEF ServerType
  <2>5. KnownInv'
    BY <2>1 DEF KnownInv
  <2> QED  BY <1>0, <2>1, <2>4, <2>5 DEF ServerType
<1>5. ASSUME NEW g \in Gateways, RestartGateway(g) PROVE G
  <2>1. /\ command' = command /\ newest' = newest /\ outbox' = outbox
        /\ notices' = [notices EXCEPT ![g] = {}]
        /\ ingest' = [ingest EXCEPT ![g] = NoChange]
        /\ request' = [c \in Commands |->
             IF c \in Handled(g) THEN [phase |-> "done", at |-> Null] ELSE request[c]]
    BY <1>5 DEF RestartGateway
  <2>2. notices' \in [Gateways -> SUBSET Change] /\ ingest' \in [Gateways -> Change \cup {NoChange}]
    BY <1>0, <2>1 DEF ServerType
  <2>3. [phase |-> "done", at |-> Null] \in [phase: Phase, at: Gateways \cup {Null}]
    BY DEF Phase
  <2>4. request' \in [Commands -> [phase: Phase, at: Gateways \cup {Null}]]
    BY <1>0, <2>1, <2>3 DEF ServerType
  <2>5. KnownInv'
    BY <2>1 DEF KnownInv
  <2> QED  BY <1>0, <2>1, <2>2, <2>4, <2>5 DEF ServerType
<1>6. ASSUME UNCHANGED server PROVE G
  BY <1>0, <1>6 DEF ServerType, KnownInv, server
<1>7. ASSUME NEW g \in Gateways, Claim(g) \/ BroadcastRow(g) \/ Finish(g) \/ OpenSocket(g)
      PROVE  UNCHANGED server
  BY <1>7 DEF Claim, BroadcastRow, Finish, OpenSocket
<1>8. ASSUME \/ \E i \in DOMAIN events : LeaseExpires(i)
             \/ Receive \/ Fetch \/ AnswerFetch \/ Fetched \/ Drop \/ UNCHANGED liveVars
      PROVE  UNCHANGED server
  BY <1>8 DEF LeaseExpires, Receive, Fetch, AnswerFetch, Fetched, Drop, liveVars
<1> HIDE DEF G
<1>9. G
  BY <1>1, <1>2, <1>3, <1>4, <1>5, <1>6, <1>7, <1>8, LiveSteps
<1> QED  BY <1>9 DEF G

-----------------------------------------------------------------------------
(* The client *)

LEMMA EndsAreCommands ==
  ASSUME NEW changes, \A m \in changes : m \in Change \/ m = NoChange
  PROVE  Ends(changes) \subseteq Commands
BY DEF Ends, Change, NoChange, TERMINAL

LEMMA BroadcastTyped ==
  ASSUME LiveTypeOK, NEW g \in Gateways, NEW e \in Envelope, Broadcast(g, e)
  PROVE  /\ inbound' \in Seq(Envelope) /\ missed' \subseteq Commands
         /\ socket' = socket /\ browser' = browser /\ fetch' = fetch
         /\ \/ inbound' = inbound
            \/ inbound' = Append(inbound, e)
<1>1. e.change \in Change
  BY DEF Envelope
<1>2. Ends({e.change}) \subseteq Commands
  BY <1>1, EndsAreCommands
<1>3. Append(inbound, e) \in Seq(Envelope)
  BY AppendProperties DEF LiveTypeOK
<1> QED  BY <1>2, <1>3 DEF Broadcast, LiveTypeOK

LEMMA ChancesKept ==
  ASSUME LiveTypeOK, [LiveNext]_liveVars
  PROVE  chances' \in Chances /\ chances'.gateways = chances.gateways
<1>1. \/ chances' = chances
      \/ chances.publishes > 0 /\ chances' = [chances EXCEPT !.publishes = @ - 1]
      \/ chances.acks > 0 /\ chances' = [chances EXCEPT !.acks = @ - 1]
      \/ chances.fetches > 0 /\ chances' = [chances EXCEPT !.fetches = @ - 1]
      \/ chances.crashes > 0 /\ chances' = [chances EXCEPT !.crashes = @ - 1]
      \/ chances.drops > 0 /\ chances' = [chances EXCEPT !.drops = @ - 1]
      \/ chances.stalls > 0 /\ chances' = [chances EXCEPT !.stalls = @ - 1]
  <2> DEFINE G == <1>1!:
  <2>1. ASSUME NEW c \in Commands, Create(c) \/ Refuse(c) \/ TellCreated(c) \/ Answered(c)
        PROVE  chances' = chances
    BY <2>1 DEF Create, Refuse, TellCreated, Answered
  <2>2. ASSUME NEW g \in Gateways, NEW c \in Commands, Post(c, g) \/ Publish(g, c) \/ Record(g, c)
        PROVE  G
    BY <2>2 DEF Post, Publish, Record
  <2>3. ASSUME NEW g \in Gateways, TellChanged(g) \/ Claim(g) \/ BroadcastRow(g) \/ Finish(g)
        PROVE  chances' = chances
    BY <2>3 DEF TellChanged, Claim, BroadcastRow, Finish
  <2>4. ASSUME NEW g \in Gateways, BroadcastAck(g) \/ OpenSocket(g) \/ RestartGateway(g) \/ Fail(g)
        PROVE  G
    BY <2>4 DEF BroadcastAck, OpenSocket, RestartGateway, Fail
  <2>5. ASSUME NEW g \in Gateways,
             \/ \E due \in SUBSET Commands : GiveUp(g, due)
             \/ \E change \in Change : IngestAck(g, change)
        PROVE  G
    BY <2>5 DEF GiveUp, IngestAck
  <2>6. ASSUME NEW i \in DOMAIN events, LeaseExpires(i) PROVE G
    BY <2>6 DEF LeaseExpires
  <2>7. ASSUME Receive \/ Fetch \/ AnswerFetch \/ Fetched \/ Drop \/ UNCHANGED liveVars
        PROVE  G
    BY <2>7 DEF Receive, Fetch, AnswerFetch, Fetched, Drop, liveVars
  <2> QED  BY <2>1, <2>2, <2>3, <2>4, <2>5, <2>6, <2>7, LiveSteps
<1>2. chances \in Chances
  BY DEF LiveTypeOK
<1> QED  BY <1>1, <1>2 DEF Chances

(* The browser outside of applyEnvelope: ids, events and statuses stay.    *)
SameView ==
  /\ browser' \in Browser
  /\ browser'.processed = browser.processed /\ browser'.shown = browser.shown
  /\ browser'.statuses = browser.statuses

LEMMA BrowserView ==
  ASSUME LiveTypeOK, [LiveNext]_liveVars, ~Receive
  PROVE  SameView /\ browser'.pending \subseteq
                       browser.pending \cup {c \in Commands : IsPending(c)}
<1> DEFINE G == SameView /\ browser'.pending \subseteq
                       browser.pending \cup {c \in Commands : IsPending(c)}
<1>0. browser \in Browser /\ Null \notin Commands
  BY LiveAssumption DEF LiveTypeOK
<1>1. ASSUME browser' = browser PROVE G
  BY <1>0, <1>1 DEF SameView
<1>2. ASSUME NEW c \in Commands, Create(c) \/ Refuse(c) \/ TellCreated(c) \/ Answered(c)
      PROVE  G
  <2>1. CASE Create(c) \/ TellCreated(c)
    BY <1>1, <2>1 DEF Create, TellCreated, client
  <2>2. CASE Refuse(c)
    <3>1. browser' = [browser EXCEPT !.local = browser.local \ {c}]
      BY <2>2 DEF Refuse
    <3>2. browser' \in Browser
      BY <1>0, <3>1 DEF Browser
    <3> QED  BY <1>0, <3>1, <3>2 DEF SameView, Browser
  <2>3. CASE Answered(c)
    <3>1. PICK q \in SUBSET Commands :
            /\ q = IF IsPending(c) THEN browser.pending \cup {c} ELSE browser.pending
            /\ browser' = [browser EXCEPT !.local = browser.local \ {c}, !.pending = q]
      BY <1>0, <2>3 DEF Answered, Browser
    <3>2. browser' \in Browser
      BY <1>0, <3>1 DEF Browser
    <3>3. /\ browser'.processed = browser.processed /\ browser'.shown = browser.shown
          /\ browser'.statuses = browser.statuses /\ browser'.pending = q
      BY <1>0, <3>1 DEF Browser
    <3>4. q \subseteq browser.pending \cup {d \in Commands : IsPending(d)}
      BY <3>1
    <3> QED  BY <3>2, <3>3, <3>4 DEF SameView
  <2> QED  BY <1>2, <2>1, <2>2, <2>3
<1>3. ASSUME NEW g \in Gateways, NEW c \in Commands, Post(c, g) PROVE G
  <2>1. browser' = [browser EXCEPT !.local = browser.local \cup {c}]
    BY <1>3 DEF Post
  <2>2. browser' \in Browser
    BY <1>0, <2>1 DEF Browser
  <2> QED  BY <1>0, <2>1, <2>2 DEF SameView, Browser
<1>4. ASSUME NEW g \in Gateways, RestartGateway(g) PROVE G
  <2>1. browser' = [browser EXCEPT !.local = browser.local \ Handled(g),
                                   !.lost = (browser.lost \/ socket = g)]
    BY <1>4 DEF RestartGateway
  <2>2. PICK was \in BOOLEAN : was = (browser.lost \/ socket = g)
    OBVIOUS
  <2>3. PICK local \in SUBSET Commands : local = browser.local \ Handled(g)
    BY <1>0 DEF Browser
  <2>4. browser' = [browser EXCEPT !.local = local, !.lost = was]
    BY <2>1, <2>2, <2>3, Zenon
  <2>5. browser' \in Browser
    BY <1>0, <2>4 DEF Browser
  <2> QED  BY <1>0, <2>4, <2>5 DEF SameView, Browser
<1>5. ASSUME NEW g \in Gateways, OpenSocket(g) PROVE G
  <2>1. browser' = [browser EXCEPT !.lost = FALSE]
    BY <1>5 DEF OpenSocket
  <2>2. browser' \in Browser
    BY <1>0, <2>1 DEF Browser
  <2> QED  BY <1>0, <2>1, <2>2 DEF SameView, Browser
<1>6. ASSUME Drop PROVE G
  <2>1. browser' = [browser EXCEPT !.lost = TRUE]
    BY <1>6 DEF Drop
  <2>2. browser' \in Browser
    BY <1>0, <2>1 DEF Browser
  <2> QED  BY <1>0, <2>1, <2>2 DEF SameView, Browser
<1>7. ASSUME Fetched PROVE G
  <2>1. fetch.answer \in Change \cup {NoChange}
    BY DEF LiveTypeOK, Answer
  <2>2. PICK q \in SUBSET browser.pending :
          browser' = [browser EXCEPT !.latest = fetch.answer, !.pending = q]
    BY <1>7 DEF Fetched
  <2>3. q \in SUBSET Commands
    BY <1>0, <2>2 DEF Browser
  <2>4. browser' \in Browser
    BY <1>0, <2>1, <2>2, <2>3 DEF Browser
  <2>5. /\ browser'.processed = browser.processed /\ browser'.shown = browser.shown
        /\ browser'.statuses = browser.statuses /\ browser'.pending = q
    BY <1>0, <2>2 DEF Browser
  <2> QED  BY <2>2, <2>4, <2>5 DEF SameView
<1>8. ASSUME NEW g \in Gateways, NEW c \in Commands, Publish(g, c) \/ Record(g, c) PROVE browser' = browser
  BY <1>8 DEF Publish, Record, client
<1>9. ASSUME NEW g \in Gateways, TellChanged(g) \/ Claim(g) \/ BroadcastRow(g) \/ Finish(g)
                                 \/ BroadcastAck(g) \/ Fail(g)
      PROVE  browser' = browser
  BY <1>9 DEF TellChanged, Claim, BroadcastRow, Finish, BroadcastAck, Fail, Broadcast, client
<1>10. ASSUME NEW g \in Gateways,
             \/ \E due \in SUBSET Commands : GiveUp(g, due)
             \/ \E change \in Change : IngestAck(g, change)
       PROVE  browser' = browser
  BY <1>10 DEF GiveUp, IngestAck, client
<1>11. ASSUME \/ \E i \in DOMAIN events : LeaseExpires(i)
              \/ Fetch \/ AnswerFetch \/ UNCHANGED liveVars
       PROVE  browser' = browser
  BY <1>11 DEF LeaseExpires, Fetch, AnswerFetch, liveVars, client
<1> HIDE DEF G
<1>12. G
  BY <1>1, <1>2, <1>3, <1>4, <1>5, <1>6, <1>7, <1>8, <1>9, <1>10, <1>11, LiveSteps
<1> QED  BY <1>12 DEF G

LEMMA Received ==
  ASSUME LiveTypeOK, Receive
  PROVE  /\ browser' \in Browser
         /\ Len(browser'.processed) <= Cap /\ Len(browser'.shown) <= EventCap
         /\ inbound' \in Seq(Envelope)
         /\ \A n \in DOMAIN inbound' : n + 1 \in DOMAIN inbound /\ inbound'[n] = inbound[n + 1]
         /\ 1 \in DOMAIN inbound /\ inbound[1] \in Envelope
         /\ browser' = Applied(browser, inbound[1])
<1>1. inbound \in Seq(Envelope) /\ inbound # <<>> /\ inbound' = Tail(inbound)
      /\ browser' = Applied(browser, Head(inbound))
  BY DEF Receive, LiveTypeOK
<1>2. /\ Head(inbound) \in Envelope /\ Tail(inbound) \in Seq(Envelope)
      /\ Len(Tail(inbound)) = Len(inbound) - 1
      /\ \A i \in 1..Len(Tail(inbound)) : Tail(inbound)[i] = inbound[i + 1]
  BY <1>1, HeadTailProperties
<1>3. /\ Len(inbound) \in Nat \ {0} /\ DOMAIN inbound = 1..Len(inbound)
      /\ DOMAIN Tail(inbound) = 1..Len(Tail(inbound)) /\ Head(inbound) = inbound[1]
  BY <1>1, <1>2, LenProperties
<1>4. PICK e \in Envelope : e = inbound[1] /\ browser' = Applied(browser, e)
  BY <1>1, <1>2, <1>3
<1>5. /\ browser \in Browser
      /\ Len(browser.processed) <= Cap /\ Len(browser.shown) <= EventCap
  BY DEF LiveTypeOK
<1>6. /\ browser' \in Browser
      /\ Len(browser'.processed) <= Cap /\ Len(browser'.shown) <= EventCap
  <2>1. CASE Contains(browser.processed, e.id)
    BY <1>4, <1>5, <2>1 DEF Applied
  <2>2. CASE ~Contains(browser.processed, e.id)
    <3>1. /\ browser' \in Browser
          /\ browser'.processed = Remembered(browser.processed, e.id)
          /\ browser'.shown = Shown(browser.shown, e.id)
      BY <1>4, <1>5, <2>2, AppliedBrowser
    <3>2. browser.processed \in Seq(EventId) /\ browser.shown \in Seq(EventId) /\ e.id \in EventId
      BY <1>5 DEF Browser, Envelope
    <3>3. Len(browser'.processed) \in 1..Cap
      BY <1>5, <3>1, <3>2, RememberedIds
    <3>4. Len(browser'.shown) <= EventCap
      <4>1. Len(browser.shown) \in Nat /\ EventCap \in Nat
        BY <3>2, LenProperties, LiveAssumption
      <4> QED  BY <1>5, <3>1, <3>2, <4>1, ShownIds
    <3>5. Cap \in Nat
      BY LiveAssumption
    <3> QED  BY <3>1, <3>3, <3>4, <3>5
  <2> QED  BY <2>1, <2>2
<1> QED  BY <1>1, <1>2, <1>3, <1>4, <1>6

LEMMA WireKept ==
  ASSUME LiveTypeOK, RowsInv, [LiveNext]_liveVars
  PROVE  /\ direct' \in Nat
         /\ socket' \in chances.gateways \cup {Null}
         /\ inbound' \in Seq(Envelope)
         /\ missed' \subseteq Commands
<1> DEFINE G == /\ direct' \in Nat
                /\ socket' \in chances.gateways \cup {Null}
                /\ inbound' \in Seq(Envelope)
                /\ missed' \subseteq Commands
<1>0. /\ direct \in Nat /\ socket \in chances.gateways \cup {Null}
      /\ inbound \in Seq(Envelope) /\ missed \subseteq Commands
  BY DEF LiveTypeOK
<1>01. Ends(Carried) \subseteq Commands
  <2>1. \A n \in DOMAIN inbound : inbound[n] \in Envelope
    BY <1>0, ElementOfSeq, LenProperties
  <2>2. \A m \in Carried : m \in Change
    BY <2>1 DEF Carried, Envelope
  <2> QED  BY <2>2, EndsAreCommands
<1>02. <<>> \in Seq(Envelope)
  OBVIOUS
<1>1. ASSUME UNCHANGED <<direct, socket, inbound, missed>> PROVE G
  BY <1>0, <1>1
<1>2. ASSUME NEW g \in Gateways, BroadcastRow(g) PROVE G
  <2> DEFINE i == First(relay[g].batch).row
  <2>1. relay[g].batch \in SUBSET Claimed /\ relay[g].batch # {}
    BY <1>2 DEF BroadcastRow, RowsInv
  <2>2. i \in DOMAIN events
    BY <2>1, FirstIsOf DEF RowsInv
  <2>3. Broadcast(g, [id |-> <<"row", i>>, change |-> events[i].change]) /\ direct' = direct
    BY <1>2 DEF BroadcastRow
  <2> HIDE DEF i
  <2>4. i \in Nat /\ events[i] \in Row
    BY <2>2, ElementOfSeq, LenProperties DEF RowsInv
  <2>5. [id |-> <<"row", i>>, change |-> events[i].change] \in Envelope
    BY <2>4 DEF Envelope, EventId, Row
  <2>6. inbound' \in Seq(Envelope) /\ missed' \subseteq Commands /\ socket' = socket
    BY <2>3, <2>5, BroadcastTyped
  <2> QED  BY <1>0, <2>3, <2>6
<1>3. ASSUME NEW g \in Gateways, BroadcastAck(g) PROVE G
  <2>1. /\ Broadcast(g, [id |-> <<"direct", direct>>, change |-> ingest[g]])
        /\ direct' = direct + 1 /\ ingest[g] # NoChange
    BY <1>3 DEF BroadcastAck
  <2>2. ingest[g] \in Change
    BY <2>1 DEF LiveTypeOK
  <2>3. [id |-> <<"direct", direct>>, change |-> ingest[g]] \in Envelope
    BY <1>0, <2>2 DEF Envelope, EventId
  <2>4. inbound' \in Seq(Envelope) /\ missed' \subseteq Commands /\ socket' = socket
    BY <2>1, <2>3, BroadcastTyped
  <2> QED  BY <1>0, <2>1, <2>4
<1>4. ASSUME NEW g \in Gateways, OpenSocket(g) PROVE G
  BY <1>0, <1>4 DEF OpenSocket
<1>5. ASSUME NEW g \in Gateways, RestartGateway(g) PROVE G
  <2>1. /\ direct' = direct
        /\ missed' = missed \cup Ends(notices[g] \cup ({ingest[g]} \ {NoChange})
                                 \cup IF socket = g THEN Carried ELSE {})
        /\ socket' = IF socket = g THEN Null ELSE socket
        /\ inbound' = IF socket = g THEN <<>> ELSE inbound
    BY <1>5 DEF RestartGateway
  <2>2. Ends(notices[g] \cup ({ingest[g]} \ {NoChange}) \cup IF socket = g THEN Carried ELSE {})
          \subseteq Commands
    <3>1. \A n \in DOMAIN inbound : inbound[n] \in Envelope
      BY <1>0, ElementOfSeq, LenProperties
    <3>2. \A m \in Carried : m \in Change
      BY <3>1 DEF Carried, Envelope
    <3>3. notices[g] \in SUBSET Change /\ ingest[g] \in Change \cup {NoChange}
      BY DEF LiveTypeOK
    <3>4. \A m \in notices[g] \cup ({ingest[g]} \ {NoChange}) \cup IF socket = g THEN Carried ELSE {} :
            m \in Change \/ m = NoChange
      BY <3>2, <3>3
    <3> QED  BY <3>4, EndsAreCommands
  <2> QED  BY <1>0, <1>02, <2>1, <2>2
<1>6. ASSUME NEW g \in Gateways, Fail(g) PROVE G
  <2>1. notices[g] \in SUBSET Change
    BY DEF LiveTypeOK
  <2>2. Ends(notices[g]) \subseteq Commands
    BY <2>1, EndsAreCommands
  <2> QED  BY <1>0, <1>6, <2>2 DEF Fail, client
<1>7. ASSUME Drop PROVE G
  BY <1>0, <1>01, <1>02, <1>7 DEF Drop
<1>8. ASSUME Receive PROVE G
  BY <1>0, <1>8, Received DEF Receive
<1>9. ASSUME NEW c \in Commands, Create(c) \/ Refuse(c) \/ TellCreated(c) \/ Answered(c)
      PROVE  UNCHANGED <<direct, socket, inbound, missed>>
  BY <1>9 DEF Create, Refuse, TellCreated, Answered, client
<1>10. ASSUME NEW g \in Gateways, NEW c \in Commands, Post(c, g) \/ Publish(g, c) \/ Record(g, c)
       PROVE  UNCHANGED <<direct, socket, inbound, missed>>
  BY <1>10 DEF Post, Publish, Record, client
<1>11. ASSUME NEW g \in Gateways, TellChanged(g) \/ Claim(g) \/ Finish(g)
       PROVE  UNCHANGED <<direct, socket, inbound, missed>>
  BY <1>11 DEF TellChanged, Claim, Finish, client
<1>12. ASSUME NEW g \in Gateways,
             \/ \E due \in SUBSET Commands : GiveUp(g, due)
             \/ \E change \in Change : IngestAck(g, change)
       PROVE  UNCHANGED <<direct, socket, inbound, missed>>
  BY <1>12 DEF GiveUp, IngestAck, client
<1>13. ASSUME \/ \E i \in DOMAIN events : LeaseExpires(i)
              \/ Fetch \/ AnswerFetch \/ Fetched \/ UNCHANGED liveVars
       PROVE  UNCHANGED <<direct, socket, inbound, missed>>
  BY <1>13 DEF LeaseExpires, Fetch, AnswerFetch, Fetched, liveVars, client
<1> HIDE DEF G
<1>14. G
  BY <1>1, <1>2, <1>3, <1>4, <1>5, <1>6, <1>7, <1>8, <1>9, <1>10, <1>11, <1>12, <1>13, LiveSteps
<1> QED  BY <1>14 DEF G

LEMMA FetchKept ==
  ASSUME LiveTypeOK, KnownInv, [LiveNext]_liveVars
  PROVE  fetch' \in [phase: {"idle", "asked", "answered"}, reconnect: BOOLEAN,
                     answer: Answer]
<1> DEFINE Asked == [phase: {"idle", "asked", "answered"}, reconnect: BOOLEAN, answer: Answer]
<1>0. fetch \in Asked
  BY DEF LiveTypeOK
<1>1. NoFetch \in Asked
  BY DEF NoFetch, Answer
<1>2. ASSUME fetch' = fetch PROVE fetch' \in Asked
  BY <1>0, <1>2
<1>3. ASSUME NEW g \in Gateways, OpenSocket(g) PROVE fetch' \in Asked
  <2>1. fetch' = fetch \/ fetch' = [NoFetch EXCEPT !.phase = "asked", !.reconnect = TRUE]
    BY <1>3 DEF OpenSocket
  <2>2. [NoFetch EXCEPT !.phase = "asked", !.reconnect = TRUE] \in Asked
    BY <1>1
  <2> QED  BY <1>0, <2>1, <2>2
<1>4. ASSUME Fetch PROVE fetch' \in Asked
  BY <1>1, <1>4 DEF Fetch
<1>5. ASSUME Fetched PROVE fetch' \in Asked
  BY <1>1, <1>5 DEF Fetched
<1>6. ASSUME AnswerFetch PROVE fetch' \in Asked
  <2>1. PICK a \in Answer : fetch' = [fetch EXCEPT !.phase = "answered", !.answer = a]
    <3>1. CASE newest = Null
      BY <1>6, <3>1 DEF AnswerFetch, Answer
    <3>2. CASE newest # Null
      <4>1. newest \in Commands /\ command[newest] \in Status \ {"unknown"}
        BY <3>2 DEF LiveTypeOK, KnownInv
      <4>2. Is(newest, command[newest]) \in Answer
        BY <4>1 DEF Is, Change, Answer
      <4> QED  BY <1>6, <3>2, <4>2 DEF AnswerFetch
    <3> QED  BY <3>1, <3>2
  <2> QED  BY <1>0, <2>1
<1>7. ASSUME NEW c \in Commands, Create(c) \/ Refuse(c) \/ TellCreated(c) \/ Answered(c)
      PROVE  fetch' = fetch
  BY <1>7 DEF Create, Refuse, TellCreated, Answered, client
<1>8. ASSUME NEW g \in Gateways, NEW c \in Commands, Post(c, g) \/ Publish(g, c) \/ Record(g, c)
      PROVE  fetch' = fetch
  BY <1>8 DEF Post, Publish, Record, client
<1>9. ASSUME NEW g \in Gateways,
             \/ TellChanged(g) \/ Claim(g) \/ BroadcastRow(g) \/ Finish(g)
             \/ BroadcastAck(g) \/ RestartGateway(g) \/ Fail(g)
      PROVE  fetch' = fetch
  BY <1>9 DEF TellChanged, Claim, BroadcastRow, Finish, BroadcastAck, RestartGateway, Fail, Broadcast, client
<1>10. ASSUME NEW g \in Gateways,
             \/ \E due \in SUBSET Commands : GiveUp(g, due)
             \/ \E change \in Change : IngestAck(g, change)
       PROVE  fetch' = fetch
  BY <1>10 DEF GiveUp, IngestAck, client
<1>11. ASSUME \/ \E i \in DOMAIN events : LeaseExpires(i)
              \/ Receive \/ Drop \/ UNCHANGED liveVars
       PROVE  fetch' = fetch
  BY <1>11 DEF LeaseExpires, Receive, Drop, liveVars, client
<1> HIDE DEF Asked
<1>12. fetch' \in Asked
  BY <1>2, <1>3, <1>4, <1>5, <1>6, <1>7, <1>8, <1>9, <1>10, <1>11, LiveSteps
<1> QED  BY <1>12 DEF Asked

LEMMA LiveTypeKept ==
  ASSUME LiveTypeOK, RowsInv, KnownInv, [LiveNext]_liveVars
  PROVE  LiveTypeOK'
<1>1. ServerType'
  BY ServerKept
<1>2. events' \in Seq(Row) /\ claims' \in Nat
      /\ relay' \in [Gateways -> [batch: SUBSET Claimed, out: BOOLEAN]]
  BY RowsKept DEF RowsInv
<1>3. chances' \in Chances /\ chances'.gateways = chances.gateways
  BY ChancesKept
<1>4. /\ direct' \in Nat
      /\ socket' \in chances.gateways \cup {Null}
      /\ inbound' \in Seq(Envelope)
      /\ missed' \subseteq Commands
  BY WireKept
<1>5. /\ browser' \in Browser
      /\ Len(browser'.processed) <= Cap /\ Len(browser'.shown) <= EventCap
  <2>1. CASE Receive
    BY <2>1, Received
  <2>2. CASE ~Receive
    BY <2>2, BrowserView DEF SameView, LiveTypeOK
  <2> QED  BY <2>1, <2>2
<1>6. fetch' \in [phase: {"idle", "asked", "answered"}, reconnect: BOOLEAN, answer: Answer]
  BY FetchKept
<1> QED  BY <1>1, <1>2, <1>3, <1>4, <1>5, <1>6 DEF LiveTypeOK, ServerType

-----------------------------------------------------------------------------
(* What is told of an end is the end in the database *)

Agrees(change) ==
  change.status \in TERMINAL => command[change.command] = change.status

AgreeInv ==
  /\ \A g \in Gateways : Agrees(ingest[g]) /\ \A m \in notices[g] : Agrees(m)
  /\ \A i \in DOMAIN events : Agrees(events[i].change)
  /\ \A n \in DOMAIN inbound : Agrees(inbound[n].change)
  /\ \A c \in Commands :
       browser.statuses[c] \in TERMINAL => command[c] = browser.statuses[c]

LEMMA ToldByServer ==
  ASSUME LiveTypeOK, KnownInv, [LiveNext]_liveVars, NEW g \in Gateways
  PROVE  /\ \A m \in notices'[g] : m \in notices[g] \/ m.status = command'[m.command]
         /\ \/ ingest'[g] \in {ingest[g], NoChange}
            \/ ingest'[g].status = command'[ingest'[g].command]
<1> DEFINE G == /\ \A m \in notices'[g] : m \in notices[g] \/ m.status = command'[m.command]
                /\ \/ ingest'[g] \in {ingest[g], NoChange}
                   \/ ingest'[g].status = command'[ingest'[g].command]
<1>0. notices \in [Gateways -> SUBSET Change] /\ ingest \in [Gateways -> Change \cup {NoChange}]
  BY DEF LiveTypeOK
<1>1. ASSUME UNCHANGED <<notices, ingest>> PROVE G
  BY <1>1
<1>2. ASSUME NEW h \in Gateways,
             \/ \E due \in SUBSET Commands : GiveUp(h, due)
             \/ \E change \in Change : IngestAck(h, change)
             \/ \E c \in Commands : Publish(h, c) \/ Record(h, c)
      PROVE  G
  <2>1. PICK told \in SUBSET Change :
              /\ notices' = [notices EXCEPT ![h] = told]
              /\ \A m \in told : m \in notices[h] \/ m.status = command'[m.command]
    BY <1>2, ServerChanges
  <2>2. PICK change \in Change \cup {NoChange} :
              /\ ingest' = [ingest EXCEPT ![h] = change]
              /\ change = ingest[h] \/ change.status = command'[change.command]
    BY <1>2, ServerChanges
  <2>3. notices'[g] = IF g = h THEN told ELSE notices[g]
    BY <1>0, <2>1
  <2>4. ingest'[g] = IF g = h THEN change ELSE ingest[g]
    BY <1>0, <2>2
  <2> QED  BY <2>1, <2>2, <2>3, <2>4
<1>3. ASSUME NEW h \in Gateways, TellChanged(h) \/ BroadcastAck(h) \/ Fail(h) \/ RestartGateway(h)
      PROVE  G
  <2>1. \/ notices' = notices
        \/ notices' = [notices EXCEPT ![h] = {}]
        \/ \E change \in notices[h] : notices' = [notices EXCEPT ![h] = @ \ {change}]
    BY <1>3 DEF TellChanged, BroadcastAck, Fail, RestartGateway
  <2>2. ingest' = ingest \/ ingest' = [ingest EXCEPT ![h] = NoChange]
    BY <1>3 DEF TellChanged, BroadcastAck, Fail, RestartGateway
  <2>3. notices'[g] \subseteq notices[g]
    BY <1>0, <2>1
  <2>4. ingest'[g] \in {ingest[g], NoChange}
    BY <1>0, <2>2
  <2> QED  BY <2>3, <2>4
<1>4. ASSUME NEW c \in Commands, Create(c) \/ Refuse(c) \/ TellCreated(c) \/ Answered(c)
      PROVE  UNCHANGED <<notices, ingest>>
  BY <1>4 DEF Create, Refuse, TellCreated, Answered, server
<1>5. ASSUME NEW h \in Gateways, NEW c \in Commands, Post(c, h)
      PROVE  UNCHANGED <<notices, ingest>>
  BY <1>5 DEF Post
<1>6. ASSUME NEW h \in Gateways, Claim(h) \/ BroadcastRow(h) \/ Finish(h) \/ OpenSocket(h)
      PROVE  UNCHANGED <<notices, ingest>>
  BY <1>6 DEF Claim, BroadcastRow, Finish, OpenSocket, server
<1>7. ASSUME \/ \E i \in DOMAIN events : LeaseExpires(i)
             \/ Receive \/ Fetch \/ AnswerFetch \/ Fetched \/ Drop \/ UNCHANGED liveVars
      PROVE  UNCHANGED <<notices, ingest>>
  BY <1>7 DEF LeaseExpires, Receive, Fetch, AnswerFetch, Fetched, Drop, liveVars, server
<1> HIDE DEF G
<1>8. G
  BY <1>1, <1>2, <1>3, <1>4, <1>5, <1>6, <1>7, LiveSteps
<1> QED  BY <1>8 DEF G

LEMMA WrittenRow ==
  ASSUME RowsInv, NEW change \in Change, events' = Written(change), NEW i \in DOMAIN events'
  PROVE  \/ i \in DOMAIN events /\ events'[i].change = events[i].change
         \/ events'[i].change = change
<1>1. NewRow(change) \in Row /\ NewRow(change).change = change
  BY DEF NewRow, Row
<1>2. events' = Append(events, NewRow(change))
  BY DEF Written, NewRow
<1>3. /\ Len(events) \in Nat /\ DOMAIN events = 1..Len(events)
      /\ DOMAIN events' = 1..(Len(events) + 1)
      /\ \A k \in 1..Len(events) : events'[k] = events[k]
      /\ events'[Len(events) + 1] = NewRow(change)
  BY <1>1, <1>2, AppendProperties, LenProperties DEF RowsInv
<1>4. CASE i = Len(events) + 1
  BY <1>1, <1>3, <1>4
<1>5. CASE i # Len(events) + 1
  <2>1. i \in 1..Len(events)
    BY <1>3, <1>5
  <2> QED  BY <1>3, <2>1
<1> QED  BY <1>4, <1>5

LEMMA ToldByRows ==
  ASSUME LiveTypeOK, RowsInv, [LiveNext]_liveVars, NEW i \in DOMAIN events'
  PROVE  \/ i \in DOMAIN events /\ events'[i].change = events[i].change
         \/ events'[i].change.status = "queued"
         \/ \E g \in Gateways : events'[i].change \in notices[g]
<1> DEFINE G == \/ i \in DOMAIN events /\ events'[i].change = events[i].change
                \/ events'[i].change.status = "queued"
                \/ \E g \in Gateways : events'[i].change \in notices[g]
<1>0. \A k \in DOMAIN events : events[k] \in Row
  BY ElementOfSeq, LenProperties DEF RowsInv
<1>1. ASSUME NEW c \in Commands, TellCreated(c) PROVE G
  <2>1. Is(c, "queued") \in Change /\ Is(c, "queued").status = "queued"
    BY DEF Is, Change, Status, COMMAND_STATUS_ORDER, TERMINAL
  <2>2. events' = Written(Is(c, "queued"))
    BY <1>1 DEF TellCreated
  <2> QED  BY <2>1, <2>2, WrittenRow
<1>2. ASSUME NEW g \in Gateways, TellChanged(g) PROVE G
  <2>1. PICK change \in notices[g] : events' = Written(change)
    BY <1>2 DEF TellChanged
  <2>2. change \in Change
    BY DEF LiveTypeOK
  <2> QED  BY <2>1, <2>2, WrittenRow
<1>3. ASSUME NEW g \in Gateways, Claim(g) PROVE G
  <2>1. PICK due : events' = [k \in DOMAIN events |->
           IF k \in due
           THEN [events[k] EXCEPT !.state = "delivering", !.owner = g,
                                  !.token = claims', !.expired = FALSE]
           ELSE events[k]]
    BY <1>3 DEF Claim
  <2>2. i \in DOMAIN events /\ events[i] \in Row
    BY <1>0, <2>1
  <2>3. events'[i].change = events[i].change
    BY <2>1, <2>2 DEF Row
  <2> QED  BY <2>2, <2>3
<1>4. ASSUME NEW g \in Gateways, Finish(g) PROVE G
  <2>1. PICK m : \/ events' = events
                 \/ events' = [events EXCEPT ![m.row] =
                      [@ EXCEPT !.state = "delivered", !.owner = Null, !.token = 0,
                                !.expired = FALSE, !.closedUnder = m.token]]
    BY <1>4 DEF Finish
  <2>2. i \in DOMAIN events /\ events[i] \in Row
    BY <1>0, <2>1
  <2>3. \/ events'[i] = events[i]
        \/ events'[i] = [events[i] EXCEPT !.state = "delivered", !.owner = Null, !.token = 0,
                                          !.expired = FALSE, !.closedUnder = m.token]
    BY <2>1, <2>2
  <2>4. events'[i].change = events[i].change
    BY <2>2, <2>3 DEF Row
  <2> QED  BY <2>2, <2>4
<1>5. ASSUME NEW k \in DOMAIN events, LeaseExpires(k) PROVE G
  BY <1>5, ExpireRows
<1>6. ASSUME events' = events PROVE G
  BY <1>6
<1>7. ASSUME NEW c \in Commands, Create(c) \/ Refuse(c) \/ Answered(c) PROVE events' = events
  BY <1>7 DEF Create, Refuse, Answered, rows
<1>8. ASSUME NEW c \in Commands, NEW g \in Gateways, Post(c, g) \/ Publish(g, c) \/ Record(g, c)
      PROVE  events' = events
  BY <1>8 DEF Post, Publish, Record, rows
<1>9. ASSUME NEW g \in Gateways,
             \/ BroadcastAck(g) \/ OpenSocket(g) \/ RestartGateway(g) \/ Fail(g) \/ BroadcastRow(g)
      PROVE  events' = events
  BY <1>9 DEF BroadcastAck, OpenSocket, RestartGateway, Fail, BroadcastRow, rows
<1>10. ASSUME NEW g \in Gateways,
             \/ \E due \in SUBSET Commands : GiveUp(g, due)
             \/ \E change \in Change : IngestAck(g, change)
       PROVE  events' = events
  BY <1>10 DEF GiveUp, IngestAck, rows
<1>11. ASSUME Receive \/ Fetch \/ AnswerFetch \/ Fetched \/ Drop \/ UNCHANGED liveVars
       PROVE  events' = events
  BY <1>11 DEF Receive, Fetch, AnswerFetch, Fetched, Drop, rows, liveVars
<1> HIDE DEF G
<1>12. G
  BY <1>1, <1>2, <1>3, <1>4, <1>5, <1>6, <1>7, <1>8, <1>9, <1>10, <1>11, LiveSteps
<1> QED  BY <1>12 DEF G

LEMMA ToldBySocket ==
  ASSUME LiveTypeOK, RowsInv, [LiveNext]_liveVars, NEW n \in DOMAIN inbound'
  PROVE  \/ \E k \in DOMAIN inbound : inbound'[n].change = inbound[k].change
         \/ \E i \in DOMAIN events : inbound'[n].change = events[i].change
         \/ \E g \in Gateways : inbound'[n].change = ingest[g]
<1> DEFINE G == \/ \E k \in DOMAIN inbound : inbound'[n].change = inbound[k].change
                \/ \E i \in DOMAIN events : inbound'[n].change = events[i].change
                \/ \E g \in Gateways : inbound'[n].change = ingest[g]
<1>0. inbound \in Seq(Envelope)
  BY DEF LiveTypeOK
<1>1. ASSUME NEW e \in Envelope, inbound' = Append(inbound, e)
      PROVE  \/ \E k \in DOMAIN inbound : inbound'[n].change = inbound[k].change
             \/ inbound'[n].change = e.change
  <2>1. /\ Len(inbound) \in Nat /\ DOMAIN inbound = 1..Len(inbound)
        /\ DOMAIN inbound' = 1..(Len(inbound) + 1)
        /\ \A k \in 1..Len(inbound) : inbound'[k] = inbound[k]
        /\ inbound'[Len(inbound) + 1] = e
    BY <1>0, <1>1, AppendProperties, LenProperties
  <2>2. n \in 1..Len(inbound) \/ n = Len(inbound) + 1
    BY <2>1
  <2> QED  BY <2>1, <2>2
<1>2. ASSUME NEW g \in Gateways, BroadcastRow(g) PROVE G
  <2> DEFINE i == First(relay[g].batch).row
  <2>1. relay[g].batch \in SUBSET Claimed /\ relay[g].batch # {}
    BY <1>2 DEF BroadcastRow, RowsInv
  <2>2. i \in DOMAIN events
    BY <2>1, FirstIsOf DEF RowsInv
  <2>3. Broadcast(g, [id |-> <<"row", i>>, change |-> events[i].change])
    BY <1>2 DEF BroadcastRow
  <2> HIDE DEF i
  <2>4. i \in Nat /\ events[i] \in Row
    BY <2>2, ElementOfSeq, LenProperties DEF RowsInv
  <2>5. [id |-> <<"row", i>>, change |-> events[i].change] \in Envelope
    BY <2>4 DEF Envelope, EventId, Row
  <2>6. \/ inbound' = inbound
        \/ inbound' = Append(inbound, [id |-> <<"row", i>>, change |-> events[i].change])
    BY <2>3, <2>5, BroadcastTyped
  <2> QED  BY <1>1, <2>2, <2>5, <2>6
<1>3. ASSUME NEW g \in Gateways, BroadcastAck(g) PROVE G
  <2>1. /\ Broadcast(g, [id |-> <<"direct", direct>>, change |-> ingest[g]])
        /\ ingest[g] # NoChange
    BY <1>3 DEF BroadcastAck
  <2>2. ingest[g] \in Change /\ direct \in Nat
    BY <2>1 DEF LiveTypeOK
  <2>3. [id |-> <<"direct", direct>>, change |-> ingest[g]] \in Envelope
    BY <2>2 DEF Envelope, EventId
  <2>4. \/ inbound' = inbound
        \/ inbound' = Append(inbound, [id |-> <<"direct", direct>>, change |-> ingest[g]])
    BY <2>1, <2>3, BroadcastTyped
  <2> QED  BY <1>1, <2>3, <2>4
<1>4. ASSUME inbound' = inbound \/ inbound' = <<>> PROVE G
  BY <1>4
<1>5. ASSUME Receive PROVE G
  BY <1>5, Received
<1>6. ASSUME NEW g \in Gateways, RestartGateway(g) PROVE G
  BY <1>4, <1>6 DEF RestartGateway
<1>7. ASSUME Drop PROVE G
  BY <1>4, <1>7 DEF Drop
<1>8. ASSUME NEW c \in Commands, Create(c) \/ Refuse(c) \/ TellCreated(c) \/ Answered(c)
      PROVE  inbound' = inbound
  BY <1>8 DEF Create, Refuse, TellCreated, Answered, client
<1>9. ASSUME NEW g \in Gateways, NEW c \in Commands, Post(c, g) \/ Publish(g, c) \/ Record(g, c)
      PROVE  inbound' = inbound
  BY <1>9 DEF Post, Publish, Record, client
<1>10. ASSUME NEW g \in Gateways, TellChanged(g) \/ Claim(g) \/ Finish(g) \/ Fail(g) \/ OpenSocket(g)
       PROVE  inbound' = inbound
  BY <1>10 DEF TellChanged, Claim, Finish, Fail, OpenSocket, client
<1>11. ASSUME NEW g \in Gateways,
             \/ \E due \in SUBSET Commands : GiveUp(g, due)
             \/ \E change \in Change : IngestAck(g, change)
       PROVE  inbound' = inbound
  BY <1>11 DEF GiveUp, IngestAck, client
<1>12. ASSUME \/ \E i \in DOMAIN events : LeaseExpires(i)
              \/ Fetch \/ AnswerFetch \/ Fetched \/ UNCHANGED liveVars
       PROVE  inbound' = inbound
  BY <1>12 DEF LeaseExpires, Fetch, AnswerFetch, Fetched, liveVars, client
<1> HIDE DEF G
<1>13. G
  BY <1>2, <1>3, <1>4, <1>5, <1>6, <1>7, <1>8, <1>9, <1>10, <1>11, <1>12, LiveSteps
<1> QED  BY <1>13 DEF G

(* The browser keeps an end it has seen, and takes what it is sent.        *)
LEMMA ToldByBrowser ==
  ASSUME LiveTypeOK, [LiveNext]_liveVars, NEW c \in Commands
  PROVE  /\ browser.statuses[c] \in TERMINAL => browser'.statuses[c] = browser.statuses[c]
         /\ \/ browser'.statuses[c] = browser.statuses[c]
            \/ \E n \in DOMAIN inbound : /\ inbound[n].change.command = c
                                         /\ inbound[n].change.status = browser'.statuses[c]
<1>1. CASE ~Receive
  BY <1>1, BrowserView DEF SameView
<1>2. CASE Receive
  <2>1. /\ 1 \in DOMAIN inbound /\ inbound[1] \in Envelope
        /\ browser' = Applied(browser, inbound[1])
    BY <1>2, Received
  <2>2. PICK e \in Envelope : e = inbound[1]
    BY <2>1
  <2>3. CASE Contains(browser.processed, e.id)
    BY <2>1, <2>2, <2>3 DEF Applied
  <2>4. CASE ~Contains(browser.processed, e.id)
    <3> DEFINE d == e.change.command
    <3>0. /\ browser' = Applied(browser, e) /\ browser \in Browser
          /\ Len(browser.processed) <= Cap /\ Len(browser.shown) <= EventCap
      BY <2>1, <2>2 DEF LiveTypeOK
    <3>1. PICK after : /\ after = reduceCommandStatus(browser.statuses[d], e.change.status)
                       /\ browser'.statuses = [browser.statuses EXCEPT ![d] = after]
      BY <2>4, <3>0, AppliedBrowser
    <3>2. /\ d \in Commands /\ e.change.status \in Status \ {"unknown"}
          /\ browser.statuses \in [Commands -> Status]
      BY DEF Envelope, Change, LiveTypeOK, Browser
    <3>3. /\ browser.statuses[d] \in TERMINAL => after = browser.statuses[d]
          /\ after \in {browser.statuses[d], e.change.status}
      BY <3>1, <3>2, ReducedStatus
    <3>4. browser'.statuses[c] = IF c = d THEN after ELSE browser.statuses[c]
      BY <3>1, <3>2
    <3> QED  BY <2>1, <2>2, <3>3, <3>4
  <2> QED  BY <2>3, <2>4
<1> QED  BY <1>1, <1>2

LEMMA AgreeKept ==
  ASSUME LiveTypeOK, RowsInv, KnownInv, AgreeInv, [LiveNext]_liveVars
  PROVE  AgreeInv'
<1>0. \A d \in Commands : command[d] \in TERMINAL => command'[d] = command[d]
  BY ServerKept
<1>1. \A m \in Change \cup {NoChange} : Agrees(m) => Agrees(m)'
  <2>1. \A m \in Change : m.command \in Commands
    BY DEF Change
  <2>2. NoChange.status \notin TERMINAL
    BY DEF NoChange, TERMINAL
  <2> QED  BY <1>0, <2>1, <2>2 DEF Agrees
<1>2. \A m : m.status = command'[m.command] => Agrees(m)'
  BY DEF Agrees
<1>3. /\ \A g \in Gateways : ingest[g] \in Change \cup {NoChange} /\ notices[g] \subseteq Change
      /\ \A i \in DOMAIN events : events[i].change \in Change
      /\ \A n \in DOMAIN inbound : inbound[n].change \in Change
  <2>1. \A i \in DOMAIN events : events[i] \in Row
    BY ElementOfSeq, LenProperties DEF RowsInv
  <2>2. \A n \in DOMAIN inbound : inbound[n] \in Envelope
    BY ElementOfSeq, LenProperties DEF LiveTypeOK
  <2> QED  BY <2>1, <2>2 DEF LiveTypeOK, Row, Envelope
<1>4. \A g \in Gateways : Agrees(ingest[g])' /\ \A m \in notices'[g] : Agrees(m)'
  <2> TAKE g \in Gateways
  <2>1. ASSUME NEW m \in notices'[g] PROVE Agrees(m)'
    BY <1>1, <1>2, <1>3, ToldByServer DEF AgreeInv
  <2>2. Agrees(ingest[g])'
    <3>1. PICK m : m = ingest'[g]
      OBVIOUS
    <3>2. Agrees(NoChange)'
      BY DEF Agrees, NoChange, TERMINAL
    <3>3. m \in {ingest[g], NoChange} \/ m.status = command'[m.command]
      BY <3>1, ToldByServer
    <3>4. Agrees(m)'
      <4>1. CASE m = ingest[g]
        BY <1>1, <1>3, <4>1 DEF AgreeInv
      <4>2. CASE m = NoChange
        BY <3>2, <4>2
      <4>3. CASE m.status = command'[m.command]
        BY <1>2, <4>3
      <4> QED  BY <3>3, <4>1, <4>2, <4>3
    <3> QED  BY <3>1, <3>4 DEF Agrees
  <2> QED  BY <2>1, <2>2
<1>5. \A i \in DOMAIN events' : Agrees(events[i].change)'
  <2> TAKE i \in DOMAIN events'
  <2>1. PICK m : m = events'[i].change
    OBVIOUS
  <2>2. \/ i \in DOMAIN events /\ m = events[i].change
        \/ m.status = "queued"
        \/ \E g \in Gateways : m \in notices[g]
    BY <2>1, ToldByRows
  <2>3. m.status = "queued" => Agrees(m)'
    BY DEF Agrees, TERMINAL
  <2>4. Agrees(m)'
    BY <1>1, <1>3, <2>2, <2>3 DEF AgreeInv
  <2> QED  BY <2>1, <2>4 DEF Agrees
<1>6. \A n \in DOMAIN inbound' : Agrees(inbound[n].change)'
  <2> TAKE n \in DOMAIN inbound'
  <2>1. PICK m : m = inbound'[n].change
    OBVIOUS
  <2>2. \/ \E k \in DOMAIN inbound : m = inbound[k].change
        \/ \E i \in DOMAIN events : m = events[i].change
        \/ \E g \in Gateways : m = ingest[g]
    BY <2>1, ToldBySocket
  <2>3. Agrees(m)'
    BY <1>1, <1>3, <2>2 DEF AgreeInv
  <2> QED  BY <2>1, <2>3 DEF Agrees
<1>7. ASSUME NEW c \in Commands, browser'.statuses[c] \in TERMINAL
      PROVE  command'[c] = browser'.statuses[c]
  <2>1. CASE browser'.statuses[c] = browser.statuses[c]
    BY <1>0, <1>7, <2>1 DEF AgreeInv
  <2>2. ASSUME NEW n \in DOMAIN inbound, inbound[n].change.command = c,
               inbound[n].change.status = browser'.statuses[c]
        PROVE  command'[c] = browser'.statuses[c]
    BY <1>0, <1>7, <2>2 DEF AgreeInv, Agrees
  <2> QED  BY <2>1, <2>2, ToldByBrowser
<1> QED  BY <1>4, <1>5, <1>6, <1>7 DEF AgreeInv

-----------------------------------------------------------------------------
(* What the page shows *)

(* The ids kept are different, and those of the events shown are the last  *)
(* of them.                                                                *)
FeedInv ==
  /\ \A m, n \in DOMAIN browser.processed :
       m # n => browser.processed[m] # browser.processed[n]
  /\ Len(browser.shown) <= Len(browser.processed)
  /\ \A k \in DOMAIN browser.shown :
       browser.shown[k] = browser.processed[Len(browser.processed) + 1 - k]

LEMMA FeedKept ==
  ASSUME LiveTypeOK, FeedInv, [LiveNext]_liveVars
  PROVE  FeedInv'
<1>1. CASE ~Receive
  <2>1. browser'.processed = browser.processed /\ browser'.shown = browser.shown
    BY <1>1, BrowserView DEF SameView
  <2> QED  BY <2>1 DEF FeedInv
<1>2. CASE Receive
  <2>1. PICK e \in Envelope : browser' = Applied(browser, e)
    BY <1>2, Received
  <2>2. CASE Contains(browser.processed, e.id)
    BY <2>1, <2>2 DEF Applied, FeedInv
  <2>3. CASE ~Contains(browser.processed, e.id)
    <3>1. /\ browser \in Browser
          /\ Len(browser.processed) <= Cap /\ Len(browser.shown) <= EventCap
      BY DEF LiveTypeOK
    <3>2. PICK ids : ids = browser.processed
      OBVIOUS
    <3>3. PICK feed : feed = browser.shown
      OBVIOUS
    <3>4. /\ ids \in Seq(EventId) /\ feed \in Seq(EventId) /\ e.id \in EventId
          /\ Len(ids) <= Cap /\ Len(feed) <= EventCap
      BY <3>1, <3>2, <3>3 DEF Browser, Envelope
    <3>5. PICK kept : kept = Remembered(ids, e.id)
      OBVIOUS
    <3>6. PICK told : told = Shown(feed, e.id)
      OBVIOUS
    <3>7. browser'.processed = kept /\ browser'.shown = told
      BY <2>1, <2>3, <3>1, <3>2, <3>3, <3>5, <3>6, AppliedBrowser
    <3>8. PICK a \in Nat : a = Len(ids) /\ DOMAIN ids = 1..a
      BY <3>4, LenProperties
    <3>9. PICK b \in Nat : b = Len(feed) /\ DOMAIN feed = 1..b
      BY <3>4, LenProperties
    <3>10. /\ kept \in Seq(EventId) /\ Len(kept) \in 1..Cap
           /\ kept[Len(kept)] = e.id
           /\ Len(kept) = IF Len(ids) < Cap THEN Len(ids) + 1 ELSE Cap
           /\ \A k \in 1..(Len(kept) - 1) : kept[k] = ids[Len(ids) + 1 - Len(kept) + k]
      BY <3>4, <3>5, RememberedIds
    <3>11. /\ told \in Seq(EventId)
           /\ Len(told) = IF Len(feed) < EventCap THEN Len(feed) + 1 ELSE EventCap
           /\ told[1] = e.id
           /\ \A k \in 2..Len(told) : told[k] = feed[k - 1]
      BY <3>4, <3>6, ShownIds
    <3>12. PICK x \in Nat : x = Len(kept) /\ DOMAIN kept = 1..x
      BY <3>10, LenProperties
    <3>13. PICK y \in Nat : y = Len(told) /\ DOMAIN told = 1..y
      BY <3>11, LenProperties
    <3>14. Cap \in Nat \ {0} /\ EventCap \in 1..Cap
      BY LiveAssumption
    <3>15. /\ x \in 1..Cap /\ kept[x] = e.id /\ x = IF a < Cap THEN a + 1 ELSE Cap
           /\ \A k \in 1..(x - 1) : kept[k] = ids[a + 1 - x + k]
           /\ y = IF b < EventCap THEN b + 1 ELSE EventCap
           /\ told[1] = e.id /\ \A k \in 2..y : told[k] = feed[k - 1]
           /\ a <= Cap /\ b <= EventCap
      BY <3>4, <3>8, <3>9, <3>10, <3>11, <3>12, <3>13
    <3>16. /\ \A m, n \in 1..a : m # n => ids[m] # ids[n]
           /\ b <= a
           /\ \A k \in 1..b : feed[k] = ids[a + 1 - k]
      BY <3>2, <3>3, <3>8, <3>9 DEF FeedInv
    <3>17. \A m \in 1..a : ids[m] # e.id
      BY <2>3, <3>2, <3>8 DEF Contains
    <3>18. \A k \in 1..(x - 1) : a + 1 - x + k \in 1..a
      BY <3>14, <3>15
    <3>19. ASSUME NEW m \in 1..x, NEW n \in 1..x, m # n PROVE kept[m] # kept[n]
      <4>1. CASE m = x
        <5>1. n \in 1..(x - 1)
          BY <3>19, <4>1
        <5> QED  BY <3>15, <3>17, <3>18, <4>1, <5>1
      <4>2. CASE n = x
        <5>1. m \in 1..(x - 1)
          BY <3>19, <4>2
        <5> QED  BY <3>15, <3>17, <3>18, <4>2, <5>1
      <4>3. CASE m # x /\ n # x
        <5>1. m \in 1..(x - 1) /\ n \in 1..(x - 1)
          BY <4>3
        <5>2. PICK p \in 1..a, q \in 1..a : p = a + 1 - x + m /\ q = a + 1 - x + n
          BY <3>18, <5>1
        <5>3. p # q
          BY <3>19, <5>2
        <5>4. kept[m] = ids[p] /\ kept[n] = ids[q]
          BY <3>15, <5>1, <5>2
        <5> QED  BY <3>16, <5>2, <5>3, <5>4
      <4> QED  BY <4>1, <4>2, <4>3
    <3>20. y <= x
      BY <3>14, <3>15, <3>16
    <3>21. ASSUME NEW k \in 1..y PROVE told[k] = kept[x + 1 - k]
      <4>1. CASE k = 1
        <5>1. x + 1 - k = x
          BY <4>1
        <5> QED  BY <3>15, <4>1, <5>1
      <4>2. CASE k # 1
        <5>1. k \in 2..y /\ k - 1 \in 1..b
          BY <3>14, <3>15, <4>2
        <5>2. told[k] = feed[k - 1] /\ feed[k - 1] = ids[a + 1 - (k - 1)]
          BY <3>15, <3>16, <5>1
        <5>3. x + 1 - k \in 1..(x - 1)
          BY <3>20, <5>1
        <5>4. kept[x + 1 - k] = ids[a + 1 - x + (x + 1 - k)]
          BY <3>15, <5>3
        <5>5. a + 1 - x + (x + 1 - k) = a + 1 - (k - 1)
          BY <5>1
        <5> QED  BY <5>2, <5>4, <5>5
      <4> QED  BY <4>1, <4>2
    <3> QED  BY <3>7, <3>12, <3>13, <3>19, <3>20, <3>21 DEF FeedInv
  <2> QED  BY <2>2, <2>3
<1> QED  BY <1>1, <1>2

LEMMA PendingKept ==
  ASSUME LiveTypeOK, PendingIsOpen, [LiveNext]_liveVars
  PROVE  PendingIsOpen'
<1>1. CASE ~Receive
  <2>1. /\ browser'.statuses = browser.statuses
        /\ browser'.pending \subseteq browser.pending \cup {c \in Commands : IsPending(c)}
    BY <1>1, BrowserView DEF SameView
  <2> QED  BY <2>1 DEF PendingIsOpen, IsPending
<1>2. CASE Receive
  <2>1. PICK e \in Envelope : browser' = Applied(browser, e)
    BY <1>2, Received
  <2>2. CASE Contains(browser.processed, e.id)
    BY <2>1, <2>2 DEF Applied, PendingIsOpen
  <2>3. CASE ~Contains(browser.processed, e.id)
    <3> DEFINE c == e.change.command
    <3>1. /\ browser \in Browser
          /\ Len(browser.processed) <= Cap /\ Len(browser.shown) <= EventCap
      BY DEF LiveTypeOK
    <3>2. PICK after : /\ browser'.statuses = [browser.statuses EXCEPT ![c] = after]
                       /\ browser'.pending = Cleared(browser.pending, c, browser.statuses[c], after)
      BY <2>1, <2>3, <3>1, AppliedBrowser
    <3>3. browser.statuses \in [Commands -> Status] /\ browser.pending \subseteq Commands
      BY <3>1 DEF Browser
    <3>4. \A d \in Commands : browser'.statuses[d] = IF d = c THEN after ELSE browser.statuses[d]
      BY <3>2, <3>3
    <3>5. /\ browser'.pending \subseteq browser.pending
          /\ after \in TERMINAL => c \notin browser'.pending
      BY <3>2 DEF Cleared
    <3> QED  BY <3>3, <3>4, <3>5 DEF PendingIsOpen
  <2> QED  BY <2>2, <2>3
<1> QED  BY <1>1, <1>2

-----------------------------------------------------------------------------
(* The theorems *)

(* What every reachable state keeps; each part needs the ones before it.   *)
LiveInv == LiveTypeOK /\ RowsInv /\ KnownInv /\ AgreeInv /\ FeedInv /\ PendingIsOpen

LEMMA LiveStarts ==
  ASSUME LiveInit
  PROVE  LiveInv
<1>1. chances \in Chances /\ Cap \in Nat /\ EventCap \in Nat
  BY LiveAssumption DEF LiveInit
<1>2. /\ events = <<>> /\ inbound = <<>> /\ events \in Seq(Row) /\ inbound \in Seq(Envelope)
      /\ DOMAIN events = {} /\ DOMAIN inbound = {}
  BY DEF LiveInit
<1>3. /\ "unknown" \in Status /\ "unknown" \notin TERMINAL
      /\ NoChange.status = "unknown"
  BY DEF Status, COMMAND_STATUS_ORDER, TERMINAL, NoChange
<1>4. /\ browser.processed = <<>> /\ browser.shown = <<>>
      /\ Len(browser.processed) = 0 /\ Len(browser.shown) = 0
      /\ browser.statuses = [c \in Commands |-> "unknown"]
      /\ browser.pending = {}
      /\ browser \in Browser
  BY <1>3 DEF LiveInit, Browser
<1>5. relay \in [Gateways -> [batch: SUBSET Claimed, out: BOOLEAN]]
      /\ \A g \in Gateways : relay[g].batch = {} /\ ~relay[g].out
  BY DEF LiveInit, NoWork
<1>6. fetch \in [phase: {"idle", "asked", "answered"}, reconnect: BOOLEAN, answer: Answer]
  BY DEF LiveInit, NoFetch, Answer
<1>7. request \in [Commands -> [phase: Phase, at: Gateways \cup {Null}]]
  BY DEF LiveInit, Phase
<1>8. LiveTypeOK
  BY <1>1, <1>2, <1>3, <1>4, <1>5, <1>6, <1>7 DEF LiveTypeOK, LiveInit
<1>9. RowsInv
  BY <1>2, <1>5 DEF RowsInv, LiveInit
<1>10. KnownInv
  BY DEF KnownInv, LiveInit
<1>11. AgreeInv
  BY <1>2, <1>3, <1>4 DEF AgreeInv, Agrees, LiveInit
<1>12. FeedInv
  BY <1>4 DEF FeedInv
<1>13. PendingIsOpen
  BY <1>4 DEF PendingIsOpen
<1> QED  BY <1>8, <1>9, <1>10, <1>11, <1>12, <1>13 DEF LiveInv

LEMMA LiveInvHolds == LiveSpec => []LiveInv
<1>1. LiveInit => LiveInv
  BY LiveStarts
<1>2. LiveInv /\ [LiveNext]_liveVars => LiveInv'
  BY LiveTypeKept, RowsKept, ServerKept, AgreeKept, FeedKept, PendingKept DEF LiveInv
<1> QED  BY <1>1, <1>2, PTL DEF LiveSpec

(* Rows, envelopes, notices and the page keep to their types; among them   *)
(* the bounds of the ids kept and of the events shown.                     *)
THEOREM LiveTypeCorrect == LiveSpec => []LiveTypeOK
<1>1. LiveInv => LiveTypeOK
  BY DEF LiveInv
<1> QED  BY <1>1, LiveInvHolds, PTL

(* However rows, ACKs and reconnections overtake each other, the browser   *)
(* keeps the end it has seen, and the database has the same                *)
(* (reduceCommandStatus).                                                  *)
THEOREM SeenEndsStand == LiveSpec => SeenEndStands
<1>1. LiveInv /\ [LiveNext]_liveVars
        => [\A c \in Commands :
              browser.statuses[c] \in TERMINAL => browser'.statuses[c] = command'[c]]_liveVars
  <2> SUFFICES ASSUME LiveInv, [LiveNext]_liveVars, NEW c \in Commands,
                      browser.statuses[c] \in TERMINAL
               PROVE  browser'.statuses[c] = command'[c]
    OBVIOUS
  <2>1. browser'.statuses[c] = browser.statuses[c]
    BY ToldByBrowser DEF LiveInv
  <2>2. command[c] = browser.statuses[c]
    BY DEF LiveInv, AgreeInv
  <2>3. command'[c] = command[c]
    BY <2>2, ServerKept DEF LiveInv
  <2> QED  BY <2>1, <2>2, <2>3
<1> QED  BY <1>1, LiveInvHolds, PTL DEF LiveSpec, SeenEndStands

(* A command is not pending on the page once its end has been seen, even   *)
(* if its POST is answered after the event (use-device-commands.ts).       *)
THEOREM PendingStaysOpen == LiveSpec => []PendingIsOpen
<1>1. LiveInv => PendingIsOpen
  BY DEF LiveInv
<1> QED  BY <1>1, LiveInvHolds, PTL

(* The feed shows no event twice, since it shows the last of the ids kept. *)
THEOREM FeedIsOfOneEach == LiveSpec => []FeedShowsOnce
<1>1. LiveInv => FeedShowsOnce
  <2> SUFFICES ASSUME LiveInv, NEW m \in DOMAIN browser.shown, NEW n \in DOMAIN browser.shown,
                      m # n
               PROVE  browser.shown[m] # browser.shown[n]
    BY DEF FeedShowsOnce
  <2>1. browser.shown \in Seq(EventId) /\ browser.processed \in Seq(EventId)
    BY DEF LiveInv, LiveTypeOK, Browser
  <2>2. PICK a \in Nat : a = Len(browser.processed) /\ DOMAIN browser.processed = 1..a
    BY <2>1, LenProperties
  <2>3. PICK b \in Nat : b = Len(browser.shown) /\ DOMAIN browser.shown = 1..b
    BY <2>1, LenProperties
  <2>4. b <= a
    BY <2>2, <2>3 DEF LiveInv, FeedInv
  <2>5. a + 1 - m \in 1..a /\ a + 1 - n \in 1..a /\ a + 1 - m # a + 1 - n
    BY <2>3, <2>4
  <2>6. /\ browser.shown[m] = browser.processed[a + 1 - m]
        /\ browser.shown[n] = browser.processed[a + 1 - n]
    BY <2>2 DEF LiveInv, FeedInv
  <2> QED  BY <2>2, <2>5, <2>6 DEF LiveInv, FeedInv
<1> QED  BY <1>1, LiveInvHolds, PTL

(* The table of realtime events is leased work: however relays stall, fail *)
(* and restart, only the last claim of a row closes it.                    *)
THEOREM RowsAreLeasedWork == LiveSpec => ImplementsLeasedWork
<1>1. LiveInit => Work!Init
  <2> SUFFICES ASSUME LiveInit PROVE Work!Init
    OBVIOUS
  <2>1. events = <<>> /\ DOMAIN events = {} /\ claims = 0
    BY DEF LiveInit
  <2>2. \A i \in 1..MaxRows : LeasedRow(i) = [state |-> "absent", holder |-> 0, result |-> 0]
    BY <2>1 DEF LeasedRow
  <2>3. LeasedRows = [i \in 1..MaxRows |-> [state |-> "absent", holder |-> 0, result |-> 0]]
    BY <2>2 DEF LeasedRows
  <2> QED  BY <2>1, <2>3 DEF Work!Init
<1>2. LiveInv /\ [LiveNext]_liveVars => [Work!Next]_<<LeasedRows, claims + 1>>
  BY StepIsLeased DEF LiveInv
<1> QED  BY <1>1, <1>2, LiveInvHolds, PTL DEF LiveSpec, ImplementsLeasedWork, Work!Spec
=============================================================================
