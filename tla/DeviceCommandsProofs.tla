------------------------- MODULE DeviceCommandsProofs -------------------------
(***************************************************************************)
(* Proofs about DeviceCommands: its type invariant, that the actuator      *)
(* task's answer follows "accepted", and that a command is executed once   *)
(* and keeps one terminal answer, for every number of commands, size of    *)
(* the ring and of the queue, and any deliveries and restarts.             *)
(***************************************************************************)
EXTENDS DeviceCommands, SequenceTheorems, TLAPS

(* A task at work has a command, and records a terminal status.            *)
HandInv ==
  \A t \in Tasks :
    /\ task[t].pc # "idle" => task[t].command \in Commands
    /\ task[t].pc \in Recording => task[t].status \in AckStatus

(* The handler is about to publish "accepted" for the command.             *)
Pending(c) ==
  /\ task["mqtt"].pc = "publish"
  /\ task["mqtt"].status = "accepted"
  /\ task["mqtt"].command = c

Accepted(c) == "accepted" \in answers[c] \/ c \in lost

(* A command in the queue or with the actuator task has been answered      *)
(* "accepted", unless that answer was lost or is about to be published by  *)
(* the handler, which keeps the actuator task from publishing until then.  *)
AcceptedInv ==
  /\ \A c \in Range(queue) : Accepted(c) \/ Pending(c)
  /\ task["actuator"].pc # "idle" =>
       LET c == task["actuator"].command IN Accepted(c) \/ Pending(c)
  /\ task["actuator"].pc \in Recording => Accepted(task["actuator"].command)

-----------------------------------------------------------------------------
(* Operators *)

(* The slot after a slot is a slot.                                        *)
LEMMA AfterIsSlot == ASSUME NEW slot \in Slots PROVE After(slot) \in Slots
  BY ConstantsAssumption DEF After, Slots

(* The history keeps a sequence of at most CacheSize commands.             *)
LEMMA LatestIsBounded ==
  ASSUME NEW commands \in Seq(Commands), NEW c \in Commands,
         Len(commands) <= CacheSize
  PROVE  /\ Latest(Append(commands, c)) \in Seq(Commands)
         /\ Len(Latest(Append(commands, c))) <= CacheSize
<1>1. /\ Append(commands, c) \in Seq(Commands)
      /\ Len(Append(commands, c)) = Len(commands) + 1
      /\ Append(commands, c) # <<>>
  OBVIOUS
<1>2. /\ Tail(Append(commands, c)) \in Seq(Commands)
      /\ Len(Tail(Append(commands, c))) = Len(commands)
  BY <1>1
<1> QED  BY <1>1, <1>2, ConstantsAssumption DEF Latest

(* What a queue holds after one more command, and after its first is gone. *)
LEMMA QueueRange ==
  ASSUME NEW commands \in Seq(Commands)
  PROVE  /\ \A c : Range(Append(commands, c)) = Range(commands) \cup {c}
         /\ commands # <<>> =>
              /\ Head(commands) \in Range(commands)
              /\ Range(Tail(commands)) \subseteq Range(commands)
PROOF
<1>1. ASSUME NEW c PROVE Range(Append(commands, c)) = Range(commands) \cup {c}
  <2>1. DOMAIN commands = 1 .. Len(commands)
    OBVIOUS
  <2>2. /\ DOMAIN Append(commands, c) = 1 .. Len(commands) + 1
        /\ \A i \in 1 .. Len(commands) : Append(commands, c)[i] = commands[i]
        /\ Append(commands, c)[Len(commands) + 1] = c
    OBVIOUS
  <2> QED  BY <2>1, <2>2 DEF Range
<1>2. ASSUME commands # <<>>
      PROVE  /\ Head(commands) \in Range(commands)
             /\ Range(Tail(commands)) \subseteq Range(commands)
  <2>1. DOMAIN commands = 1 .. Len(commands) /\ Len(commands) > 0
    BY <1>2
  <2>2. /\ DOMAIN Tail(commands) = 1 .. Len(commands) - 1
        /\ \A i \in 1 .. Len(commands) - 1 : Tail(commands)[i] = commands[i + 1]
    BY <1>2
  <2>3. Head(commands) = commands[1]
    BY <1>2
  <2> QED  BY <2>1, <2>2, <2>3 DEF Range
<1> QED  BY <1>1, <1>2

-----------------------------------------------------------------------------
(* Type correctness *)

(* A task record with another program counter, command or status.          *)
LEMMA TaskUpdates ==
  ASSUME TypeOK, NEW t \in Tasks, NEW new \in Task
  PROVE  /\ [task EXCEPT ![t] = new] \in [Tasks -> Task]
         /\ [task EXCEPT ![t] = new][t] = new
         /\ \A u \in Tasks \ {t} : [task EXCEPT ![t] = new][u] = task[u]
  BY DEF TypeOK

(* An idle task is a task.                                                 *)
LEMMA IdleTyped == IdleTask \in Task
  BY ConstantsAssumption DEF IdleTask, Task, AckStatus, Slots

(* A step that gives a task a new record keeps the task part of TypeOK and *)
(* HandInv if the record has a command and a status to record.             *)
LEMMA HandUpdates ==
  ASSUME TypeOK, HandInv, NEW t \in Tasks, NEW new \in Task,
         task' = [task EXCEPT ![t] = new],
         new.pc # "idle" => new.command \in Commands,
         new.pc \in Recording => new.status \in AckStatus
  PROVE  task' \in [Tasks -> Task] /\ HandInv'
<1>1. task' \in [Tasks -> Task] /\ task'[t] = new
  BY TaskUpdates
<1>2. \A u \in Tasks \ {t} : task'[u] = task[u]
  BY TaskUpdates
<1> QED  BY <1>1, <1>2 DEF HandInv

(* Every step keeps the tasks typed and their hands full.                  *)
LEMMA HandsTyped ==
  ASSUME TypeOK, HandInv, [Next]_vars
  PROVE  task' \in [Tasks -> Task] /\ HandInv'
<1> USE DEF TypeOK
<1>1. ASSUME NEW c \in Commands, Deliver(c)
      PROVE  task' \in [Tasks -> Task] /\ HandInv'
  <2>1. ASSUME NEW status \in AckStatus,
               task' = [task EXCEPT !["mqtt"] = Reply("mqtt", c, status)]
        PROVE  task' \in [Tasks -> Task] /\ HandInv'
    <3>1. /\ Reply("mqtt", c, status) \in Task
          /\ Reply("mqtt", c, status).command = c
          /\ Reply("mqtt", c, status).status = status
      BY DEF Reply, Task, Tasks
    <3> HIDE DEF TypeOK
    <3> QED  BY <2>1, <3>1, HandUpdates DEF Tasks
  <2>2. CASE c \in refused /\ task' = [task EXCEPT !["mqtt"] = Reply("mqtt", c, "refused")]
    BY <2>1, <2>2 DEF AckStatus
  <2>3. ASSUME NEW s \in Known(c), task' = [task EXCEPT !["mqtt"] = Reply("mqtt", c, ring[s].status)]
        PROVE  task' \in [Tasks -> Task] /\ HandInv'
    <3>1. ring[s].status \in AckStatus
      BY DEF Known, RecentAck
    <3> QED  BY <2>1, <2>3, <3>1
  <2>4. CASE task' = [task EXCEPT !["mqtt"].pc = "enqueue", !["mqtt"].command = c]
    <3> DEFINE new == [task["mqtt"] EXCEPT !.pc = "enqueue", !.command = c]
    <3>1. new \in Task /\ new.pc = "enqueue" /\ new.command = c
      BY DEF Task, Tasks
    <3>2. task' = [task EXCEPT !["mqtt"] = new]
      BY <2>4 DEF Tasks
    <3> HIDE DEF new, TypeOK
    <3> QED  BY <3>1, <3>2, HandUpdates DEF Tasks, Recording
  <2> QED  BY <1>1, <2>2, <2>3, <2>4 DEF Deliver
<1>2. ASSUME Enqueue PROVE task' \in [Tasks -> Task] /\ HandInv'
  <2> DEFINE new(status) == Reply("mqtt", task["mqtt"].command, status)
  <2>1. task["mqtt"].command \in Commands
    BY <1>2 DEF Enqueue, HandInv, Tasks
  <2>2. ASSUME NEW status \in {"accepted", "rejected"}
        PROVE  /\ new(status) \in Task /\ new(status).pc = "publish"
               /\ new(status).command \in Commands
    <3>1. PICK old \in Task, c \in Commands : old = task["mqtt"] /\ c = task["mqtt"].command
      BY <2>1 DEF Tasks
    <3>2. new(status) = [old EXCEPT !.pc = "publish", !.command = c, !.status = status]
      BY <3>1 DEF Reply
    <3> HIDE DEF new, TypeOK, HandInv
    <3> QED  BY <3>2 DEF Task, AckStatus, Outcomes
  <2>3. PICK status \in {"accepted", "rejected"} : task' = [task EXCEPT !["mqtt"] = new(status)]
    BY <1>2 DEF Enqueue
  <2> HIDE DEF new, TypeOK
  <2> QED  BY <2>2, <2>3, HandUpdates DEF Tasks, Recording
<1>3. ASSUME Receive PROVE task' \in [Tasks -> Task] /\ HandInv'
  <2> DEFINE new == [task["actuator"] EXCEPT !.pc = "apply", !.command = Head(queue)]
  <2>1. Head(queue) \in Commands
    BY <1>3 DEF Receive
  <2>2. new \in Task /\ new.pc = "apply" /\ new.command \in Commands
    BY <2>1 DEF Task, Tasks
  <2>3. task' = [task EXCEPT !["actuator"] = new]
    BY <1>3 DEF Receive, Tasks
  <2> HIDE DEF new, TypeOK
  <2> QED  BY <2>2, <2>3, HandUpdates DEF Tasks, Recording
<1>4. ASSUME Apply PROVE task' \in [Tasks -> Task] /\ HandInv'
  <2>1. PICK outcome \in Outcomes :
          task' = [task EXCEPT !["actuator"] = Reply("actuator", @.command, outcome)]
    BY <1>4 DEF Apply
  <2> DEFINE new == Reply("actuator", task["actuator"].command, outcome)
  <2>2. task["actuator"].command \in Commands
    BY <1>4 DEF Apply, HandInv, Tasks
  <2>3. new \in Task /\ new.pc = "publish" /\ new.command \in Commands
    BY <2>2 DEF Reply, Task, Tasks, AckStatus
  <2>4. task' = [task EXCEPT !["actuator"] = new]
    BY <2>1 DEF Tasks
  <2> HIDE DEF new, TypeOK
  <2> QED  BY <2>3, <2>4, HandUpdates DEF Tasks, Recording
<1>5. ASSUME NEW t \in Tasks, Answer(t) PROVE task' \in [Tasks -> Task] /\ HandInv'
  <2> DEFINE at(pc) == [task[t] EXCEPT !.pc = pc]
             fill == [task[t] EXCEPT !.pc = "fill", !.slot = index]
             saveRing == [task[t] EXCEPT !.pc = "saveRing", !.slot = 0]
  <2>1. task[t].pc # "idle" /\ task[t].command \in Commands
    BY <1>5 DEF Answer, Publish, Record, Fill, Advance, SaveRing, SaveIndex, HandInv
  <2>2. CASE /\ task[t].pc = "publish" /\ Recorded(task[t].status)
             /\ task' = [task EXCEPT ![t] = at("record")]
    <3>1. at("record") \in Task /\ at("record").command \in Commands
          /\ at("record").status \in AckStatus
      BY <2>1, <2>2 DEF Task, Recording, Recorded
    <3> HIDE DEF at, TypeOK
    <3> QED  BY <2>2, <3>1, HandUpdates
  <2>3. CASE task' = [task EXCEPT ![t] = IdleTask]
    <3>1. IdleTask.pc = "idle"
      BY DEF IdleTask
    <3> HIDE DEF TypeOK
    <3> QED  BY <2>3, <3>1, IdleTyped, HandUpdates DEF Recording
  <2>4. CASE task[t].pc \in Recording
    <3>1. task[t].status \in AckStatus
      BY <2>4 DEF HandInv
    <3>2. CASE Record(t)
      <4>1. fill \in Task /\ fill.command \in Commands /\ fill.status \in AckStatus
        BY <2>1, <3>1 DEF Task, Recording
      <4>2. task' = [task EXCEPT ![t] = fill]
        BY <3>2 DEF Record
      <4> HIDE DEF fill, TypeOK
      <4> QED  BY <4>1, <4>2, HandUpdates
    <3>3. CASE Fill(t)
      <4>1. at("advance") \in Task /\ at("advance").command \in Commands
            /\ at("advance").status \in AckStatus
        BY <2>1, <3>1 DEF Task, Recording
      <4>2. task' = [task EXCEPT ![t] = at("advance")]
        BY <3>3 DEF Fill
      <4> HIDE DEF at, TypeOK
      <4> QED  BY <4>1, <4>2, HandUpdates
    <3>4. CASE Advance(t)
      <4>1. saveRing \in Task /\ saveRing.command \in Commands
            /\ saveRing.status \in AckStatus
        <5>1. 0 \in Slots
          BY ConstantsAssumption DEF Slots
        <5> QED  BY <2>1, <3>1, <5>1 DEF Task, Recording
      <4>2. task' = [task EXCEPT ![t] = saveRing]
        BY <3>4 DEF Advance
      <4> HIDE DEF saveRing, TypeOK
      <4> QED  BY <4>1, <4>2, HandUpdates
    <3>5. CASE SaveRing(t)
      <4>1. at("saveIndex") \in Task /\ at("saveIndex").command \in Commands
            /\ at("saveIndex").status \in AckStatus
        BY <2>1, <3>1 DEF Task, Recording
      <4>2. task' = [task EXCEPT ![t] = at("saveIndex")]
        BY <3>5 DEF SaveRing
      <4> HIDE DEF at, TypeOK
      <4> QED  BY <4>1, <4>2, HandUpdates
    <3>6. CASE SaveIndex(t)
      BY <2>3, <3>6 DEF SaveIndex
    <3>7. ~Publish(t)
      BY <2>4 DEF Publish, Recording
    <3> QED  BY <1>5, <3>2, <3>3, <3>4, <3>5, <3>6, <3>7 DEF Answer
  <2>5. CASE Publish(t)
    BY <2>2, <2>3, <2>5 DEF Publish
  <2> QED  BY <1>5, <2>4, <2>5 DEF Answer, Record, Fill, Advance, SaveRing,
                                  SaveIndex, Recording
<1>6. ASSUME Restart PROVE task' \in [Tasks -> Task] /\ HandInv'
  <2>1. \A t \in Tasks : task'[t] = IdleTask
    BY <1>6 DEF Restart
  <2>2. task' \in [Tasks -> Task]
    BY <1>6, IdleTyped DEF Restart
  <2> QED  BY <2>1, <2>2 DEF HandInv, IdleTask, Recording
<1>7. CASE UNCHANGED task
  BY <1>7 DEF HandInv
<1>8. ASSUME NEW c \in Commands, Expire(c) PROVE UNCHANGED task
  BY <1>8 DEF Expire
<1> QED
  BY <1>1, <1>2, <1>3, <1>4, <1>5, <1>6, <1>7, <1>8
     DEF Next, MqttStep, ActuatorStep, Tasks, vars

(* The parts of TypeOK that are not the tasks.                             *)
DeviceOK ==
  /\ queue \in Seq(Commands)
  /\ Len(queue) <= QueueLength
  /\ ring \in [Slots -> RecentAck]
  /\ index \in Slots
  /\ flash \in [ring: [Slots -> RecentAck], index: Slots]

HistoryOK ==
  /\ refused \subseteq Commands
  /\ deliveries \in 0 .. MaxDeliveries
  /\ interrupts \in 0 .. MaxInterrupts
  /\ executions \in [Commands -> Nat]
  /\ answers \in [Commands -> SUBSET (AckStatus \cup {"accepted"})]
  /\ recent \in Seq(Commands)
  /\ Len(recent) <= CacheSize
  /\ lost \subseteq Commands
  /\ overlapped \subseteq Commands

(* Every step keeps the queue, the ring and the flash typed.               *)
LEMMA DeviceTyped ==
  ASSUME TypeOK, HandInv, [Next]_vars
  PROVE  DeviceOK'
<1> USE DEF TypeOK, DeviceOK, device
<1>1. ASSUME NEW c \in Commands, Deliver(c) PROVE DeviceOK'
  BY <1>1 DEF Deliver
<1>2. ASSUME Enqueue PROVE DeviceOK'
  <2>1. task["mqtt"].command \in Commands
    BY <1>2 DEF Enqueue, HandInv, Tasks
  <2>2. queue' \in Seq(Commands) /\ Len(queue') <= QueueLength
    <3>1. CASE Len(queue) < QueueLength /\ queue' = Append(queue, task["mqtt"].command)
      <4>1. queue' \in Seq(Commands) /\ Len(queue') = Len(queue) + 1
        BY <2>1, <3>1
      <4> QED  BY <3>1, <4>1, ConstantsAssumption
    <3>2. CASE queue' = queue
      BY <3>2
    <3> QED  BY <1>2, <3>1, <3>2 DEF Enqueue
  <2> QED  BY <1>2, <2>2 DEF Enqueue
<1>3. ASSUME Receive PROVE DeviceOK'
  <2>1. queue' \in Seq(Commands) /\ Len(queue') <= QueueLength
    BY <1>3, ConstantsAssumption DEF Receive
  <2> QED  BY <1>3, <2>1 DEF Receive
<1>4. ASSUME Apply PROVE DeviceOK'
  BY <1>4 DEF Apply
<1>5. ASSUME NEW t \in Tasks, Answer(t) PROVE DeviceOK'
  <2>1. CASE Publish(t)
    BY <2>1 DEF Publish
  <2>2. CASE Record(t)
    <3>1. [command |-> task[t].command, status |-> "unwritten"] \in RecentAck
      BY <2>2 DEF Record, HandInv, RecentAck, AckStatus, Recording
    <3> QED  BY <2>2, <3>1 DEF Record
  <2>3. CASE Fill(t)
    <3>1. task[t].status \in AckStatus
      BY <2>3 DEF Fill, HandInv, Recording
    <3>2. task[t].slot \in Slots
      BY DEF Task
    <3>3. [ring[task[t].slot] EXCEPT !.status = task[t].status] \in RecentAck
      <4>1. \A ack \in RecentAck, status \in AckStatus :
              [ack EXCEPT !.status = status] \in RecentAck
        BY DEF RecentAck
      <4>2. ring[task[t].slot] \in RecentAck
        BY <3>2
      <4> QED  BY <3>1, <4>1, <4>2
    <3>4. ring' \in [Slots -> RecentAck]
      BY <2>3, <3>2, <3>3 DEF Fill
    <3> QED  BY <2>3, <3>4 DEF Fill
  <2>4. CASE Advance(t)
    <3>1. task[t].slot \in Slots
      BY DEF Task
    <3>2. index' \in Slots
      BY <2>4, <3>1, AfterIsSlot DEF Advance
    <3> QED  BY <2>4, <3>2 DEF Advance
  <2>5. CASE SaveRing(t)
    BY <2>5 DEF SaveRing
  <2>6. CASE SaveIndex(t)
    BY <2>6 DEF SaveIndex
  <2> QED  BY <1>5, <2>1, <2>2, <2>3, <2>4, <2>5, <2>6 DEF Answer
<1>6. ASSUME Restart PROVE DeviceOK'
  <2>1. <<>> \in Seq(Commands) /\ Len(<<>>) <= QueueLength
    BY ConstantsAssumption
  <2> QED  BY <1>6, <2>1 DEF Restart, IndexAtBoot
<1>7. CASE UNCHANGED vars
  BY <1>7 DEF vars
<1>8. ASSUME NEW c \in Commands, Expire(c) PROVE DeviceOK'
  BY <1>8 DEF Expire
<1> QED
  BY <1>1, <1>2, <1>3, <1>4, <1>5, <1>6, <1>7, <1>8
     DEF Next, MqttStep, ActuatorStep, Tasks

(* Every step keeps the environment and the history typed.                 *)
LEMMA HistoryTyped ==
  ASSUME TypeOK, HandInv, [Next]_vars
  PROVE  HistoryOK'
<1> USE DEF TypeOK, HistoryOK, history, environment
<1>1. ASSUME NEW c \in Commands, Deliver(c) PROVE HistoryOK'
  <2>1. deliveries' \in 0 .. MaxDeliveries
    BY <1>1, ConstantsAssumption DEF Deliver
  <2>2. overlapped' \subseteq Commands
    BY <1>1 DEF Deliver
  <2> QED  BY <1>1, <2>1, <2>2 DEF Deliver
<1>2. ASSUME Enqueue PROVE HistoryOK'
  BY <1>2 DEF Enqueue
<1>3. ASSUME Receive PROVE HistoryOK'
  BY <1>3 DEF Receive
<1>4. ASSUME Apply PROVE HistoryOK'
  <2>1. executions' \in [Commands -> Nat]
    BY <1>4 DEF Apply, HandInv, Tasks
  <2> QED  BY <1>4, <2>1 DEF Apply
<1>5. ASSUME NEW t \in Tasks, Answer(t) PROVE HistoryOK'
  <2>1. CASE Publish(t)
    <3>1. task[t].command \in Commands /\ task[t].status \in AckStatus \cup {"accepted"}
      BY <2>1 DEF Publish, HandInv, Task
    <3>2. interrupts' \in 0 .. MaxInterrupts
      BY <2>1, ConstantsAssumption DEF Publish
    <3>3. answers' \in [Commands -> SUBSET (AckStatus \cup {"accepted"})]
      <4>1. \/ answers' = answers
            \/ answers' = [answers EXCEPT ![task[t].command] = @ \cup {task[t].status}]
        BY <2>1 DEF Publish
      <4>2. answers[task[t].command] \cup {task[t].status} \in SUBSET (AckStatus \cup {"accepted"})
        BY <3>1
      <4> QED  BY <3>1, <4>1, <4>2
    <3>4. lost' \subseteq Commands
      BY <2>1, <3>1 DEF Publish
    <3> QED  BY <2>1, <3>2, <3>3, <3>4 DEF Publish
  <2>2. CASE Record(t)
    <3>1. task[t].command \in Commands
      BY <2>2 DEF Record, HandInv
    <3>2. recent' \in Seq(Commands) /\ Len(recent') <= CacheSize
      BY <2>2, <3>1, LatestIsBounded DEF Record
    <3>3. Range(recent) \subseteq Commands
      BY DEF Range
    <3>4. \A u \in Tasks : task[u].pc \in Recording => task[u].command \in Commands
      BY DEF HandInv, Recording
    <3>5. overlapped' \subseteq Commands
      BY <2>2, <3>1, <3>3, <3>4 DEF Record
    <3> QED  BY <2>2, <3>2, <3>5 DEF Record
  <2>3. CASE Fill(t)
    BY <2>3 DEF Fill
  <2>4. CASE Advance(t)
    BY <2>4 DEF Advance
  <2>5. CASE SaveRing(t)
    BY <2>5 DEF SaveRing
  <2>6. CASE SaveIndex(t)
    BY <2>6 DEF SaveIndex
  <2> QED  BY <1>5, <2>1, <2>2, <2>3, <2>4, <2>5, <2>6 DEF Answer
<1>6. ASSUME Restart PROVE HistoryOK'
  <2>1. interrupts' \in 0 .. MaxInterrupts
    BY <1>6, ConstantsAssumption DEF Restart
  <2>2. InHand \subseteq Commands
    BY DEF InHand, HandInv, Range
  <2>3. Invalid \subseteq Commands
    BY ConstantsAssumption
  <2> QED  BY <1>6, <2>1, <2>2, <2>3 DEF Restart
<1>7. CASE UNCHANGED vars
  BY <1>7 DEF vars
<1>8. ASSUME NEW c \in Commands, Expire(c) PROVE HistoryOK'
  BY <1>8 DEF Expire
<1> QED
  BY <1>1, <1>2, <1>3, <1>4, <1>5, <1>6, <1>7, <1>8
     DEF Next, MqttStep, ActuatorStep, Tasks

(* Initially nothing is in hand and nothing is recorded.                   *)
LEMMA InitTyped == Init => TypeOK /\ HandInv
<1> SUFFICES ASSUME Init PROVE TypeOK /\ HandInv
  OBVIOUS
<1>1. task \in [Tasks -> Task] /\ HandInv
  <2>1. IdleTask.pc = "idle"
    BY DEF IdleTask
  <2> HIDE DEF IdleTask, Task
  <2> QED  BY <2>1, IdleTyped DEF Init, HandInv, Recording
<1>2. 0 \in Slots /\ NoAck \in RecentAck
  BY ConstantsAssumption DEF Slots, NoAck, RecentAck, AckStatus
<1>3. DeviceOK
  BY <1>2, ConstantsAssumption DEF Init, DeviceOK
<1>4. HistoryOK
  BY ConstantsAssumption DEF Init, HistoryOK
<1> QED  BY <1>1, <1>3, <1>4 DEF TypeOK, DeviceOK, HistoryOK

(* Every step keeps the types.                                             *)
LEMMA NextTyped == TypeOK /\ HandInv /\ [Next]_vars => TypeOK' /\ HandInv'
  BY HandsTyped, DeviceTyped, HistoryTyped DEF TypeOK, DeviceOK, HistoryOK

(* The variables hold values of their types in every reachable state: in   *)
(* particular the queue and the history of records keep their limits, the  *)
(* ring's index stays in the ring, and no "accepted" is ever recorded      *)
(* (remember_terminal_ack).                                                *)
THEOREM TypeCorrect == Spec => []TypeOK
<1>1. Init => TypeOK /\ HandInv
  BY InitTyped
<1>2. TypeOK /\ HandInv /\ [Next]_vars => TypeOK' /\ HandInv'
  BY NextTyped
<1> QED  BY <1>1, <1>2, PTL DEF Spec

-----------------------------------------------------------------------------
(* The order of the answers *)

(* Initially no command is taken.                                          *)
LEMMA InitAccepted == Init => AcceptedInv
  BY DEF Init, AcceptedInv, IdleTask, Recording, Tasks, Range

(* What a command has been answered stays answered.                        *)
LEMMA AcceptedStays ==
  ASSUME TypeOK, HandInv, [Next]_vars
  PROVE  \A c \in Commands : Accepted(c) => Accepted(c)'
<1>1. ASSUME NEW t \in Tasks, Publish(t)
      PROVE  \A c \in Commands : Accepted(c) => Accepted(c)'
  <2>1. task[t].command \in Commands
    BY <1>1 DEF Publish, HandInv
  <2>2. CASE /\ answers' = [answers EXCEPT ![task[t].command] = @ \cup {task[t].status}]
             /\ lost' = lost
    <3>1. \A c \in Commands : answers[c] \subseteq answers'[c]
      BY <2>1, <2>2 DEF TypeOK
    <3> QED  BY <2>2, <3>1 DEF Accepted
  <2>3. CASE lost' = lost \cup {task[t].command} /\ answers' = answers
    BY <2>3 DEF Accepted
  <2> QED  BY <1>1, <2>2, <2>3 DEF Publish
<1>2. CASE Restart
  BY <1>2 DEF Restart, Accepted
<1>3. CASE UNCHANGED <<answers, lost>>
  BY <1>3 DEF Accepted
<1> QED
  BY <1>1, <1>2, <1>3
     DEF Next, MqttStep, ActuatorStep, Answer, Deliver, Expire, Enqueue, Receive,
         Apply, Record, Fill, Advance, SaveRing, SaveIndex, history, vars, Tasks

(* Every step keeps the commands taken accepted or about to be.            *)
LEMMA NextAccepted ==
  ASSUME TypeOK, HandInv, AcceptedInv, [Next]_vars
  PROVE  AcceptedInv'
<1> USE DEF TypeOK
<1>0. /\ \A c \in Commands : Accepted(c) => Accepted(c)'
      /\ Range(queue) \subseteq Commands
      /\ task["actuator"].pc # "idle" => task["actuator"].command \in Commands
  BY AcceptedStays DEF Range, HandInv, Tasks
<1>1. ASSUME NEW c \in Commands, Deliver(c) PROVE AcceptedInv'
  <2>1. task'["actuator"] = task["actuator"] /\ queue' = queue
    BY <1>1 DEF Deliver, device, Tasks
  <2>2. \A d : ~Pending(d)
    BY <1>1 DEF Deliver, Pending
  <2>3. UNCHANGED <<answers, lost>>
    BY <1>1 DEF Deliver
  <2> QED  BY <2>1, <2>2, <2>3 DEF AcceptedInv, Accepted
<1>2. ASSUME Enqueue PROVE AcceptedInv'
  <2>1. /\ task'["actuator"] = task["actuator"]
        /\ \A d : ~Pending(d)
    BY <1>2 DEF Enqueue, Tasks, Pending
  <2>2. task["mqtt"].command \in Commands
    BY <1>2 DEF Enqueue, HandInv, Tasks
  <2>3. \A c \in Range(queue') : c \in Range(queue) \/ Pending(c)'
    <3>1. CASE queue' = queue
      BY <3>1
    <3>2. CASE /\ queue' = Append(queue, task["mqtt"].command)
               /\ task' = [task EXCEPT !["mqtt"] = Reply("mqtt", task["mqtt"].command, "accepted")]
      <4>1. Range(queue') = Range(queue) \cup {task["mqtt"].command}
        BY <3>2, QueueRange
      <4>2. ASSUME NEW c, c = task["mqtt"].command PROVE Pending(c)'
        <5> DEFINE new == Reply("mqtt", task["mqtt"].command, "accepted")
        <5>1. new.pc = "publish" /\ new.status = "accepted"
              /\ new.command = task["mqtt"].command
          BY DEF Reply, Task, Tasks
        <5>2. task'["mqtt"] = new
          BY <3>2 DEF Tasks
        <5> HIDE DEF new
        <5> QED  BY <4>2, <5>1, <5>2 DEF Pending
      <4> QED  BY <4>1, <4>2
    <3> QED  BY <1>2, <3>1, <3>2 DEF Enqueue
  <2>4. UNCHANGED <<answers, lost>>
    BY <1>2 DEF Enqueue, history
  <2>5. \A c \in Range(queue') : Accepted(c)' \/ Pending(c)'
    BY <2>1, <2>3, <2>4 DEF AcceptedInv, Accepted
  <2>6. task["actuator"].pc # "idle" => Accepted(task["actuator"].command)
    BY <2>1 DEF AcceptedInv
  <2>7. task'["actuator"].pc # "idle" => Accepted(task["actuator"].command)'
    BY <2>1, <2>4, <2>6 DEF Accepted
  <2> QED  BY <2>1, <2>5, <2>7 DEF AcceptedInv, Recording, Accepted
<1>3. ASSUME Receive PROVE AcceptedInv'
  <2>1. Head(queue) \in Range(queue) /\ Range(queue') \subseteq Range(queue)
    BY <1>3, QueueRange DEF Receive
  <2>2. /\ task'["actuator"].pc = "apply"
        /\ task'["actuator"].command = Head(queue)
        /\ task'["mqtt"] = task["mqtt"]
    BY <1>3 DEF Receive, Tasks, Task
  <2>3. \A c : Pending(c) => Pending(c)'
    BY <2>2 DEF Pending
  <2> QED  BY <1>0, <2>1, <2>2, <2>3 DEF AcceptedInv, Recording
<1>4. ASSUME Apply PROVE AcceptedInv'
  <2>1. /\ task'["actuator"].pc = "publish"
        /\ task'["actuator"].command = task["actuator"].command
        /\ task'["mqtt"] = task["mqtt"]
    BY <1>4 DEF Apply, Reply, Tasks, Task
  <2>2. queue' = queue /\ task["actuator"].pc # "idle"
    BY <1>4 DEF Apply, device
  <2>3. \A c : Pending(c) => Pending(c)'
    BY <2>1 DEF Pending
  <2> QED  BY <1>0, <2>1, <2>2, <2>3 DEF AcceptedInv, Recording
<1>5. ASSUME Answer("mqtt") PROVE AcceptedInv'
  <2>1. task'["actuator"] = task["actuator"] /\ queue' = queue
    BY <1>5 DEF Answer, Publish, Record, Fill, Advance, SaveRing, SaveIndex, device, Tasks
  <2>2. \A c \in Commands : Pending(c) => Accepted(c)'
    <3>1. ASSUME NEW c \in Commands, Pending(c), Publish("mqtt")
          PROVE  Accepted(c)'
      BY <3>1 DEF Publish, Pending, Accepted
    <3>2. ASSUME NEW c \in Commands, Pending(c)
          PROVE  ~(Record("mqtt") \/ Fill("mqtt") \/ Advance("mqtt")
                     \/ SaveRing("mqtt") \/ SaveIndex("mqtt"))
      BY <3>2 DEF Pending, Record, Fill, Advance, SaveRing, SaveIndex
    <3> QED  BY <1>5, <3>1, <3>2 DEF Answer
  <2> QED  BY <1>0, <2>1, <2>2 DEF AcceptedInv, Recording
<1>6. ASSUME Answer("actuator") PROVE AcceptedInv'
  <2>1. task'["mqtt"] = task["mqtt"] /\ queue' = queue
    BY <1>6 DEF Answer, Publish, Record, Fill, Advance, SaveRing, SaveIndex, device, Tasks
  <2>2. \A c : Pending(c) => Pending(c)'
    BY <2>1 DEF Pending
  <2>3. task["actuator"].pc # "idle"
    BY <1>6 DEF Answer, Publish, Record, Fill, Advance, SaveRing, SaveIndex
  <2>4. Accepted(task["actuator"].command)
    <3>1. CASE Publish("actuator")
      <4>1. \A c : ~Pending(c)
        BY <3>1 DEF Publish, ClientIsFreeFor, Pending
      <4> QED  BY <2>3, <4>1 DEF AcceptedInv
    <3>2. CASE task["actuator"].pc \in Recording
      BY <3>2 DEF AcceptedInv
    <3> QED  BY <1>6, <3>1, <3>2 DEF Answer, Record, Fill, Advance, SaveRing,
                                     SaveIndex, Recording
  <2>5. \/ task'["actuator"].pc = "idle"
        \/ task'["actuator"].command = task["actuator"].command
    BY <1>6 DEF Answer, Publish, Record, Fill, Advance, SaveRing, SaveIndex, Tasks,
                Task, IdleTask
  <2> QED  BY <1>0, <2>1, <2>2, <2>3, <2>4, <2>5 DEF AcceptedInv, Recording
<1>7. ASSUME Restart PROVE AcceptedInv'
  <2>1. task'["actuator"].pc = "idle" /\ queue' = <<>>
    BY <1>7 DEF Restart, IdleTask, Tasks
  <2> QED  BY <2>1 DEF AcceptedInv, Recording, Range
<1>8. CASE UNCHANGED <<task, queue, answers, lost>>
  BY <1>8 DEF AcceptedInv, Accepted, Pending
<1>9. ASSUME NEW c \in Commands, Expire(c)
      PROVE  UNCHANGED <<task, queue, answers, lost>>
  BY <1>9 DEF Expire, device, history
<1> QED
  BY <1>1, <1>2, <1>3, <1>4, <1>5, <1>6, <1>7, <1>8, <1>9
     DEF Next, MqttStep, ActuatorStep, vars

(* The actuator task's answer to a command follows the handler's           *)
(* "accepted", whatever the size of the queue and the redeliveries.        *)
THEOREM AcceptedComesFirst == Spec => []AcceptedFirst
<1>1. Init => TypeOK /\ HandInv /\ AcceptedInv
  BY InitTyped, InitAccepted
<1>2. TypeOK /\ HandInv /\ AcceptedInv /\ [Next]_vars
        => TypeOK' /\ HandInv' /\ AcceptedInv'
  BY NextTyped, NextAccepted
<1>3. AcceptedInv => AcceptedFirst
  BY DEF AcceptedInv, AcceptedFirst, Accepted
<1> QED  BY <1>1, <1>2, <1>3, PTL DEF Spec


-----------------------------------------------------------------------------
(* Once executed, and one answer *)

Clean(c) == c \notin lost \cup overlapped

(* In the middle of a record: begun, and not yet saved.                    *)
Writing == {"fill", "advance", "saveRing", "saveIndex"}

(* The index is not yet behind the slot that the task records into.        *)
Advancing == {"fill", "advance"}

IsWriting(c) == \E t \in Tasks : task[t].pc \in Writing /\ task[t].command = c

Ahead(t) == IF task[t].pc \in Advancing THEN 1 ELSE 0

(* How far the index may advance before the next record is begun.          *)
AllAhead == Ahead("mqtt") + Ahead("actuator")

(* How far slot s is from slot i.                                          *)
Distance(i, s) == IF i <= s THEN s - i ELSE s - i + CacheSize

(* How many records can be begun before the one begun as p-th of recent is *)
(* no longer among the last CacheSize.                                     *)
Remaining(p) == CacheSize - 1 - (Len(recent) - p)

(* Slot s has the ACK of c, in RAM and in flash, and is not used again      *)
(* while the p-th of recent is among them: not from the index, not from     *)
(* the index after a restart, and not from one that a task goes back to.   *)
Safe(c, p, s) ==
  /\ ring[s].command = c /\ flash.ring[s].command = c
  /\ Distance(index, s) >= Remaining(p) + AllAhead
  /\ Distance(flash.index, s) >= Remaining(p)
  /\ \A t \in Tasks : task[t].pc \in Advancing =>
       Distance(task[t].slot, s) >= Remaining(p) + AllAhead

(* The last CacheSize commands recorded are in the ring.                   *)
RingInv ==
  \A c \in Commands : Clean(c) /\ ~IsWriting(c) =>
    \A p \in DOMAIN recent : recent[p] = c => \E s \in Slots : Safe(c, p, s)

(* A record that no other disturbs is the last one, its slot is the one the *)
(* index is at or has left, and it is saved with the ring.                 *)
WriteInv ==
  \A t \in Tasks :
    task[t].pc \in Writing /\ Clean(task[t].command) =>
      /\ \A u \in Tasks \ {t} : task[u].pc \notin Writing
      /\ recent # <<>> /\ recent[Len(recent)] = task[t].command
      /\ task[t].pc \in Advancing =>
           index = task[t].slot /\ ring[index].command = task[t].command
      /\ task[t].pc \notin Advancing =>
           \E s \in Slots :
             /\ After(s) = index /\ ring[s].command = task[t].command
             /\ task[t].pc = "saveIndex" =>
                  flash.ring[s].command = task[t].command

(* The ring *)

LEMMA TwoTasks ==
  ASSUME NEW t \in Tasks
  PROVE  \E u \in Tasks \ {t} : /\ Tasks = {t, u}
                                /\ AllAhead = Ahead(t) + Ahead(u)
                                /\ AllAhead' = Ahead(t)' + Ahead(u)'
<1>1. CASE t = "mqtt"
  <2>1. "actuator" \in Tasks \ {t} /\ Tasks = {t, "actuator"}
    BY <1>1 DEF Tasks
  <2> QED  BY <1>1, <2>1 DEF AllAhead
<1>2. CASE t = "actuator"
  <2>1. "mqtt" \in Tasks \ {t} /\ Tasks = {t, "mqtt"}
    BY <1>2 DEF Tasks
  <2>2. Ahead("mqtt") \in Nat /\ Ahead("actuator") \in Nat
        /\ Ahead("mqtt")' \in Nat /\ Ahead("actuator")' \in Nat
    BY DEF Ahead
  <2> QED  BY <1>2, <2>1, <2>2 DEF AllAhead
<1> QED  BY <1>1, <1>2 DEF Tasks

LEMMA AfterSlot ==
  ASSUME NEW i \in Slots
  PROVE  After(i) = IF i = CacheSize - 1 THEN 0 ELSE i + 1
BY ConstantsAssumption DEF After, Slots

(* A step of the index takes it one slot nearer, or past the slot and a    *)
(* whole ring away.                                                        *)
LEMMA Distances ==
  ASSUME NEW i \in Slots, NEW s \in Slots
  PROVE  /\ Distance(i, s) \in 0 .. CacheSize - 1
         /\ Distance(i, s) = 0 <=> i = s
         /\ Distance(After(i), s) >= Distance(i, s) - 1
         /\ Distance(After(s), s) = CacheSize - 1
BY AfterSlot, ConstantsAssumption DEF Distance, Slots

(* What is left of the last commands when another is recorded.             *)
LEMMA LatestKeeps ==
  ASSUME NEW commands \in Seq(Commands), NEW d \in Commands,
         Len(commands) <= CacheSize
  PROVE  LET next == Latest(Append(commands, d))
         IN  /\ next # <<>> /\ next[Len(next)] = d
             /\ \A p \in DOMAIN next : next[p] # d =>
                  \E q \in DOMAIN commands :
                    /\ commands[q] = next[p]
                    /\ Len(next) - p = Len(commands) - q + 1
<1> DEFINE all == Append(commands, d)
           next == Latest(all)
<1>0. /\ all \in Seq(Commands) /\ Len(all) = Len(commands) + 1
      /\ all[Len(all)] = d /\ Len(commands) \in Nat
      /\ \A q \in 1..Len(commands) : all[q] = commands[q]
      /\ DOMAIN commands = 1..Len(commands)
  OBVIOUS
<1> HIDE DEF all
<1>1. CASE Len(all) <= CacheSize
  <2>1. next = all /\ DOMAIN next = 1..Len(next)
    BY <1>0, <1>1, ConstantsAssumption DEF Latest
  <2> QED  BY <1>0, <2>1 DEF all
<1>2. CASE Len(all) > CacheSize
  <2>1. next = Tail(all) /\ Len(commands) > 0
    BY <1>0, <1>2, ConstantsAssumption DEF Latest
  <2>2. /\ Len(next) = Len(commands) /\ DOMAIN next = 1..Len(next)
        /\ \A p \in 1..Len(next) : next[p] = all[p + 1]
    BY <1>0, <2>1
  <2> HIDE DEF next
  <2>3. next # <<>> /\ next[Len(next)] = d
    BY <1>0, <2>1, <2>2
  <2>4. ASSUME NEW p \in DOMAIN next, next[p] # d
        PROVE  \E q \in DOMAIN commands :
                 commands[q] = next[p] /\ Len(next) - p = Len(commands) - q + 1
    <3>1. p + 1 \in 1..Len(commands)
      BY <1>0, <2>2, <2>4
    <3> QED  BY <1>0, <2>2, <3>1
  <2> QED  BY <2>3, <2>4 DEF next, all
<1>3. Len(all) <= CacheSize \/ Len(all) > CacheSize
  BY <1>0, ConstantsAssumption
<1> QED  BY <1>1, <1>2, <1>3

(* What the steps of a record do.                                          *)

LEMMA RecordDoes ==
  ASSUME TypeOK, HandInv, NEW t \in Tasks, Record(t)
  PROVE  /\ task[t].pc = "record" /\ task'[t].pc = "fill"
         /\ task'[t].slot = index /\ task'[t].command = task[t].command
         /\ task'[t].status = task[t].status
         /\ \A u \in Tasks \ {t} : task'[u] = task[u]
         /\ ring'[index].command = task[t].command
         /\ ring'[index].status = "unwritten"
         /\ \A s \in Slots \ {index} : ring'[s] = ring[s]
         /\ recent' = Latest(Append(recent, task[t].command))
         /\ \A c \in Range(recent) : c \in Range(recent') \/ c \in overlapped'
         /\ \A u \in Tasks \ {t} : task[u].pc \in Writing =>
              {task[t].command, task[u].command} \subseteq overlapped'
         /\ overlapped \subseteq overlapped'
         /\ UNCHANGED <<index, flash, queue, answers, executions, lost>>
<1>0. index \in Slots /\ ring \in [Slots -> RecentAck] /\ task \in [Tasks -> Task]
  BY DEF TypeOK
<1>1. /\ task[t].pc = "record" /\ task'[t].pc = "fill"
      /\ task'[t].slot = index /\ task'[t].command = task[t].command
      /\ task'[t].status = task[t].status
      /\ \A u \in Tasks \ {t} : task'[u] = task[u]
  BY <1>0 DEF Record, Task
<1>2. /\ ring'[index].command = task[t].command
      /\ ring'[index].status = "unwritten"
      /\ \A s \in Slots \ {index} : ring'[s] = ring[s]
  BY <1>0 DEF Record
<1>3. Recording \ {"record"} = Writing
  BY DEF Recording, Writing
<1>4. /\ \A c \in Range(recent) : c \in Range(recent') \/ c \in overlapped'
      /\ \A u \in Tasks \ {t} : task[u].pc \in Writing =>
           {task[t].command, task[u].command} \subseteq overlapped'
      /\ overlapped \subseteq overlapped'
  BY <1>3 DEF Record
<1> QED  BY <1>1, <1>2, <1>4 DEF Record, environment

LEMMA FillDoes ==
  ASSUME TypeOK, NEW t \in Tasks, Fill(t)
  PROVE  /\ task[t].pc = "fill" /\ task'[t].pc = "advance"
         /\ task'[t].slot = task[t].slot /\ task'[t].command = task[t].command
         /\ task'[t].status = task[t].status
         /\ \A u \in Tasks \ {t} : task'[u] = task[u]
         /\ \A s \in Slots : ring'[s].command = ring[s].command
         /\ ring'[task[t].slot].status = task[t].status
         /\ \A s \in Slots \ {task[t].slot} : ring'[s] = ring[s]
         /\ UNCHANGED <<index, flash, queue, answers, executions, lost, recent,
                        overlapped>>
<1>0. /\ ring \in [Slots -> RecentAck] /\ task \in [Tasks -> Task]
      /\ task[t].slot \in Slots
  BY DEF TypeOK, Task
<1>1. /\ task[t].pc = "fill" /\ task'[t].pc = "advance"
      /\ task'[t].slot = task[t].slot /\ task'[t].command = task[t].command
      /\ task'[t].status = task[t].status
      /\ \A u \in Tasks \ {t} : task'[u] = task[u]
  BY <1>0 DEF Fill, Task
<1>2. ring' = [ring EXCEPT ![task[t].slot].status = task[t].status]
  BY DEF Fill
<1>3. ring'[task[t].slot].status = task[t].status
  BY <1>0, <1>2 DEF RecentAck
<1>4. \A s \in Slots : ring'[s].command = ring[s].command
  BY <1>0, <1>2 DEF RecentAck
<1>5. \A s \in Slots \ {task[t].slot} : ring'[s] = ring[s]
  BY <1>0, <1>2
<1> QED  BY <1>1, <1>3, <1>4, <1>5 DEF Fill, environment, history

LEMMA AdvanceDoes ==
  ASSUME TypeOK, NEW t \in Tasks, Advance(t)
  PROVE  /\ task[t].pc = "advance" /\ task'[t].pc = "saveRing"
         /\ task'[t].command = task[t].command
         /\ task'[t].status = task[t].status
         /\ \A u \in Tasks \ {t} : task'[u] = task[u]
         /\ index' = After(index) \/ index' = After(task[t].slot)
         /\ UNCHANGED <<ring, flash, queue, answers, executions, lost, recent,
                        overlapped>>
<1>0. task \in [Tasks -> Task]
  BY DEF TypeOK
<1> QED  BY <1>0 DEF Advance, Task, environment, history

LEMMA SaveRingDoes ==
  ASSUME TypeOK, NEW t \in Tasks, SaveRing(t)
  PROVE  /\ task[t].pc = "saveRing" /\ task'[t].pc = "saveIndex"
         /\ task'[t].command = task[t].command
         /\ task'[t].status = task[t].status
         /\ \A u \in Tasks \ {t} : task'[u] = task[u]
         /\ flash'.ring = ring /\ flash'.index = flash.index
         /\ UNCHANGED <<ring, index, queue, answers, executions, lost, recent,
                        overlapped>>
<1>0. task \in [Tasks -> Task] /\ flash \in [ring: [Slots -> RecentAck], index: Slots]
  BY DEF TypeOK
<1> QED  BY <1>0 DEF SaveRing, Task, environment, history

LEMMA SaveIndexDoes ==
  ASSUME TypeOK, NEW t \in Tasks, SaveIndex(t)
  PROVE  /\ task[t].pc = "saveIndex" /\ task'[t].pc = "idle"
         /\ \A u \in Tasks \ {t} : task'[u] = task[u]
         /\ flash'.ring = flash.ring /\ flash'.index = index
         /\ UNCHANGED <<ring, index, queue, answers, executions, lost, recent,
                        overlapped>>
<1>0. task \in [Tasks -> Task] /\ flash \in [ring: [Slots -> RecentAck], index: Slots]
  BY DEF TypeOK
<1> QED  BY <1>0 DEF SaveIndex, Task, IdleTask, environment, history


LEMMA RestartDoes ==
  ASSUME TypeOK, Restart
  PROVE  /\ \A t \in Tasks : task'[t].pc = "idle"
         /\ queue' = <<>> /\ ring' = flash.ring /\ index' = flash.index
         /\ lost' = lost \cup InHand
         /\ UNCHANGED <<flash, executions, answers, recent, overlapped>>
BY DEF Restart, IdleTask, IndexAtBoot

LEMMA ReplyIs ==
  ASSUME TypeOK, NEW t \in Tasks, NEW c, NEW status
  PROVE  LET new == Reply(t, c, status)
         IN  /\ new.pc = "publish" /\ new.command = c /\ new.status = status
             /\ new.slot = task[t].slot
BY DEF TypeOK, Reply, Task

(* A step that records nothing.                                            *)
Unrecorded ==
  /\ UNCHANGED <<ring, index, flash, recent>>
  /\ lost \subseteq lost' /\ overlapped \subseteq overlapped'
  /\ \A t \in Tasks : \/ task'[t] = task[t]
                      \/ task[t].pc \notin Writing /\ task'[t].pc \notin Writing

LEMMA OthersRecordNothing ==
  ASSUME TypeOK,
         \/ \E c \in Commands : Deliver(c) \/ Expire(c)
         \/ Enqueue \/ Receive \/ Apply
         \/ \E t \in Tasks : Publish(t)
         \/ UNCHANGED vars
  PROVE  Unrecorded
<1>0. task \in [Tasks -> Task]
  BY DEF TypeOK
<1>1. ASSUME NEW c \in Commands, Deliver(c) PROVE Unrecorded
  <2>1. task["mqtt"].pc = "idle"
    BY <1>1 DEF Deliver
  <2>2. task'["mqtt"].pc \in {"publish", "enqueue"}
    BY <1>0, <1>1, ReplyIs DEF Deliver, Tasks, Task
  <2>3. task'["actuator"] = task["actuator"]
    BY <1>0, <1>1 DEF Deliver, Tasks
  <2> QED  BY <1>1, <2>1, <2>2, <2>3 DEF Deliver, Unrecorded, device, Tasks, Writing
<1>2. ASSUME NEW c \in Commands, Expire(c) PROVE Unrecorded
  BY <1>2 DEF Expire, Unrecorded, device, history
<1>3. CASE Enqueue
  <2>1. task["mqtt"].pc = "enqueue"
    BY <1>3 DEF Enqueue
  <2>2. task'["mqtt"].pc = "publish"
    BY <1>0, <1>3, ReplyIs DEF Enqueue, Tasks
  <2>3. task'["actuator"] = task["actuator"]
    BY <1>0, <1>3 DEF Enqueue, Tasks
  <2> QED  BY <1>3, <2>1, <2>2, <2>3 DEF Enqueue, Unrecorded, history, Tasks, Writing
<1>4. CASE Receive
  BY <1>0, <1>4 DEF Receive, Unrecorded, history, Task, Tasks, Writing
<1>5. CASE Apply
  <2>1. task["actuator"].pc = "apply"
    BY <1>5 DEF Apply
  <2>2. task'["actuator"].pc = "publish"
    BY <1>0, <1>5, ReplyIs DEF Apply, Tasks
  <2>3. task'["mqtt"] = task["mqtt"]
    BY <1>0, <1>5 DEF Apply, Tasks
  <2> QED  BY <1>5, <2>1, <2>2, <2>3 DEF Apply, Unrecorded, device, Tasks, Writing
<1>6. ASSUME NEW t \in Tasks, Publish(t) PROVE Unrecorded
  BY <1>0, <1>6 DEF Publish, IdleTask, Unrecorded, device, Task, Writing
<1>7. CASE UNCHANGED vars
  BY <1>7 DEF vars, Unrecorded
<1> QED  BY <1>1, <1>2, <1>3, <1>4, <1>5, <1>6, <1>7

LEMMA WriteStep ==
  TypeOK /\ HandInv /\ WriteInv /\ [Next]_vars => WriteInv'
<1> SUFFICES ASSUME TypeOK, HandInv, WriteInv, [Next]_vars PROVE WriteInv'
  OBVIOUS
<1>0. /\ ring \in [Slots -> RecentAck] /\ index \in Slots
      /\ recent \in Seq(Commands) /\ Len(recent) <= CacheSize
  BY DEF TypeOK
<1>1. CASE Unrecorded
  BY <1>1 DEF Unrecorded, WriteInv, Clean
<1>2. CASE Restart
  BY <1>2, RestartDoes DEF WriteInv, Writing
<1>3. ASSUME NEW t \in Tasks, Record(t) PROVE WriteInv'
  <2> DEFINE d == task[t].command
  <2>1. d \in Commands
    BY <1>3, RecordDoes DEF HandInv
  <2>2. recent' # <<>> /\ recent'[Len(recent')] = d
    BY <1>0, <1>3, <2>1, LatestKeeps, RecordDoes
  <2>3. ASSUME NEW u \in Tasks \ {t}, task'[u].pc \in Writing
        PROVE  {d, task'[u].command} \subseteq overlapped'
    BY <1>3, <2>3, RecordDoes
  <2> QED  BY <1>3, <2>2, <2>3, RecordDoes DEF WriteInv, Clean, Advancing, Writing
<1>4. ASSUME NEW t \in Tasks, Fill(t) PROVE WriteInv'
  BY <1>0, <1>4, FillDoes DEF WriteInv, Clean, Advancing, Writing
<1>5. ASSUME NEW t \in Tasks, Advance(t) PROVE WriteInv'
  <2>1. ASSUME Clean(task[t].command)
        PROVE  \E s \in Slots : After(s) = index' /\ ring'[s].command = task[t].command
    BY <1>0, <1>5, <2>1, AdvanceDoes DEF WriteInv, Advancing, Writing
  <2> QED  BY <1>5, <2>1, AdvanceDoes DEF WriteInv, Clean, Advancing, Writing
<1>6. ASSUME NEW t \in Tasks, SaveRing(t) PROVE WriteInv'
  BY <1>6, SaveRingDoes DEF WriteInv, Clean, Advancing, Writing
<1>7. ASSUME NEW t \in Tasks, SaveIndex(t) PROVE WriteInv'
  BY <1>7, SaveIndexDoes DEF WriteInv, Clean, Advancing, Writing
<1> QED
  BY <1>1, <1>2, <1>3, <1>4, <1>5, <1>6, <1>7, OthersRecordNothing
     DEF Next, MqttStep, ActuatorStep, Answer, Tasks

LEMMA RingStep ==
  TypeOK /\ HandInv /\ WriteInv /\ RingInv /\ [Next]_vars => RingInv'
<1> SUFFICES ASSUME TypeOK, HandInv, WriteInv, RingInv, [Next]_vars,
                    TypeOK',
                    NEW c \in Commands, Clean(c)', ~IsWriting(c)',
                    NEW p \in DOMAIN recent', recent'[p] = c
             PROVE  \E s \in Slots : Safe(c, p, s)'
  BY NextTyped DEF RingInv
<1>0. /\ ring \in [Slots -> RecentAck] /\ index \in Slots /\ index' \in Slots
      /\ flash \in [ring: [Slots -> RecentAck], index: Slots]
      /\ recent \in Seq(Commands) /\ Len(recent) <= CacheSize
      /\ recent' \in Seq(Commands) /\ Len(recent') <= CacheSize
      /\ DOMAIN recent = 1..Len(recent) /\ Len(recent) \in Nat
      /\ DOMAIN recent' = 1..Len(recent') /\ Len(recent') \in Nat
      /\ \A t \in Tasks : task[t].slot \in Slots
      /\ \A t \in Tasks : Ahead(t) \in {0, 1} /\ Ahead(t)' \in {0, 1}
      /\ CacheSize \in Nat \ {0}
  <2>1. \A t \in Tasks : Ahead(t) \in {0, 1} /\ Ahead(t)' \in {0, 1}
    BY DEF Ahead
  <2>2. \A t \in Tasks : task[t].slot \in Slots
    BY DEF TypeOK, Task
  <2>3. index \in Slots /\ index' \in Slots
    BY DEF TypeOK
  <2> QED  BY <2>1, <2>2, <2>3, ConstantsAssumption DEF TypeOK
<1>1. CASE Unrecorded
  <2>1. Clean(c) /\ ~IsWriting(c) /\ recent' = recent
    BY <1>1 DEF Unrecorded, Clean, IsWriting
  <2>2. PICK s \in Slots : Safe(c, p, s)
    BY <2>1 DEF RingInv
  <2>3. /\ \A t \in Tasks : Ahead(t)' = Ahead(t)
        /\ \A t \in Tasks : task'[t].pc \in Advancing =>
             task'[t].slot = task[t].slot /\ task[t].pc \in Advancing
    BY <1>1 DEF Unrecorded, Ahead, Advancing, Writing
  <2>4. AllAhead' = AllAhead
    BY <2>3 DEF AllAhead, Tasks
  <2> QED  BY <1>1, <2>1, <2>2, <2>3, <2>4 DEF Unrecorded, Safe, Remaining
<1>2. CASE Restart
  <2>1. Clean(c) /\ ~IsWriting(c) /\ recent' = recent
    BY <1>2, RestartDoes DEF Clean, IsWriting, InHand, Writing
  <2>2. PICK s \in Slots : Safe(c, p, s)
    BY <2>1 DEF RingInv
  <2>3. AllAhead' = 0 /\ \A t \in Tasks : task'[t].pc \notin Advancing
    BY <1>2, RestartDoes DEF AllAhead, Ahead, Advancing, Tasks
  <2> QED  BY <1>0, <1>2, <2>1, <2>2, <2>3, RestartDoes DEF Safe, Remaining
<1>3. ASSUME NEW t \in Tasks, Record(t) PROVE \E s \in Slots : Safe(c, p, s)'
  <2> DEFINE d == task[t].command
  <2>1. d \in Commands /\ c # d
    BY <1>3, RecordDoes DEF HandInv, IsWriting, Writing
  <2>2. Clean(c) /\ ~IsWriting(c)
    BY <1>3, RecordDoes DEF Clean, IsWriting, Writing
  <2>3. PICK q \in DOMAIN recent : /\ recent[q] = c
                                   /\ Len(recent') - p = Len(recent) - q + 1
    <3>1. recent' = Latest(Append(recent, d))
      BY <1>3, RecordDoes
    <3>2. \A i \in DOMAIN recent' : recent'[i] # d =>
            \E q \in DOMAIN recent :
              recent[q] = recent'[i] /\ Len(recent') - i = Len(recent) - q + 1
      <4> DEFINE next == Latest(Append(recent, d))
      <4>1. \A i \in DOMAIN next : next[i] # d =>
              \E q \in DOMAIN recent :
                recent[q] = next[i] /\ Len(next) - i = Len(recent) - q + 1
        BY <1>0, <2>1, LatestKeeps
      <4>2. recent' = next
        BY <3>1
      <4> HIDE DEF next
      <4> QED  BY <4>1, <4>2
    <3> QED  BY <2>1, <3>2
  <2>4. PICK s \in Slots : Safe(c, q, s)
    BY <2>2, <2>3 DEF RingInv
  <2>5. PICK u \in Tasks \ {t} : /\ Tasks = {t, u}
                                 /\ AllAhead = Ahead(t) + Ahead(u)
                                 /\ AllAhead' = Ahead(t)' + Ahead(u)'
    BY TwoTasks
  <2>6. Ahead(t) = 0 /\ Ahead(t)' = 1 /\ Ahead(u)' = Ahead(u)
    BY <1>3, <2>5, RecordDoes DEF Ahead, Advancing
  <2>7. AllAhead' = AllAhead + 1 /\ AllAhead \in Nat
    BY <1>0, <2>5, <2>6
  <2>8. /\ Remaining(p)' = Remaining(q) - 1 /\ Remaining(p)' >= 0
        /\ Remaining(q) \in Int
    <3>1. PICK n \in Nat, m \in Nat : n = Len(recent') /\ m = Len(recent)
      BY <1>0
    <3>2. Remaining(p)' = CacheSize - 1 - (n - p) /\ Remaining(q) = CacheSize - 1 - (m - q)
      BY <3>1 DEF Remaining
    <3>3. p \in 1..n /\ q \in 1..m /\ n - p = m - q + 1 /\ n <= CacheSize
      BY <1>0, <2>3, <3>1
    <3>4. CacheSize \in Nat
      BY ConstantsAssumption
    <3> HIDE DEF RingInv, TypeOK, HandInv, WriteInv
    <3> QED  BY <3>2, <3>3, <3>4
  <2>9. s # index
    <3>0. Distance(index, s) \in Int /\ Remaining(q) >= 1
      BY <1>0, <2>8, Distances
    <3>1. Distance(index, s) >= 1
      BY <2>4, <2>7, <2>8, <3>0 DEF Safe
    <3> QED  BY <1>0, <3>1, Distances
  <2>10. ring'[s].command = c /\ flash'.ring[s].command = c
    BY <1>3, <2>4, <2>9, RecordDoes DEF Safe
  <2>11. /\ Distance(index', s) >= Remaining(p)' + AllAhead'
         /\ Distance(flash'.index, s) >= Remaining(p)'
    <3>1. index' = index /\ flash' = flash
      BY <1>3, RecordDoes
    <3>2. Distance(index, s) \in Int /\ Distance(flash.index, s) \in Int
      BY <1>0, Distances
    <3> QED  BY <2>4, <2>7, <2>8, <3>1, <3>2 DEF Safe
  <2>12. ASSUME NEW v \in Tasks, task'[v].pc \in Advancing
         PROVE  Distance(task'[v].slot, s) >= Remaining(p)' + AllAhead'
    <3>1. CASE v = t
      <4>1. task'[t].slot = index /\ Distance(index, s) \in Int
        BY <1>0, <1>3, RecordDoes, Distances
      <4> QED  BY <2>4, <2>7, <2>8, <3>1, <4>1 DEF Safe
    <3>2. CASE v # t
      <4>0. Distance(task[v].slot, s) \in 0 .. CacheSize - 1
        BY <1>0, Distances
      <4>1. task'[v] = task[v] /\ Distance(task[v].slot, s) \in Int
        BY <1>0, <1>3, <3>2, <4>0, RecordDoes
      <4> QED  BY <2>4, <2>7, <2>8, <2>12, <4>1 DEF Safe
    <3> QED  BY <3>1, <3>2
  <2> QED  BY <2>10, <2>11, <2>12 DEF Safe
<1>4. ASSUME NEW t \in Tasks, Fill(t) PROVE \E s \in Slots : Safe(c, p, s)'
  <2>1. Clean(c) /\ ~IsWriting(c) /\ recent' = recent
    BY <1>4, FillDoes DEF Clean, IsWriting, Writing
  <2>2. PICK s \in Slots : Safe(c, p, s)
    BY <2>1 DEF RingInv
  <2>3. /\ \A v \in Tasks : Ahead(v)' = Ahead(v)
        /\ \A v \in Tasks : task'[v].pc \in Advancing =>
             task'[v].slot = task[v].slot /\ task[v].pc \in Advancing
    BY <1>4, FillDoes DEF Ahead, Advancing
  <2>4. AllAhead' = AllAhead
    BY <2>3 DEF AllAhead, Tasks
  <2> QED  BY <1>4, <2>1, <2>2, <2>3, <2>4, FillDoes DEF Safe, Remaining
<1>5. ASSUME NEW t \in Tasks, Advance(t) PROVE \E s \in Slots : Safe(c, p, s)'
  <2>1. Clean(c) /\ ~IsWriting(c) /\ recent' = recent
    BY <1>5, AdvanceDoes DEF Clean, IsWriting, Writing
  <2>2. PICK s \in Slots : Safe(c, p, s)
    BY <2>1 DEF RingInv
  <2>3. PICK u \in Tasks \ {t} : /\ Tasks = {t, u}
                                 /\ AllAhead = Ahead(t) + Ahead(u)
                                 /\ AllAhead' = Ahead(t)' + Ahead(u)'
    BY TwoTasks
  <2>4. Ahead(t) = 1 /\ Ahead(t)' = 0 /\ Ahead(u)' = Ahead(u)
    BY <1>5, <2>3, AdvanceDoes DEF Ahead, Advancing
  <2>5. AllAhead' = AllAhead - 1 /\ AllAhead \in Nat
    BY <1>0, <2>3, <2>4
  <2>6. Remaining(p)' = Remaining(p) /\ Remaining(p) \in Int
    BY <1>0, <2>1 DEF Remaining
  <2>7. Distance(index', s) >= Remaining(p)' + AllAhead'
    <3>1. /\ Distance(index, s) >= Remaining(p) + AllAhead
          /\ Distance(task[t].slot, s) >= Remaining(p) + AllAhead
      BY <1>5, <2>2, AdvanceDoes DEF Safe, Advancing
    <3>2. \A i \in Slots : /\ Distance(After(i), s) >= Distance(i, s) - 1
                           /\ Distance(i, s) \in Int
                           /\ Distance(After(i), s) \in Int
      BY Distances, AfterIsSlot
    <3>3. Distance(index', s) \in Int
          /\ (\/ Distance(index', s) >= Distance(index, s) - 1
              \/ Distance(index', s) >= Distance(task[t].slot, s) - 1)
      BY <1>0, <1>5, <3>2, AdvanceDoes
    <3>4. Distance(index, s) \in Int /\ Distance(task[t].slot, s) \in Int
      BY <1>0, <3>2
    <3> QED  BY <2>5, <2>6, <3>1, <3>3, <3>4
  <2>8. ASSUME NEW v \in Tasks, task'[v].pc \in Advancing
        PROVE  Distance(task'[v].slot, s) >= Remaining(p)' + AllAhead'
    <3>0. Distance(task[v].slot, s) \in 0 .. CacheSize - 1
      BY <1>0, Distances
    <3>1. v # t /\ task'[v] = task[v] /\ Distance(task[v].slot, s) \in Int
      BY <1>0, <1>5, <2>8, <3>0, AdvanceDoes DEF Advancing
    <3> QED  BY <2>2, <2>5, <2>6, <2>8, <3>1 DEF Safe
  <2>9. /\ ring'[s].command = c /\ flash'.ring[s].command = c
        /\ Distance(flash'.index, s) >= Remaining(p)'
    BY <1>5, <2>2, <2>6, AdvanceDoes DEF Safe
  <2> QED  BY <2>7, <2>8, <2>9 DEF Safe
<1>6. ASSUME NEW t \in Tasks, SaveRing(t) PROVE \E s \in Slots : Safe(c, p, s)'
  <2>1. Clean(c) /\ ~IsWriting(c) /\ recent' = recent
    BY <1>6, SaveRingDoes DEF Clean, IsWriting, Writing
  <2>2. PICK s \in Slots : Safe(c, p, s)
    BY <2>1 DEF RingInv
  <2>3. /\ \A v \in Tasks : Ahead(v)' = Ahead(v)
        /\ \A v \in Tasks : task'[v].pc \in Advancing =>
             task'[v].slot = task[v].slot /\ task[v].pc \in Advancing
    BY <1>6, SaveRingDoes DEF Ahead, Advancing
  <2>4. AllAhead' = AllAhead
    BY <2>3 DEF AllAhead, Tasks
  <2> QED  BY <1>6, <2>1, <2>2, <2>3, <2>4, SaveRingDoes DEF Safe, Remaining
<1>7. ASSUME NEW t \in Tasks, SaveIndex(t) PROVE \E s \in Slots : Safe(c, p, s)'
  <2>1. Clean(c) /\ recent' = recent /\ Remaining(p)' = Remaining(p)
    BY <1>7, SaveIndexDoes DEF Clean, Remaining
  <2>2. /\ \A v \in Tasks : Ahead(v)' = Ahead(v)
        /\ \A v \in Tasks : task'[v].pc \in Advancing =>
             task'[v].slot = task[v].slot /\ task[v].pc \in Advancing
    BY <1>7, SaveIndexDoes DEF Ahead, Advancing
  <2>3. AllAhead' = AllAhead /\ AllAhead \in Nat
    BY <1>0, <2>2 DEF AllAhead, Tasks
  <2>4. Remaining(p) \in Int /\ Remaining(p) <= CacheSize - 1
    BY <1>0, <2>1 DEF Remaining
  <2>5. CASE IsWriting(c)
    <3>1. task[t].command = c
      BY <1>7, <2>5, SaveIndexDoes DEF IsWriting, Writing
    <3>2. PICK s \in Slots : /\ After(s) = index /\ ring[s].command = c
                             /\ flash.ring[s].command = c
      BY <1>7, <2>1, <3>1, SaveIndexDoes DEF WriteInv, Writing, Advancing
    <3>3. \A u \in Tasks : task'[u].pc \notin Advancing
      BY <1>7, <2>1, <3>1, SaveIndexDoes DEF WriteInv, Writing, Advancing
    <3>4. AllAhead' = 0
      BY <3>3 DEF AllAhead, Ahead, Tasks
    <3>5. Distance(index, s) = CacheSize - 1
      BY <3>2, Distances
    <3> QED  BY <1>0, <1>7, <2>1, <2>4, <3>2, <3>3, <3>4, <3>5, SaveIndexDoes DEF Safe
  <2>6. CASE ~IsWriting(c)
    <3>1. PICK s \in Slots : Safe(c, p, s)
      BY <2>1, <2>6 DEF RingInv
    <3>2. Distance(index, s) >= Remaining(p) + AllAhead /\ Distance(index, s) \in Int
      BY <1>0, <3>1, Distances DEF Safe
    <3>3. Distance(index, s) >= Remaining(p)
      BY <2>3, <2>4, <3>2
    <3> QED  BY <1>7, <2>1, <2>2, <2>3, <3>1, <3>2, <3>3, SaveIndexDoes DEF Safe
  <2> QED  BY <2>5, <2>6
<1> QED
  BY <1>1, <1>2, <1>3, <1>4, <1>5, <1>6, <1>7, OthersRecordNothing
     DEF Next, MqttStep, ActuatorStep, Answer, Tasks

(* The hands *)

Holds(t, c) == task[t].pc # "idle" /\ task[t].command = c

(* The command is yet to be executed, if nothing comes between.            *)
Waiting(c) ==
  \/ c \in Range(queue)
  \/ task["mqtt"].pc = "enqueue" /\ task["mqtt"].command = c
  \/ task["actuator"].pc = "apply" /\ task["actuator"].command = c

(* The task has a terminal answer for the command.                         *)
Answering(t, c) ==
  /\ task[t].pc \in {"publish", "record"} \cup Writing
  /\ task[t].command = c /\ task[t].status # "accepted"

(* A command is in hand once, but for its "accepted" that the handler is    *)
(* about to publish.                                                       *)
HandOnce ==
  \A c \in Commands : Clean(c) =>
    /\ \A i, j \in DOMAIN queue : queue[i] = c /\ queue[j] = c => i = j
    /\ c \in Range(queue) => ~Holds("actuator", c)
    /\ c \in Range(queue) \/ Holds("actuator", c) =>
         ~Holds("mqtt", c) \/ Pending(c)

(* What the other steps do.                                                *)

LEMMA DeliverDoes ==
  ASSUME TypeOK, NEW c \in Commands, Deliver(c)
  PROVE  /\ task["mqtt"].pc = "idle" /\ task'["mqtt"].command = c
         /\ task'["actuator"] = task["actuator"]
         /\ \/ task'["mqtt"].pc = "publish" /\ task'["mqtt"].status = "refused"
            \/ /\ task'["mqtt"].pc = "publish"
               /\ \E s \in Slots : /\ ring[s].command = c
                                   /\ task'["mqtt"].status = ring[s].status
            \/ /\ task'["mqtt"].pc = "enqueue"
               /\ \A s \in Slots : ring[s].command # c
         /\ overlapped \subseteq overlapped'
         /\ c \in overlapped'
              \/ (c \notin Range(queue) /\ \A t \in Tasks : ~Holds(t, c))
         /\ UNCHANGED <<ring, index, flash, queue, executions, answers, recent,
                        lost>>
<1>0. task \in [Tasks -> Task]
  BY DEF TypeOK
<1>1. c \in InHand \/ (c \notin Range(queue) /\ \A t \in Tasks : ~Holds(t, c))
  BY DEF InHand, Holds
<1>2. /\ task'["actuator"] = task["actuator"] /\ task["mqtt"].pc = "idle"
      /\ overlapped \subseteq overlapped' /\ (c \in InHand => c \in overlapped')
      /\ UNCHANGED <<ring, index, flash, queue, executions, answers, recent, lost>>
  BY <1>0 DEF Deliver, Tasks, device
<1>3. CASE task' = [task EXCEPT !["mqtt"] = Reply("mqtt", c, "refused")]
  BY <1>0, <1>1, <1>2, <1>3, ReplyIs DEF Tasks
<1>4. CASE \E s \in Known(c) :
             task' = [task EXCEPT !["mqtt"] = Reply("mqtt", c, ring[s].status)]
  BY <1>0, <1>1, <1>2, <1>4, ReplyIs DEF Tasks, Known
<1>5. CASE /\ Known(c) = {}
           /\ task' = [task EXCEPT !["mqtt"].pc = "enqueue", !["mqtt"].command = c]
  <2>1. task'["mqtt"].pc = "enqueue" /\ task'["mqtt"].command = c
    BY <1>0, <1>5 DEF Tasks, Task
  <2> QED  BY <1>1, <1>2, <1>5, <2>1 DEF Known
<1> QED  BY <1>3, <1>4, <1>5 DEF Deliver

LEMMA EnqueueDoes ==
  ASSUME TypeOK, HandInv, Enqueue
  PROVE  /\ task["mqtt"].pc = "enqueue" /\ task["mqtt"].command \in Commands
         /\ task'["mqtt"].pc = "publish"
         /\ task'["mqtt"].command = task["mqtt"].command
         /\ task'["actuator"] = task["actuator"]
         /\ \/ /\ task'["mqtt"].status = "accepted"
               /\ queue' = Append(queue, task["mqtt"].command)
            \/ task'["mqtt"].status = "rejected" /\ queue' = queue
         /\ UNCHANGED <<ring, index, flash, executions, answers, recent, lost,
                        overlapped>>
<1>0. task \in [Tasks -> Task]
  BY DEF TypeOK
<1>1. task["mqtt"].pc = "enqueue" /\ task["mqtt"].command \in Commands
  BY DEF Enqueue, HandInv, Tasks
<1>2. task'["actuator"] = task["actuator"]
  BY <1>0 DEF Enqueue, Tasks
<1> QED  BY <1>0, <1>1, <1>2, ReplyIs DEF Enqueue, Tasks, environment, history

LEMMA ReceiveDoes ==
  ASSUME TypeOK, Receive
  PROVE  /\ task["actuator"].pc = "idle" /\ task'["actuator"].pc = "apply"
         /\ task'["actuator"].command = Head(queue)
         /\ task'["mqtt"] = task["mqtt"]
         /\ queue # <<>> /\ queue' = Tail(queue)
         /\ UNCHANGED <<ring, index, flash, executions, answers, recent, lost,
                        overlapped>>
<1>0. task \in [Tasks -> Task]
  BY DEF TypeOK
<1> QED  BY <1>0 DEF Receive, Tasks, Task, environment, history

LEMMA ApplyDoes ==
  ASSUME TypeOK, HandInv, Apply
  PROVE  LET c == task["actuator"].command
         IN  /\ task["actuator"].pc = "apply" /\ task'["actuator"].pc = "publish"
             /\ task'["actuator"].command = c /\ c \in Commands
             /\ task'["actuator"].status \in Outcomes
             /\ task'["mqtt"] = task["mqtt"]
             /\ executions'[c] \in {executions[c], executions[c] + 1}
             /\ \A d \in Commands : d # c => executions'[d] = executions[d]
             /\ UNCHANGED <<ring, index, flash, queue, answers, recent, lost,
                            overlapped>>
<1>0. /\ task \in [Tasks -> Task] /\ executions \in [Commands -> Nat]
      /\ task["actuator"].command \in Commands
  BY DEF TypeOK, Apply, HandInv, Tasks
<1>1. task["actuator"].pc = "apply" /\ task'["mqtt"] = task["mqtt"]
  BY <1>0 DEF Apply, Tasks
<1>2. PICK outcome \in Outcomes :
        task' = [task EXCEPT !["actuator"] =
                   Reply("actuator", task["actuator"].command, outcome)]
  BY DEF Apply
<1>3. /\ task'["actuator"].pc = "publish"
      /\ task'["actuator"].command = task["actuator"].command
      /\ task'["actuator"].status = outcome
  BY <1>0, <1>2, ReplyIs DEF Tasks
<1>4. \/ executions' = executions
      \/ executions' = [executions EXCEPT ![task["actuator"].command] = @ + 1]
  BY DEF Apply
<1> QED  BY <1>0, <1>1, <1>3, <1>4 DEF Apply, device

LEMMA PublishDoes ==
  ASSUME TypeOK, HandInv, NEW t \in Tasks, Publish(t)
  PROVE  LET c == task[t].command
         IN  /\ task[t].pc = "publish" /\ c \in Commands
             /\ \A u \in Tasks \ {t} : task'[u] = task[u]
             /\ \/ c \in lost' /\ task'[t].pc = "idle" /\ answers' = answers
                \/ /\ answers'[c] = answers[c] \cup {task[t].status}
                   /\ \A d \in Commands : d # c => answers'[d] = answers[d]
                   /\ \/ task[t].status = "accepted" /\ task'[t].pc = "idle"
                      \/ /\ task[t].status # "accepted"
                         /\ task'[t].pc = "record" /\ task'[t].command = c
                         /\ task'[t].status = task[t].status
             /\ lost \subseteq lost'
             /\ UNCHANGED <<ring, index, flash, queue, executions, recent,
                            overlapped>>
<1>0. /\ task \in [Tasks -> Task] /\ task[t].command \in Commands
      /\ answers \in [Commands -> SUBSET (AckStatus \cup {"accepted"})]
  BY DEF TypeOK, Publish, HandInv
<1>1. \A u \in Tasks \ {t} : task'[u] = task[u]
  BY <1>0 DEF Publish
<1>2. CASE lost' = lost \cup {task[t].command} /\ answers' = answers
           /\ task' = [task EXCEPT ![t] = IdleTask]
  BY <1>0, <1>1, <1>2 DEF Publish, IdleTask, device
<1>3. CASE /\ answers' = [answers EXCEPT ![task[t].command] = @ \cup {task[t].status}]
           /\ task' = [task EXCEPT ![t] = IF Recorded(task[t].status)
                                          THEN [task[t] EXCEPT !.pc = "record"]
                                          ELSE IdleTask]
           /\ lost' = lost
  <2>1. \/ task[t].status = "accepted" /\ task'[t].pc = "idle"
        \/ /\ task[t].status # "accepted"
           /\ task'[t].pc = "record" /\ task'[t].command = task[t].command
           /\ task'[t].status = task[t].status
    BY <1>0, <1>3 DEF Recorded, IdleTask, Task
  <2> QED  BY <1>0, <1>1, <1>3, <2>1 DEF Publish, device
<1> QED  BY <1>2, <1>3 DEF Publish

LEMMA ExpireDoes ==
  ASSUME NEW c \in Commands, Expire(c)
  PROVE  UNCHANGED <<task, ring, index, flash, queue, executions, answers, recent,
                     lost, overlapped>>
BY DEF Expire, device, history

(* Nothing more is in hand.                                                *)
LEMMA HandKept ==
  ASSUME HandOnce, queue' = queue, lost \subseteq lost', overlapped \subseteq overlapped',
         \A t \in Tasks : \A c \in Commands : Holds(t, c)' => Holds(t, c),
         \A c \in Commands : Pending(c) /\ Holds("mqtt", c)' => Pending(c)'
  PROVE  HandOnce'
BY DEF HandOnce, Clean, Tasks

LEMMA HandStep ==
  TypeOK /\ HandInv /\ HandOnce /\ [Next]_vars => HandOnce'
<1> SUFFICES ASSUME TypeOK, HandInv, HandOnce, [Next]_vars PROVE HandOnce'
  OBVIOUS
<1>0. queue \in Seq(Commands) /\ DOMAIN queue = 1..Len(queue) /\ Len(queue) \in Nat
  BY DEF TypeOK
<1>1. ASSUME NEW c \in Commands, Deliver(c) PROVE HandOnce'
  <2>1. \A d \in Commands : d # c => ~Holds("mqtt", d)'
    BY <1>1, DeliverDoes DEF Holds
  <2>2. \A d : Holds("actuator", d)' <=> Holds("actuator", d)
    BY <1>1, DeliverDoes DEF Holds
  <2>3. Clean(c)' => c \notin Range(queue) /\ ~Holds("actuator", c)
    BY <1>1, DeliverDoes DEF Clean, Tasks
  <2>4. queue' = queue /\ \A d : Clean(d)' => Clean(d)
    BY <1>1, DeliverDoes DEF Clean
  <2> QED  BY <2>1, <2>2, <2>3, <2>4 DEF HandOnce
<1>2. CASE Enqueue
  <2> DEFINE m == task["mqtt"].command
  <2>1. /\ m \in Commands /\ Holds("mqtt", m) /\ ~Pending(m)
        /\ \A d : Clean(d)' <=> Clean(d)
        /\ \A d : Holds("actuator", d)' <=> Holds("actuator", d)
        /\ \A d : Holds("mqtt", d)' <=> d = m
    BY <1>2, EnqueueDoes DEF Holds, Pending, Clean
  <2>2. Clean(m) => m \notin Range(queue) /\ ~Holds("actuator", m)
    BY <2>1 DEF HandOnce
  <2>3. CASE queue' = queue
    BY <2>1, <2>2, <2>3 DEF HandOnce
  <2>4. CASE task'["mqtt"].status = "accepted" /\ queue' = Append(queue, m)
    <3>1. Range(queue') = Range(queue) \cup {m}
      BY <1>0, <2>4, QueueRange
    <3>3. \A c : c = m => Pending(c)'
      BY <1>2, <2>4, EnqueueDoes DEF Pending
    <3>2. ASSUME NEW c \in Commands, Clean(c),
                 NEW i \in DOMAIN queue', NEW j \in DOMAIN queue',
                 queue'[i] = c, queue'[j] = c
          PROVE  i = j
      <4>1. /\ DOMAIN queue' = 1..(Len(queue) + 1)
            /\ \A k \in 1..Len(queue) : queue'[k] = queue[k] /\ queue[k] \in Range(queue)
            /\ queue'[Len(queue) + 1] = m
        BY <1>0, <2>4 DEF Range
      <4>2. CASE c = m
        BY <1>0, <2>2, <3>2, <4>1, <4>2
      <4>3. CASE c # m
        <5>1. i \in DOMAIN queue /\ j \in DOMAIN queue
          BY <1>0, <3>2, <4>1, <4>3
        <5> QED  BY <1>0, <3>2, <4>1, <5>1 DEF HandOnce
      <4> QED  BY <4>2, <4>3
    <3>4. ASSUME NEW c \in Commands, Clean(c)
          PROVE  /\ c \in Range(queue') => ~Holds("actuator", c)'
                 /\ c \in Range(queue') \/ Holds("actuator", c)' =>
                      ~Holds("mqtt", c)' \/ Pending(c)'
      BY <2>1, <2>2, <3>1, <3>3, <3>4 DEF HandOnce
    <3>5. \A c \in Commands : Clean(c)' => Clean(c)
      BY <2>1
    <3> HIDE DEF m
    <3> QED  BY <3>2, <3>4, <3>5 DEF HandOnce
  <2> QED  BY <1>2, <2>3, <2>4, EnqueueDoes
<1>3. CASE Receive
  <2> DEFINE h == Head(queue)
  <2>1. /\ queue # <<>> /\ queue' = Tail(queue) /\ h \in Range(queue)
        /\ Range(queue') \subseteq Range(queue) /\ h = queue[1]
        /\ DOMAIN queue' = 1..(Len(queue) - 1)
        /\ \A i \in 1..(Len(queue) - 1) : queue'[i] = queue[i + 1]
    <3>1. queue # <<>> /\ queue' = Tail(queue)
      BY <1>3, ReceiveDoes
    <3>2. /\ h \in Range(queue) /\ Range(Tail(queue)) \subseteq Range(queue)
      BY <1>0, <3>1, QueueRange
    <3>3. /\ h = queue[1] /\ DOMAIN Tail(queue) = 1..(Len(queue) - 1)
          /\ \A i \in 1..(Len(queue) - 1) : Tail(queue)[i] = queue[i + 1]
      BY <1>0, <3>1
    <3> QED  BY <3>1, <3>2, <3>3
  <2>2. /\ \A d : Clean(d)' <=> Clean(d)
        /\ \A d : Holds("mqtt", d)' <=> Holds("mqtt", d)
        /\ \A d : Pending(d)' <=> Pending(d)
        /\ \A d : Holds("actuator", d)' => d = h
    BY <1>3, ReceiveDoes DEF Clean, Holds, Pending
  <2>3. ASSUME NEW c \in Commands, Clean(c) PROVE c = h => c \notin Range(queue')
    <3> SUFFICES ASSUME c = h, NEW i \in DOMAIN queue', queue'[i] = c PROVE FALSE
      BY DEF Range
    <3>1. /\ i + 1 \in DOMAIN queue /\ 1 \in DOMAIN queue /\ i + 1 # 1
          /\ queue[i + 1] = c /\ queue[1] = c
      BY <1>0, <2>1
    <3> QED  BY <2>3, <3>1 DEF HandOnce
  <2>4. ASSUME NEW c \in Commands, Clean(c), NEW i \in DOMAIN queue',
               NEW j \in DOMAIN queue', queue'[i] = c, queue'[j] = c
        PROVE  i = j
    <3>1. /\ i + 1 \in DOMAIN queue /\ j + 1 \in DOMAIN queue
          /\ queue[i + 1] = c /\ queue[j + 1] = c
      BY <1>0, <2>1, <2>4
    <3>2. i + 1 = j + 1
      BY <2>4, <3>1 DEF HandOnce
    <3> QED  BY <1>0, <2>1, <3>2
  <2> QED  BY <2>1, <2>2, <2>3, <2>4 DEF HandOnce
<1>4. CASE Apply
  <2>1. /\ \A t \in Tasks : \A c \in Commands : Holds(t, c)' => Holds(t, c)
        /\ \A c : Pending(c)' <=> Pending(c)
    BY <1>4, ApplyDoes DEF Holds, Pending, Tasks
  <2> QED  BY <1>4, <2>1, ApplyDoes, HandKept
<1>5. ASSUME NEW t \in Tasks, Publish(t) PROVE HandOnce'
  <2>1. /\ \A u \in Tasks : \A c \in Commands : Holds(u, c)' => Holds(u, c)
        /\ \A c \in Commands : Pending(c) /\ Holds("mqtt", c)' => Pending(c)'
    BY <1>5, PublishDoes DEF Holds, Pending, Tasks
  <2>2. queue' = queue /\ lost \subseteq lost' /\ overlapped \subseteq overlapped'
    BY <1>5, PublishDoes
  <2> QED  BY <2>1, <2>2, HandKept
<1>6. ASSUME NEW t \in Tasks,
             Record(t) \/ Fill(t) \/ Advance(t) \/ SaveRing(t) \/ SaveIndex(t)
      PROVE  HandOnce'
  <2>1. /\ task'[t].pc = "idle" \/ task'[t].command = task[t].command
        /\ task[t].pc \notin {"idle", "publish"}
        /\ \A u \in Tasks \ {t} : task'[u] = task[u]
        /\ queue' = queue /\ lost' = lost /\ overlapped \subseteq overlapped'
    BY <1>6, RecordDoes, FillDoes, AdvanceDoes, SaveRingDoes, SaveIndexDoes
  <2>2. /\ \A u \in Tasks : \A c \in Commands : Holds(u, c)' => Holds(u, c)
        /\ \A c \in Commands : Pending(c) /\ Holds("mqtt", c)' => Pending(c)'
    BY <2>1 DEF Holds, Pending, Tasks
  <2> QED  BY <2>1, <2>2, HandKept
<1>7. CASE Restart
  <2>1. \A t \in Tasks : \A c : ~Holds(t, c)'
    BY <1>7, RestartDoes DEF Holds
  <2>2. queue' = <<>> /\ Range(queue') = {}
    BY <1>7, RestartDoes DEF Range
  <2> QED  BY <2>1, <2>2 DEF HandOnce, Tasks
<1>8. CASE UNCHANGED vars \/ \E c \in Commands : Expire(c)
  <2>1. UNCHANGED <<task, queue, lost, overlapped>>
    BY <1>8, ExpireDoes DEF vars
  <2> QED  BY <2>1, HandKept DEF Holds, Pending
<1> QED
  BY <1>1, <1>2, <1>3, <1>4, <1>5, <1>6, <1>7, <1>8
     DEF Next, MqttStep, ActuatorStep, Answer, Tasks


(* The answers *)

(* a is a terminal answer given to the command, remembered or on its way.  *)
Says(c, a) ==
  \/ a \in answers[c]
  \/ \E s \in Slots : ring[s].command = c /\ ring[s].status = a
  \/ \E s \in Slots : flash.ring[s].command = c /\ flash.ring[s].status = a
  \/ \E t \in Tasks : Answering(t, c) /\ task[t].status = a

(* What is remembered of a command is written, but for a slot whose record *)
(* has just been begun; no task fills in the slot of another command.      *)
Written(c) ==
  /\ "unwritten" \notin answers[c]
  /\ \A t \in Tasks : Answering(t, c) => task[t].status # "unwritten"
  /\ \A s \in Slots : ring[s].command = c /\ ring[s].status = "unwritten" =>
       \E t \in Tasks : /\ task[t].pc = "fill"
                        /\ task[t].command = c /\ task[t].slot = s
  /\ \A s \in Slots : flash.ring[s].command = c => flash.ring[s].status # "unwritten"
  /\ \A t \in Tasks : task[t].pc = "fill" /\ ring[task[t].slot].command = c =>
       task[t].command = c

(* A command is executed once and has one terminal answer.  As long as it   *)
(* waits it has neither; from then on it is being answered or recorded.    *)
Once(c) ==
  /\ executions[c] <= 1
  /\ Waiting(c) => executions[c] = 0 /\ \A a \in Outcomes : ~Says(c, a)
  /\ executions[c] = 1 \/ (\E a \in Outcomes : Says(c, a)) =>
       c \in Range(recent) \/ \E t \in Tasks : Answering(t, c)
  /\ \A a, b \in Outcomes : Says(c, a) /\ Says(c, b) => a = b

WrittenInv == \A c \in Commands : Clean(c) => Written(c)
OnceInv == \A c \in Commands : Clean(c) => Once(c)

AnswerInv ==
  TypeOK /\ HandInv /\ WriteInv /\ RingInv /\ HandOnce /\ WrittenInv /\ OnceInv

LEMMA CleanBefore ==
  ASSUME TypeOK, HandInv, [Next]_vars, NEW c, Clean(c)'
  PROVE  Clean(c)
<1>1. lost \subseteq lost' /\ overlapped \subseteq overlapped'
  <2>1. CASE Unrecorded
    BY <2>1 DEF Unrecorded
  <2>2. CASE Restart
    BY <2>2, RestartDoes
  <2>3. ASSUME NEW t \in Tasks,
               Record(t) \/ Fill(t) \/ Advance(t) \/ SaveRing(t) \/ SaveIndex(t)
        PROVE  lost \subseteq lost' /\ overlapped \subseteq overlapped'
    BY <2>3, RecordDoes, FillDoes, AdvanceDoes, SaveRingDoes, SaveIndexDoes
  <2> QED  BY <2>1, <2>2, <2>3, OthersRecordNothing
           DEF Next, MqttStep, ActuatorStep, Answer, Tasks
<1> QED  BY <1>1 DEF Clean

LEMMA WrittenStep ==
  TypeOK /\ HandInv /\ WriteInv /\ WrittenInv /\ [Next]_vars => WrittenInv'
<1> SUFFICES ASSUME TypeOK, HandInv, WriteInv, WrittenInv, [Next]_vars,
                    NEW c \in Commands, Clean(c)'
             PROVE  Written(c)'
  BY DEF WrittenInv
<1>0. /\ Clean(c) /\ Written(c)
      /\ index \in Slots /\ \A t \in Tasks : task[t].slot \in Slots
  BY CleanBefore DEF WrittenInv, TypeOK, Task
<1>1. ASSUME NEW d \in Commands, Deliver(d) PROVE Written(c)'
  <2>1. UNCHANGED <<answers, ring, flash>>
    BY <1>1, DeliverDoes
  <2>2. \A t \in Tasks :
          task'[t] = task[t] \/ (task[t].pc = "idle" /\ task'[t].pc # "fill")
    <3>1. task["mqtt"].pc = "idle" /\ task'["mqtt"].pc \in {"publish", "enqueue"}
      BY <1>1, DeliverDoes
    <3>2. task'["actuator"] = task["actuator"]
      BY <1>1, DeliverDoes
    <3> QED  BY <3>1, <3>2 DEF Tasks
  <2>3. ASSUME Answering("mqtt", c)' PROVE task'["mqtt"].status # "unwritten"
    <3>1. CASE task'["mqtt"].status = "refused"
      BY <3>1
    <3>2. ASSUME NEW s \in Slots, ring[s].command = d,
                 task'["mqtt"].status = ring[s].status
          PROVE  ring[s].status # "unwritten"
      <4>1. c = d /\ \A t \in Tasks : ~Holds(t, c)
        BY <1>1, <2>3, DeliverDoes DEF Answering, Clean
      <4> QED  BY <1>0, <3>2, <4>1 DEF Written, Holds
    <3> QED  BY <1>1, <2>3, <3>1, <3>2, DeliverDoes DEF Answering, Writing
  <2>4. Answering("actuator", c)' <=> Answering("actuator", c)
    BY <1>1, DeliverDoes DEF Answering
  <2>5. \A t \in Tasks : Answering(t, c)' => task'[t].status # "unwritten"
    BY <1>0, <1>1, <2>3, <2>4, DeliverDoes DEF Written, Tasks
  <2> QED  BY <1>0, <2>1, <2>2, <2>5 DEF Written
<1>2. CASE Enqueue
  <2>1. /\ UNCHANGED <<answers, ring, flash>>
        /\ task'["actuator"] = task["actuator"]
        /\ task["mqtt"].pc = "enqueue" /\ task'["mqtt"].pc = "publish"
        /\ task'["mqtt"].status \in {"accepted", "rejected"}
    BY <1>2, EnqueueDoes
  <2> QED  BY <1>0, <2>1 DEF Written, Answering, Tasks
<1>3. CASE Receive
  <2>1. /\ UNCHANGED <<answers, ring, flash>>
        /\ task'["mqtt"] = task["mqtt"]
        /\ task["actuator"].pc = "idle" /\ task'["actuator"].pc = "apply"
    BY <1>3, ReceiveDoes
  <2> QED  BY <1>0, <2>1 DEF Written, Answering, Writing, Tasks
<1>4. CASE Apply
  <2>1. /\ UNCHANGED <<answers, ring, flash>>
        /\ task'["mqtt"] = task["mqtt"]
        /\ task["actuator"].pc = "apply" /\ task'["actuator"].pc = "publish"
        /\ task'["actuator"].status \in Outcomes
    BY <1>4, ApplyDoes
  <2> QED  BY <1>0, <2>1 DEF Written, Answering, Tasks, Outcomes
<1>5. ASSUME NEW t \in Tasks, Publish(t) PROVE Written(c)'
  <2>1. /\ UNCHANGED <<ring, flash>>
        /\ \A u \in Tasks \ {t} : task'[u] = task[u]
        /\ task[t].pc = "publish" /\ task'[t].pc \in {"idle", "record"}
        /\ task'[t].pc = "record" =>
             /\ task'[t].command = task[t].command
             /\ task'[t].status = task[t].status
    BY <1>5, PublishDoes
  <2>2. answers'[c] = answers[c]
          \/ (task[t].command = c /\ answers'[c] = answers[c] \cup {task[t].status})
    BY <1>5, PublishDoes
  <2>3. task[t].command = c => task[t].status # "unwritten"
    BY <1>0, <2>1 DEF Written, Answering
  <2>4. "unwritten" \notin answers'[c]
    BY <1>0, <2>2, <2>3 DEF Written
  <2> QED  BY <1>0, <2>1, <2>4 DEF Written, Answering, Writing
<1>6. ASSUME NEW t \in Tasks, Record(t) PROVE Written(c)'
  <2>1. /\ UNCHANGED <<answers, flash>>
        /\ \A u \in Tasks \ {t} : task'[u] = task[u]
        /\ task[t].pc = "record" /\ task'[t].pc = "fill" /\ task'[t].slot = index
        /\ task'[t].command = task[t].command /\ task'[t].status = task[t].status
        /\ ring'[index].command = task[t].command
        /\ \A s \in Slots \ {index} : ring'[s] = ring[s]
    BY <1>6, RecordDoes
  <2>2. \A u \in Tasks : Answering(u, c)' => task'[u].status # "unwritten"
    BY <1>0, <2>1 DEF Written, Answering, Writing
  <2>3. ASSUME NEW s \in Slots, ring'[s].command = c, ring'[s].status = "unwritten"
        PROVE  \E u \in Tasks : /\ task'[u].pc = "fill"
                                /\ task'[u].command = c /\ task'[u].slot = s
    BY <1>0, <2>1, <2>3 DEF Written
  <2>4. ASSUME NEW u \in Tasks, task'[u].pc = "fill", ring'[task'[u].slot].command = c
        PROVE  task'[u].command = c
    <3>1. CASE u = t
      BY <2>1, <2>4, <3>1
    <3>2. CASE u # t /\ task[u].slot # index
      BY <1>0, <2>1, <2>4, <3>2 DEF Written
    <3>3. CASE u # t /\ task[u].slot = index
      <4>1. task[t].command = c /\ task[u].pc \in Writing
        BY <2>1, <2>4, <3>3 DEF Writing
      <4> QED  BY <1>6, <3>3, <4>1, RecordDoes DEF Clean
    <3> QED  BY <3>1, <3>2, <3>3
  <2> QED  BY <1>0, <2>1, <2>2, <2>3, <2>4 DEF Written
<1>7. ASSUME NEW t \in Tasks, Fill(t) PROVE Written(c)'
  <2>1. /\ UNCHANGED <<answers, flash>>
        /\ \A u \in Tasks \ {t} : task'[u] = task[u]
        /\ task[t].pc = "fill" /\ task'[t].pc = "advance"
        /\ task'[t].command = task[t].command /\ task'[t].status = task[t].status
        /\ \A s \in Slots : ring'[s].command = ring[s].command
        /\ ring'[task[t].slot].status = task[t].status
        /\ \A s \in Slots \ {task[t].slot} : ring'[s] = ring[s]
    BY <1>7, FillDoes
  <2>2. \A u \in Tasks : Answering(u, c)' => task'[u].status # "unwritten"
    BY <1>0, <2>1 DEF Written, Answering, Writing
  <2>3. ASSUME NEW s \in Slots, ring'[s].command = c, ring'[s].status = "unwritten"
        PROVE  \E u \in Tasks : /\ task'[u].pc = "fill"
                                /\ task'[u].command = c /\ task'[u].slot = s
    <3>1. CASE s = task[t].slot
      <4>1. task[t].command = c /\ task[t].status = "unwritten"
        BY <1>0, <2>1, <2>3, <3>1 DEF Written
      <4>2. Answering(t, c)
        BY <2>1, <4>1 DEF Answering, Writing
      <4> QED  BY <1>0, <4>1, <4>2 DEF Written
    <3>2. CASE s # task[t].slot
      <4>1. PICK u \in Tasks : /\ task[u].pc = "fill"
                               /\ task[u].command = c /\ task[u].slot = s
        BY <1>0, <2>1, <2>3, <3>2 DEF Written
      <4> QED  BY <2>1, <3>2, <4>1
    <3> QED  BY <3>1, <3>2
  <2>4. ASSUME NEW u \in Tasks, task'[u].pc = "fill", ring'[task'[u].slot].command = c
        PROVE  task'[u].command = c
    BY <1>0, <2>1, <2>4 DEF Written
  <2> QED  BY <1>0, <2>1, <2>2, <2>3, <2>4 DEF Written
<1>8. ASSUME NEW t \in Tasks, Advance(t) PROVE Written(c)'
  <2>1. /\ UNCHANGED <<answers, flash, ring>>
        /\ \A u \in Tasks \ {t} : task'[u] = task[u]
        /\ task[t].pc = "advance" /\ task'[t].pc = "saveRing"
        /\ task'[t].command = task[t].command /\ task'[t].status = task[t].status
    BY <1>8, AdvanceDoes
  <2> QED  BY <1>0, <2>1 DEF Written, Answering, Writing
<1>9. ASSUME NEW t \in Tasks, SaveRing(t) PROVE Written(c)'
  <2>1. /\ UNCHANGED <<answers, ring>> /\ flash'.ring = ring
        /\ \A u \in Tasks \ {t} : task'[u] = task[u]
        /\ task[t].pc = "saveRing" /\ task'[t].pc = "saveIndex"
        /\ task'[t].command = task[t].command /\ task'[t].status = task[t].status
    BY <1>9, SaveRingDoes
  <2>2. ASSUME NEW s \in Slots, ring[s].command = c
        PROVE  ring[s].status # "unwritten"
    <3> SUFFICES ASSUME ring[s].status = "unwritten" PROVE FALSE
      OBVIOUS
    <3>1. PICK u \in Tasks : task[u].pc = "fill" /\ task[u].command = c
      BY <1>0, <2>2 DEF Written
    <3>2. u # t /\ task[t].pc \notin Writing
      BY <1>0, <2>1, <3>1 DEF WriteInv, Writing
    <3> QED  BY <2>1, <3>2 DEF Writing
  <2> QED  BY <1>0, <2>1, <2>2 DEF Written, Answering, Writing
<1>10. ASSUME NEW t \in Tasks, SaveIndex(t) PROVE Written(c)'
  <2>1. /\ UNCHANGED <<answers, ring>> /\ flash'.ring = flash.ring
        /\ \A u \in Tasks \ {t} : task'[u] = task[u]
        /\ task[t].pc = "saveIndex" /\ task'[t].pc = "idle"
    BY <1>10, SaveIndexDoes
  <2> QED  BY <1>0, <2>1 DEF Written, Answering, Writing
<1>11. CASE Restart
  <2>1. /\ \A t \in Tasks : task'[t].pc = "idle"
        /\ ring' = flash.ring /\ UNCHANGED <<flash, answers>>
    BY <1>11, RestartDoes
  <2> QED  BY <1>0, <2>1 DEF Written, Answering, Writing
<1>12. CASE UNCHANGED vars \/ \E d \in Commands : Expire(d)
  <2>1. UNCHANGED <<task, ring, flash, answers>>
    BY <1>12, ExpireDoes DEF vars
  <2> QED  BY <1>0, <2>1 DEF Written, Answering
<1> QED
  BY <1>1, <1>2, <1>3, <1>4, <1>5, <1>6, <1>7, <1>8, <1>9, <1>10, <1>11, <1>12
     DEF Next, MqttStep, ActuatorStep, Answer, Tasks

(* A step that adds nothing to what is said of a command, and does not take *)
(* its answer out of hand before it is among the last recorded.            *)
LEMMA OnceKept ==
  ASSUME NEW c \in Commands, Once(c), executions'[c] = executions[c],
         Waiting(c)' => Waiting(c),
         \A a \in Outcomes : Says(c, a)' => Says(c, a),
         c \in Range(recent) => c \in Range(recent'),
         \A t \in Tasks : Answering(t, c) =>
           c \in Range(recent') \/ \E u \in Tasks : Answering(u, c)'
  PROVE  Once(c)'
BY DEF Once

LEMMA OnceStep ==
  AnswerInv /\ [Next]_vars => OnceInv'
<1> SUFFICES ASSUME TypeOK, HandInv, WriteInv, RingInv, HandOnce, WrittenInv,
                    OnceInv, [Next]_vars, NEW c \in Commands, Clean(c)'
             PROVE  Once(c)'
  BY DEF AnswerInv, OnceInv
<1>0. /\ Clean(c) /\ Once(c) /\ Written(c)
      /\ index \in Slots /\ \A t \in Tasks : task[t].slot \in Slots
      /\ queue \in Seq(Commands) /\ executions[c] \in Nat
  BY CleanBefore DEF WrittenInv, OnceInv, TypeOK, Task
<1>1. ASSUME NEW d \in Commands, Deliver(d) PROVE Once(c)'
  <2>1. /\ UNCHANGED <<ring, flash, queue, executions, answers, recent>>
        /\ task["mqtt"].pc = "idle" /\ task'["mqtt"].command = d
        /\ task'["actuator"] = task["actuator"]
    BY <1>1, DeliverDoes
  <2>2. \A t \in Tasks : Answering(t, c) => Answering(t, c)'
    BY <2>1 DEF Answering, Writing, Tasks
  <2>3. CASE d # c
    <3>1. Waiting(c)' => Waiting(c)
      BY <2>1, <2>3 DEF Waiting
    <3>2. \A a \in Outcomes : Says(c, a)' => Says(c, a)
      BY <2>1, <2>3 DEF Says, Answering, Tasks
    <3> QED  BY <1>0, <2>1, <2>2, <3>1, <3>2, OnceKept
  <2>4. CASE d = c
    <3>0. c \notin Range(queue) /\ \A t \in Tasks : ~Holds(t, c)
      BY <1>1, <2>4, DeliverDoes DEF Clean
    <3>1. CASE /\ task'["mqtt"].pc = "publish"
               /\ \/ task'["mqtt"].status = "refused"
                  \/ \E s \in Slots : /\ ring[s].command = c
                                      /\ task'["mqtt"].status = ring[s].status
      <4>1. ~Waiting(c)'
        BY <2>1, <3>0, <3>1 DEF Waiting, Holds, Tasks
      <4>2. ASSUME NEW a \in Outcomes, Answering("mqtt", c)', task'["mqtt"].status = a
            PROVE  Says(c, a)
        BY <3>1, <4>2 DEF Says, Outcomes
      <4>3. \A a \in Outcomes : Says(c, a)' => Says(c, a)
        BY <2>1, <4>2 DEF Says, Answering, Tasks
      <4> QED  BY <1>0, <2>1, <2>2, <4>1, <4>3, OnceKept
    <3>2. CASE task'["mqtt"].pc = "enqueue" /\ \A s \in Slots : ring[s].command # c
      <4>1. \A t \in Tasks : ~Answering(t, c)
        BY <3>0 DEF Answering, Holds, Writing
      <4>2. c \notin Range(recent)
        <5>1. ~IsWriting(c)
          BY <3>0 DEF IsWriting, Holds, Writing
        <5> QED  BY <1>0, <3>2, <5>1 DEF RingInv, Safe, Range
      <4>3. executions[c] = 0 /\ \A a \in Outcomes : ~Says(c, a)
        BY <1>0, <4>1, <4>2 DEF Once
      <4>4. \A t \in Tasks : ~Answering(t, c)'
        BY <2>1, <3>2, <4>1 DEF Answering, Writing, Tasks
      <4>5. \A a \in Outcomes : ~Says(c, a)'
        BY <2>1, <4>3, <4>4 DEF Says
      <4> QED  BY <2>1, <4>3, <4>5 DEF Once
    <3> QED  BY <1>1, <2>4, <3>1, <3>2, DeliverDoes
  <2> QED  BY <2>3, <2>4
<1>2. CASE Enqueue
  <2> DEFINE m == task["mqtt"].command
  <2>1. /\ UNCHANGED <<ring, flash, executions, answers, recent>>
        /\ task["mqtt"].pc = "enqueue" /\ m \in Commands
        /\ task'["mqtt"].pc = "publish" /\ task'["mqtt"].command = m
        /\ task'["actuator"] = task["actuator"]
        /\ \/ task'["mqtt"].status = "accepted" /\ queue' = Append(queue, m)
           \/ task'["mqtt"].status = "rejected" /\ queue' = queue
    BY <1>2, EnqueueDoes
  <2>2. \A t \in Tasks : Answering(t, c) => Answering(t, c)'
    BY <2>1 DEF Answering, Writing, Tasks
  <2>3. CASE m # c \/ task'["mqtt"].status = "accepted"
    <3>1. Range(queue') \subseteq Range(queue) \cup {m}
      <4>1. Range(Append(queue, m)) = Range(queue) \cup {m}
        BY <1>0, QueueRange
      <4> QED  BY <2>1, <4>1
    <3>2. Waiting(c)' => Waiting(c)
      BY <2>1, <3>1 DEF Waiting
    <3>3. \A a \in Outcomes : Says(c, a)' => Says(c, a)
      BY <2>1, <2>3 DEF Says, Answering, Tasks
    <3> QED  BY <1>0, <2>1, <2>2, <3>2, <3>3, OnceKept
  <2>4. CASE m = c /\ task'["mqtt"].status = "rejected" /\ queue' = queue
    <3>1. Waiting(c) /\ Holds("mqtt", c) /\ ~Pending(c)
      BY <2>1, <2>4 DEF Waiting, Holds, Pending
    <3>2. c \notin Range(queue) /\ ~Holds("actuator", c)
      BY <1>0, <3>1 DEF HandOnce
    <3>3. executions[c] = 0 /\ \A a \in Outcomes : ~Says(c, a)
      BY <1>0, <3>1 DEF Once
    <3>4. ~Waiting(c)'
      BY <2>1, <2>4, <3>2 DEF Waiting, Holds
    <3>5. \A a \in Outcomes : Says(c, a)' => a = "rejected"
      BY <2>1, <2>4, <3>3 DEF Says, Answering, Tasks
    <3>6. Answering("mqtt", c)'
      BY <2>1, <2>4 DEF Answering
    <3>7. /\ executions'[c] <= 1
          /\ \E t \in Tasks : Answering(t, c)'
      BY <2>1, <3>3, <3>6 DEF Tasks
    <3> QED  BY <3>4, <3>5, <3>7 DEF Once
  <2> QED  BY <2>1, <2>3, <2>4
<1>3. CASE Receive
  <2>1. /\ UNCHANGED <<ring, flash, executions, answers, recent>>
        /\ task["actuator"].pc = "idle" /\ task'["actuator"].pc = "apply"
        /\ task'["actuator"].command = Head(queue)
        /\ task'["mqtt"] = task["mqtt"]
        /\ queue # <<>> /\ queue' = Tail(queue)
    BY <1>3, ReceiveDoes
  <2>2. Head(queue) \in Range(queue) /\ Range(queue') \subseteq Range(queue)
    BY <1>0, <2>1, QueueRange
  <2>3. Waiting(c)' => Waiting(c)
    BY <2>1, <2>2 DEF Waiting
  <2>4. /\ \A a \in Outcomes : Says(c, a)' => Says(c, a)
        /\ \A t \in Tasks : Answering(t, c) => Answering(t, c)'
    BY <2>1 DEF Says, Answering, Writing, Tasks
  <2> QED  BY <1>0, <2>1, <2>3, <2>4, OnceKept
<1>4. CASE Apply
  <2> DEFINE m == task["actuator"].command
  <2>1. /\ UNCHANGED <<ring, flash, queue, answers, recent>>
        /\ task["actuator"].pc = "apply" /\ task'["actuator"].pc = "publish"
        /\ task'["actuator"].command = m /\ m \in Commands
        /\ task'["actuator"].status \in Outcomes
        /\ task'["mqtt"] = task["mqtt"]
        /\ executions'[m] \in {executions[m], executions[m] + 1}
        /\ \A d \in Commands : d # m => executions'[d] = executions[d]
    BY <1>4, ApplyDoes
  <2>2. CASE m # c
    <3>1. Waiting(c)' => Waiting(c)
      BY <2>1 DEF Waiting
    <3>2. /\ \A a \in Outcomes : Says(c, a)' => Says(c, a)
          /\ \A t \in Tasks : Answering(t, c) => Answering(t, c)'
      BY <2>1, <2>2 DEF Says, Answering, Writing, Tasks
    <3> QED  BY <1>0, <2>1, <2>2, <3>1, <3>2, OnceKept
  <2>3. CASE m = c
    <3>1. Waiting(c) /\ Holds("actuator", c)
      BY <2>1, <2>3 DEF Waiting, Holds
    <3>2. c \notin Range(queue) /\ (~Holds("mqtt", c) \/ Pending(c))
      BY <1>0, <3>1 DEF HandOnce
    <3>3. executions[c] = 0 /\ \A a \in Outcomes : ~Says(c, a)
      BY <1>0, <3>1 DEF Once
    <3>4. ~Waiting(c)'
      BY <2>1, <3>2 DEF Waiting, Holds, Pending
    <3>5. \A a \in Outcomes : Says(c, a)' => a = task'["actuator"].status
      BY <2>1, <3>3 DEF Says, Answering, Tasks
    <3>6. Answering("actuator", c)'
      BY <2>1, <2>3 DEF Answering, Outcomes
    <3>7. /\ executions'[c] <= 1
          /\ \E t \in Tasks : Answering(t, c)'
      BY <2>1, <2>3, <3>3, <3>6 DEF Tasks
    <3> QED  BY <3>4, <3>5, <3>7 DEF Once
  <2> QED  BY <2>2, <2>3
<1>5. ASSUME NEW t \in Tasks, Publish(t) PROVE Once(c)'
  <2> DEFINE m == task[t].command
  <2>1. /\ UNCHANGED <<ring, flash, queue, executions, recent>>
        /\ \A u \in Tasks \ {t} : task'[u] = task[u]
        /\ task[t].pc = "publish"
    BY <1>5, PublishDoes
  <2>2. CASE m \in lost' /\ task'[t].pc = "idle" /\ answers' = answers
    <3>1. m # c
      BY <2>2 DEF Clean
    <3>2. Waiting(c)' => Waiting(c)
      BY <2>1, <2>2 DEF Waiting, Tasks
    <3>3. /\ \A a \in Outcomes : Says(c, a)' => Says(c, a)
          /\ \A u \in Tasks : Answering(u, c) => Answering(u, c)'
      BY <2>1, <2>2, <3>1 DEF Says, Answering, Writing
    <3> QED  BY <1>0, <2>1, <3>2, <3>3, OnceKept
  <2>3. CASE /\ m \in Commands /\ answers'[m] = answers[m] \cup {task[t].status}
             /\ \A d \in Commands : d # m => answers'[d] = answers[d]
             /\ \/ task[t].status = "accepted" /\ task'[t].pc = "idle"
                \/ /\ task[t].status # "accepted"
                   /\ task'[t].pc = "record" /\ task'[t].command = m
                   /\ task'[t].status = task[t].status
    <3>1. Waiting(c)' => Waiting(c)
      BY <2>1, <2>3 DEF Waiting, Tasks
    <3>2. \A u \in Tasks : Answering(u, c) => Answering(u, c)'
      BY <2>1, <2>3 DEF Answering, Writing
    <3>3. ASSUME NEW a \in Outcomes, a \in answers'[c] PROVE Says(c, a)
      BY <2>1, <2>3, <3>3 DEF Says, Answering, Outcomes
    <3>4. \A u \in Tasks : Answering(u, c)' =>
            Answering(u, c) /\ task'[u].status = task[u].status
      BY <2>1, <2>3 DEF Answering, Writing
    <3>5. \A a \in Outcomes : Says(c, a)' => Says(c, a)
      BY <2>1, <3>3, <3>4 DEF Says
    <3> QED  BY <1>0, <2>1, <3>1, <3>2, <3>5, OnceKept
  <2> QED  BY <1>5, <2>2, <2>3, PublishDoes
<1>6. ASSUME NEW t \in Tasks, Record(t) PROVE Once(c)'
  <2>1. /\ UNCHANGED <<flash, queue, executions, answers>>
        /\ \A u \in Tasks \ {t} : task'[u] = task[u]
        /\ task[t].pc = "record" /\ task'[t].pc = "fill"
        /\ task'[t].command = task[t].command /\ task'[t].status = task[t].status
        /\ ring'[index].status = "unwritten"
        /\ \A s \in Slots \ {index} : ring'[s] = ring[s]
        /\ c \in Range(recent) => c \in Range(recent') \/ c \in overlapped'
    BY <1>6, RecordDoes
  <2>2. c \in Range(recent) => c \in Range(recent')
    BY <2>1 DEF Clean
  <2>3. Waiting(c)' => Waiting(c)
    BY <2>1 DEF Waiting, Tasks
  <2>4. \A u \in Tasks : /\ Answering(u, c)' <=> Answering(u, c)
                         /\ task'[u].status = task[u].status
    BY <2>1 DEF Answering, Writing
  <2>5. \A a \in Outcomes : Says(c, a)' => Says(c, a)
    BY <2>1, <2>4 DEF Says, Outcomes
  <2> QED  BY <1>0, <2>1, <2>2, <2>3, <2>4, <2>5, OnceKept
<1>7. ASSUME NEW t \in Tasks, Fill(t) PROVE Once(c)'
  <2>1. /\ UNCHANGED <<flash, queue, executions, answers, recent>>
        /\ \A u \in Tasks \ {t} : task'[u] = task[u]
        /\ task[t].pc = "fill" /\ task'[t].pc = "advance"
        /\ task'[t].command = task[t].command /\ task'[t].status = task[t].status
        /\ \A s \in Slots : ring'[s].command = ring[s].command
        /\ ring'[task[t].slot].status = task[t].status
        /\ \A s \in Slots \ {task[t].slot} : ring'[s] = ring[s]
    BY <1>7, FillDoes
  <2>2. Waiting(c)' => Waiting(c)
    BY <2>1 DEF Waiting, Tasks
  <2>3. \A u \in Tasks : /\ Answering(u, c)' <=> Answering(u, c)
                         /\ task'[u].status = task[u].status
    BY <2>1 DEF Answering, Writing
  <2>4. ASSUME NEW a \in Outcomes, NEW s \in Slots,
               ring'[s].command = c, ring'[s].status = a
        PROVE  Says(c, a)
    <3>1. CASE s = task[t].slot
      <4>1. task[t].command = c /\ task[t].status = a
        BY <1>0, <2>1, <2>4, <3>1 DEF Written
      <4> QED  BY <2>1, <4>1 DEF Says, Answering, Writing, Outcomes
    <3>2. CASE s # task[t].slot
      BY <2>1, <2>4, <3>2 DEF Says
    <3> QED  BY <3>1, <3>2
  <2>5. \A a \in Outcomes : Says(c, a)' => Says(c, a)
    BY <2>1, <2>3, <2>4 DEF Says
  <2> QED  BY <1>0, <2>1, <2>2, <2>3, <2>5, OnceKept
<1>8. ASSUME NEW t \in Tasks, Advance(t) \/ SaveRing(t) PROVE Once(c)'
  <2>1. /\ UNCHANGED <<ring, queue, executions, answers, recent>>
        /\ flash'.ring \in {flash.ring, ring}
        /\ \A u \in Tasks \ {t} : task'[u] = task[u]
        /\ task[t].pc \in Writing /\ task'[t].pc \in Writing
        /\ task'[t].command = task[t].command /\ task'[t].status = task[t].status
    BY <1>8, AdvanceDoes, SaveRingDoes DEF Writing
  <2>2. Waiting(c)' => Waiting(c)
    BY <2>1 DEF Waiting, Writing, Tasks
  <2>3. \A u \in Tasks : /\ Answering(u, c)' <=> Answering(u, c)
                         /\ task'[u].status = task[u].status
    BY <2>1 DEF Answering
  <2>4. \A a \in Outcomes : Says(c, a)' => Says(c, a)
    BY <2>1, <2>3 DEF Says
  <2> QED  BY <1>0, <2>1, <2>2, <2>3, <2>4, OnceKept
<1>9. ASSUME NEW t \in Tasks, SaveIndex(t) PROVE Once(c)'
  <2>1. /\ UNCHANGED <<ring, queue, executions, answers, recent>>
        /\ flash'.ring = flash.ring
        /\ \A u \in Tasks \ {t} : task'[u] = task[u]
        /\ task[t].pc = "saveIndex" /\ task'[t].pc = "idle"
    BY <1>9, SaveIndexDoes
  <2>2. Waiting(c)' => Waiting(c)
    BY <2>1 DEF Waiting, Tasks
  <2>3. \A a \in Outcomes : Says(c, a)' => Says(c, a)
    BY <2>1 DEF Says, Answering, Writing
  <2>4. ASSUME task[t].command = c PROVE c \in Range(recent)
    <3>1. recent # <<>> /\ recent[Len(recent)] = c
      BY <1>0, <2>1, <2>4 DEF WriteInv, Writing
    <3>2. recent \in Seq(Commands)
      BY DEF TypeOK
    <3>3. Len(recent) \in DOMAIN recent
      BY <3>1, <3>2
    <3> QED  BY <3>1, <3>3 DEF Range
  <2>5. ASSUME NEW u \in Tasks, Answering(u, c)
        PROVE  c \in Range(recent') \/ \E v \in Tasks : Answering(v, c)'
    <3>1. CASE u = t
      BY <2>1, <2>4, <2>5, <3>1 DEF Answering
    <3>2. CASE u # t
      <4>1. Answering(u, c)'
        BY <2>1, <2>5, <3>2 DEF Answering
      <4> QED  BY <4>1
    <3> QED  BY <3>1, <3>2
  <2> QED  BY <1>0, <2>1, <2>2, <2>3, <2>5, OnceKept
<1>10. CASE Restart
  <2>1. /\ \A t \in Tasks : task'[t].pc = "idle"
        /\ queue' = <<>> /\ ring' = flash.ring /\ lost' = lost \cup InHand
        /\ UNCHANGED <<flash, executions, answers, recent>>
    BY <1>10, RestartDoes
  <2>2. \A t \in Tasks : ~Answering(t, c)
    BY <2>1 DEF Clean, InHand, Answering, Writing
  <2>3. ~Waiting(c)'
    BY <2>1 DEF Waiting, Range, Tasks
  <2>4. \A a \in Outcomes : Says(c, a)' => Says(c, a)
    BY <2>1 DEF Says, Answering, Writing
  <2> QED  BY <1>0, <2>1, <2>2, <2>3, <2>4, OnceKept
<1>11. CASE UNCHANGED vars \/ \E d \in Commands : Expire(d)
  <2>1. UNCHANGED <<task, queue, ring, flash, executions, answers, recent>>
    BY <1>11, ExpireDoes DEF vars
  <2>2. /\ Waiting(c)' => Waiting(c)
        /\ \A a \in Outcomes : Says(c, a)' => Says(c, a)
        /\ \A t \in Tasks : Answering(t, c) => Answering(t, c)'
    BY <2>1 DEF Waiting, Says, Answering
  <2> QED  BY <1>0, <2>1, <2>2, OnceKept
<1> QED
  BY <1>1, <1>2, <1>3, <1>4, <1>5, <1>6, <1>7, <1>8, <1>9, <1>10, <1>11
     DEF Next, MqttStep, ActuatorStep, Answer, Tasks

(* Initially nothing is in hand, recorded or answered.                     *)
LEMMA InitAnswer == Init => AnswerInv
<1> SUFFICES ASSUME Init PROVE AnswerInv
  OBVIOUS
<1>1. TypeOK /\ HandInv
  BY InitTyped
<1>2. /\ \A t \in Tasks : task[t].pc = "idle"
      /\ queue = <<>> /\ recent = <<>>
      /\ \A s \in Slots : ring[s] = NoAck /\ flash.ring[s] = NoAck
      /\ \A c \in Commands : executions[c] = 0 /\ answers[c] = {}
  BY DEF Init, IdleTask
<1>3. WriteInv /\ RingInv
  BY <1>2 DEF WriteInv, RingInv, Writing
<1>4. HandOnce
  BY <1>2 DEF HandOnce, Holds, Tasks, Range
<1>5. \A c \in Commands : NoAck.command # c
  BY ConstantsAssumption DEF NoAck
<1>6. WrittenInv
  BY <1>2, <1>5 DEF WrittenInv, Written, Answering, Writing
<1>7. \A c \in Commands : \A a \in Outcomes : ~Says(c, a)
  BY <1>2, <1>5 DEF Says, Answering, Writing
<1>8. OnceInv
  BY <1>2, <1>7 DEF OnceInv, Once
<1> QED  BY <1>1, <1>3, <1>4, <1>6, <1>8 DEF AnswerInv

LEMMA AnswerStep == AnswerInv /\ [Next]_vars => AnswerInv'
BY NextTyped, WriteStep, RingStep, HandStep, WrittenStep, OnceStep DEF AnswerInv

(* A command drives the hardware once for every size of the ring and of    *)
(* the queue, any redelivery and any restart, but for those ExecutedOnce    *)
(* names: load_recent_acks finds in flash what find_recent_ack will look    *)
(* for, whatever the index that a restart goes back to.                    *)
THEOREM CommandsExecuteOnce == Spec => []ExecutedOnce
<1>1. AnswerInv => ExecutedOnce
  BY DEF AnswerInv, OnceInv, Once, Clean, ExecutedOnce
<1> QED  BY <1>1, InitAnswer, AnswerStep, PTL DEF Spec

(* Under the same conditions the terminal ACKs of a command agree, for      *)
(* every size of the ring: what remember_terminal_ack has begun to write is *)
(* never sent as an answer.                                                *)
THEOREM AnswersStand == Spec => []AnswersAgree
<1>1. ASSUME AnswerInv PROVE AnswersAgree
  <2> SUFFICES ASSUME NEW c \in Commands \ (lost \cup overlapped),
                      NEW first \in answers[c] \ {"accepted", "refused"},
                      NEW second \in answers[c] \ {"accepted", "refused"}
               PROVE  first = second
    BY DEF AnswersAgree
  <2>1. Once(c) /\ Written(c) /\ answers[c] \subseteq AckStatus \cup {"accepted"}
    BY <1>1 DEF AnswerInv, OnceInv, WrittenInv, Clean, TypeOK
  <2>2. first \in Outcomes /\ second \in Outcomes
    BY <2>1 DEF Written, AckStatus
  <2>3. Says(c, first) /\ Says(c, second)
    BY DEF Says
  <2> QED  BY <2>1, <2>2, <2>3 DEF Once
<1> QED  BY <1>1, InitAnswer, AnswerStep, PTL DEF Spec
=============================================================================
