------------------------- MODULE CommandOutboxProofs -------------------------
(***************************************************************************)
(* Proofs about CommandOutbox, for every number of commands and gateways:  *)
(* its type invariant, that a queued command keeps an outbox row that will *)
(* be sent and that only overtaken transactions take a status back,        *)
(* whatever transactions overlap, and that the outbox implements leased    *)
(* work when they do not.                                                  *)
(***************************************************************************)
EXTENDS CommandOutbox, TLAPS

(* A dispatcher that records has a row, and so has an open record.         *)
HandInv ==
  \A g \in Gateways :
    /\ gateway[g].pc = "record" => gateway[g].current \in Commands
    /\ txn[g].op = "record" => gateway[g].pc = "record"

TypeInv == TypeOK /\ HandInv

(* Rows, batches and decisions are about commands that were created.       *)
Created == {c \in Commands : command[c].status # "absent"}

CreatedInv ==
  /\ \A c \in Commands : outbox[c].status # "absent" => c \in Created
  /\ \A g \in Gateways :
       /\ gateway[g].batch \subseteq Created
       /\ gateway[g].pc = "record" => gateway[g].current \in Created
       /\ txn[g].expiring \subseteq Created

(* An expiry cancels only rows of commands it expires; a record that takes  *)
(* a row out of the queue takes the command along, unless the command is   *)
(* not queued any more.                                                    *)
OpenInv ==
  \A g \in Gateways :
    /\ txn[g].cancelled \subseteq txn[g].expiring
    /\ txn[g].op = "record" =>
         /\ txn[g].status \in {"absent", "published", "failed"}
         /\ \/ txn[g].message = "retry"
            \/ txn[g].status # "absent"
            \/ command[gateway[g].current].status # "queued"

QueueInv == TypeInv /\ CreatedInv /\ OpenInv /\ QueuedIsInOutbox

-----------------------------------------------------------------------------
(* The types *)

LEMMA InitType == Init => TypeInv
BY ConstantsAssumption
   DEF Init, TypeInv, TypeOK, HandInv, Looping, NoTxn, NoAck, Command,
       Message, Dispatch, Txn, CommandStatus, OutboxStatus, Age

LEMMA LoopingType == Looping \in Dispatch /\ NoTxn \in Txn
BY DEF Looping, Dispatch, NoTxn, Txn, OutboxStatus, CommandStatus

(* The rows that a claim, a record and an ACK write.                       *)
LEMMA RowTypes ==
  /\ \A row \in Message, g \in Gateways, token \in Nat :
       [row EXCEPT !.status = "publishing", !.owner = g, !.token = token,
                   !.lease = "recent"] \in Message
  /\ \A row \in Command, record \in Txn : Recorded(row, record) \in Command
  /\ \A row \in Command, m \in AckTxn : Answered(row, m) \in Command
<1>1. ASSUME NEW row \in Message, NEW g \in Gateways, NEW token \in Nat
      PROVE  [row EXCEPT !.status = "publishing", !.owner = g, !.token = token,
                         !.lease = "recent"] \in Message
  BY DEF Message, OutboxStatus, Age
<1>2. ASSUME NEW row \in Command, NEW record \in Txn
      PROVE  Recorded(row, record) \in Command
  <2>1. record.status \in CommandStatus
    BY DEF Txn
  <2> QED  BY <2>1 DEF Recorded, Command, Age
<1>3. ASSUME NEW row \in Command, NEW m \in AckTxn
      PROVE  Answered(row, m) \in Command
  <2>1. m.status \in CommandStatus
    BY DEF AckTxn, CommandStatus, TERMINAL_COMMAND_STATUSES
  <2> QED  BY <2>1 DEF Answered, Command, Age
<1> QED  BY <1>1, <1>2, <1>3

LEMMA TriedType ==
  ASSUME NEW message \in Message, NEW record \in Txn, NEW token \in Nat
  PROVE  Tried(message, record, token) \in Message
<1>1. record.message \in OutboxStatus /\ record.attempts \in Nat
  BY DEF Txn
<1> QED  BY <1>1 DEF Tried, Message, Age

(* The deadlines and the creation touch columns of their own.              *)
LEMMA ClockType ==
  ASSUME TypeInv, NEW c \in Commands, Create(c) \/ Clock(c)
  PROVE  TypeInv'
<1> USE DEF TypeInv, TypeOK, HandInv
<1>1. CASE Create(c)
  <2>1. [command[c] EXCEPT !.status = "queued"] \in Command
    BY DEF Command, CommandStatus
  <2>2. [outbox[c] EXCEPT !.status = "pending"] \in Message
    <3>1. \A row \in Message : [row EXCEPT !.status = "pending"] \in Message
      BY DEF Message, OutboxStatus
    <3> QED  BY <3>1
  <2> QED  BY <1>1, <2>1, <2>2 DEF Create
<1>2. CASE TtlPasses(c)
  BY <1>2 DEF TtlPasses, Command
<1>3. CASE AckTimeoutPasses(c)
  <2>1. /\ [command[c] EXCEPT !.published = "old"] \in Command
        /\ [command[c] EXCEPT !.accepted = "old"] \in Command
    BY DEF Command, Age
  <2>2. command' \in [Commands -> Command]
    BY <1>3, <2>1 DEF AckTimeoutPasses
  <2> QED  BY <1>3, <2>2 DEF AckTimeoutPasses
<1>4. CASE RetryDue(c)
  BY <1>4 DEF RetryDue, Message
<1>5. CASE LeaseExpires(c)
  <2>1. interrupts' \in 0..MaxInterrupts
    BY <1>5, ConstantsAssumption DEF LeaseExpires
  <2>2. outbox' \in [Commands -> Message]
    BY <1>5 DEF LeaseExpires, Message, Age
  <2> QED  BY <1>5, <2>1, <2>2 DEF LeaseExpires
<1> QED  BY <1>1, <1>2, <1>3, <1>4, <1>5 DEF Clock

LEMMA DispatcherType ==
  ASSUME TypeInv, NEW g \in Gateways, DispatcherStep(g) \/ Interrupt(g)
  PROVE  TypeInv'
<1> USE DEF TypeInv, TypeOK, HandInv
<1>1. CASE BeginExpire(g)
  <2>0. Statuses \in [Commands -> CommandStatus]
    BY DEF Statuses, Command
  <2>1. txn' \in [Gateways -> Txn]
    BY <1>1, <2>0, LoopingType DEF BeginExpire, Txn, NoTxn
  <2>2. \A h \in Gateways : txn'[h].op = "record" => txn[h].op = "record"
    BY <1>1 DEF BeginExpire, NoTxn
  <2> QED  BY <1>1, <2>1, <2>2 DEF BeginExpire
<1>2. CASE CommitExpire(g)
  <2>1. command' \in [Commands -> Command]
    BY <1>2 DEF CommitExpire, Command, CommandStatus, TERMINAL_COMMAND_STATUSES
  <2>2. outbox' \in [Commands -> Message]
    <3>1. \A row \in Message : Cancelled(row) \in Message
      BY DEF Cancelled, Message, OutboxStatus
    <3> QED  BY <1>2, <3>1 DEF CommitExpire
  <2>3. /\ txn' \in [Gateways -> Txn] /\ gateway' \in [Gateways -> Dispatch]
        /\ HandInv'
    BY <1>2, LoopingType DEF CommitExpire, Dispatch, NoTxn
  <2> QED  BY <1>2, <2>1, <2>2, <2>3 DEF CommitExpire
<1>3. CASE Claim(g)
  <2> DEFINE batch == {c \in Commands : Claimable(c)}
  <2>1. CASE batch = {}
    <3>1. /\ gateway' = [gateway EXCEPT ![g] = Looping]
          /\ UNCHANGED <<command, outbox, nextToken, txn, ackTxn, downlink,
                         interrupts>>
          /\ gateway[g].pc = "claim"
      BY <1>3, <2>1 DEF Claim
    <3> QED  BY <3>1, LoopingType DEF Looping
  <2>2. CASE batch # {}
    <3>1. /\ outbox' = [c \in Commands |->
               IF c \in batch
               THEN [outbox[c] EXCEPT !.status = "publishing", !.owner = g,
                                      !.token = nextToken, !.lease = "recent"]
               ELSE outbox[c]]
          /\ gateway' = [gateway EXCEPT ![g] =
               [Looping EXCEPT !.pc = "publish", !.batch = batch,
                               !.token = nextToken]]
          /\ nextToken' = nextToken + 1
          /\ UNCHANGED <<command, txn, ackTxn, downlink, interrupts>>
      BY <1>3, <2>2 DEF Claim
    <3>2. outbox' \in [Commands -> Message]
      BY <3>1, RowTypes
    <3>3. gateway' \in [Gateways -> Dispatch]
      BY <3>1 DEF Dispatch, Looping
    <3>4. HandInv'
      <4>1. gateway[g].pc = "claim"
        BY <1>3 DEF Claim
      <4> QED  BY <3>1, <4>1 DEF Looping
    <3>5. nextToken' \in Nat \ {0}
      <4>1. \A n \in Nat \ {0} : n + 1 \in Nat \ {0}
        OBVIOUS
      <4> QED  BY <3>1, <4>1
    <3> HIDE DEF batch
    <3> QED  BY <3>1, <3>2, <3>3, <3>4, <3>5
  <2> QED  BY <2>1, <2>2
<1>4. ASSUME NEW c \in Commands, Publish(g, c) PROVE TypeInv'
  BY <1>4 DEF Publish, Dispatch
<1>5. CASE BeginRecord(g)
  <2> DEFINE c == gateway[g].current
             attempts == outbox[c].attempts + 1
             record ==
               [NoTxn EXCEPT !.op = "record", !.read = Statuses, !.attempts = attempts,
                  !.message = IF gateway[g].ok THEN "published"
                              ELSE IF Exhausted(attempts) THEN "failed" ELSE "retry",
                  !.status = IF gateway[g].ok
                             THEN IF command[c].status = "queued" THEN "published"
                                  ELSE "absent"
                             ELSE IF Exhausted(attempts) THEN "failed" ELSE "absent"]
  <2>1. CASE Fenced(g, outbox[c])
    <3>1. /\ txn' = [txn EXCEPT ![g] = record]
          /\ UNCHANGED <<gateway, command, outbox, nextToken, ackTxn, downlink,
                         interrupts>>
      BY <1>5, <2>1 DEF BeginRecord
    <3>2. c \in Commands /\ attempts \in Nat
      BY <1>5 DEF BeginRecord, Message
    <3>0. Statuses \in [Commands -> CommandStatus]
      BY DEF Statuses, Command
    <3>3. record \in Txn
      BY <3>0, <3>2 DEF Txn, NoTxn, OutboxStatus, CommandStatus,
                  TERMINAL_COMMAND_STATUSES, Reported
    <3>4. txn' \in [Gateways -> Txn] /\ HandInv'
      BY <1>5, <3>1, <3>3 DEF BeginRecord
    <3> QED  BY <3>1, <3>4
  <2>2. CASE ~Fenced(g, outbox[c])
    <3>1. /\ gateway' = [gateway EXCEPT ![g] = NextRow(@)]
          /\ UNCHANGED <<command, outbox, nextToken, txn, ackTxn, downlink,
                         interrupts>>
          /\ txn[g] = NoTxn
      BY <1>5, <2>2 DEF BeginRecord
    <3>2. NextRow(gateway[g]) \in Dispatch /\ NextRow(gateway[g]).pc # "record"
      BY LoopingType DEF NextRow, Dispatch, Looping
    <3> QED  BY <3>1, <3>2 DEF NoTxn
  <2> QED  BY <2>1, <2>2
<1>6. CASE CommitRecord(g)
  <2> DEFINE c == gateway[g].current
  <2>0. /\ command' = [command EXCEPT ![c] = Recorded(command[c], txn[g])]
        /\ outbox' = [outbox EXCEPT ![c] =
                        Tried(outbox[c], txn[g], gateway[g].token)]
        /\ txn' = [txn EXCEPT ![g] = NoTxn]
        /\ gateway' = [gateway EXCEPT ![g] = NextRow(gateway[g])]
        /\ UNCHANGED <<nextToken, ackTxn, downlink, interrupts>>
    BY <1>6 DEF CommitRecord
  <2>1. c \in Commands /\ txn[g] \in Txn /\ gateway[g].token \in Nat
    BY <1>6 DEF CommitRecord, Dispatch
  <2>2. command' \in [Commands -> Command]
    BY <2>0, <2>1, RowTypes
  <2>3. outbox' \in [Commands -> Message]
    BY <2>0, <2>1, TriedType
  <2>4. NextRow(gateway[g]) \in Dispatch /\ NextRow(gateway[g]).pc # "record"
    BY LoopingType DEF NextRow, Dispatch, Looping
  <2>5. /\ gateway' \in [Gateways -> Dispatch] /\ txn' \in [Gateways -> Txn]
        /\ HandInv'
    BY <2>0, <2>4, LoopingType DEF NoTxn
  <2> QED  BY <2>0, <2>2, <2>3, <2>5
<1>7. CASE Interrupt(g)
  BY <1>7, LoopingType, ConstantsAssumption DEF Interrupt, Looping, NoTxn
<1> QED  BY <1>1, <1>2, <1>3, <1>4, <1>5, <1>6, <1>7
         DEF DispatcherStep, Expire, Send, Record

LEMMA NextType == TypeInv /\ [Next]_vars => TypeInv'
<1> SUFFICES ASSUME TypeInv, [Next]_vars PROVE TypeInv'
  OBVIOUS
<1>1. ASSUME NEW m \in Ack, BeginAck(m) PROVE TypeInv'
  <2>1. [command |-> m.command, status |-> m.status, read |-> command[m.command].status]
          \in AckTxn
    BY DEF Ack, AckTxn, TypeInv, TypeOK, Command
  <2> QED  BY <1>1, <2>1 DEF BeginAck, TypeInv, TypeOK, HandInv
<1>2. CASE CommitAck
  <2>1. ackTxn \in AckTxn /\ ackTxn.command \in Commands
    BY <1>2 DEF CommitAck, TypeInv, TypeOK, AckTxn
  <2>2. Answered(command[ackTxn.command], ackTxn) \in Command
    BY <2>1, RowTypes DEF TypeInv, TypeOK
  <2> QED  BY <1>2, <2>1, <2>2 DEF CommitAck, TypeInv, TypeOK, HandInv
<1>3. CASE UNCHANGED vars
  BY <1>3 DEF vars, TypeInv, TypeOK, HandInv
<1> QED  BY <1>1, <1>2, <1>3, ClockType, DispatcherType DEF Next

(* Both tables and all that works on them keep their types, whatever       *)
(* transactions overlap and dispatches are interrupted.                    *)
THEOREM TypeCorrect == Spec => []TypeOK
<1>1. TypeInv => TypeOK
  BY DEF TypeInv
<1> QED  BY InitType, NextType, <1>1, PTL DEF Spec

-----------------------------------------------------------------------------
(* A queued command keeps a row that will be sent *)

LEMMA InitQueue == Init => QueueInv
BY InitType
   DEF Init, QueueInv, CreatedInv, Created, OpenInv, QueuedIsInOutbox, Looping, NoTxn

(* Of the application and the clock, only the creation writes a status.    *)
LEMMA CreationStatus ==
  ASSUME TypeInv, NEW d \in Commands, Create(d) \/ Clock(d), NEW c \in Commands
  PROVE  \/ command'[c].status = command[c].status
         \/ Create(c) /\ command[c].status = "absent" /\ command'[c].status = "queued"
<1>1. command \in [Commands -> Command]
  BY DEF TypeInv, TypeOK
<1>2. \A b \in Commands :
        /\ command[b] \in Command
        /\ [command[b] EXCEPT !.status = "queued"].status = "queued"
        /\ [command[b] EXCEPT !.ttlOver = TRUE].status = command[b].status
        /\ [command[b] EXCEPT !.published = "old"].status = command[b].status
        /\ [command[b] EXCEPT !.accepted = "old"].status = command[b].status
  BY <1>1 DEF Command
<1>3. CASE Create(d)
  <2>1. /\ command[d].status = "absent"
        /\ command' = [command EXCEPT ![d] = [command[d] EXCEPT !.status = "queued"]]
    BY <1>3, <1>1 DEF Create
  <2>2. command'[c] = IF c = d THEN [command[d] EXCEPT !.status = "queued"] ELSE command[c]
    BY <1>1, <2>1
  <2> QED  BY <1>2, <1>3, <2>1, <2>2
<1>4. CASE TtlPasses(d)
  BY <1>1, <1>2, <1>4 DEF TtlPasses
<1>5. CASE AckTimeoutPasses(d)
  <2>1. \/ command' = [command EXCEPT ![d] = [command[d] EXCEPT !.published = "old"]]
        \/ command' = [command EXCEPT ![d] = [command[d] EXCEPT !.accepted = "old"]]
    BY <1>5, <1>1 DEF AckTimeoutPasses
  <2> QED  BY <1>1, <1>2, <2>1
<1>6. CASE RetryDue(d) \/ LeaseExpires(d)
  BY <1>6 DEF RetryDue, LeaseExpires
<1> QED  BY <1>3, <1>4, <1>5, <1>6 DEF Clock

(* A command stays created, and only its creation queues it.               *)
LEMMA CreatedStep ==
  ASSUME TypeInv, OpenInv, [Next]_vars, NEW c \in Commands
  PROVE  /\ c \in Created => c \in Created'
         /\ command'[c].status = "queued" => command[c].status = "queued" \/ Create(c)
<1> USE DEF TypeInv, TypeOK, HandInv, Created
<1>1. ASSUME NEW d \in Commands, Create(d) \/ Clock(d)
      PROVE  \/ command'[c].status = command[c].status
             \/ Create(c) /\ command[c].status = "absent" /\ command'[c].status = "queued"
  BY <1>1, CreationStatus
<1>2. ASSUME NEW g \in Gateways, CommitExpire(g)
      PROVE  command'[c].status \in {command[c].status, "expired", "timed_out"}
  BY <1>2 DEF CommitExpire, Command
<1>3. ASSUME NEW g \in Gateways, CommitRecord(g)
      PROVE  command'[c].status \in {command[c].status, "published", "failed"}
  <2>1. command' = [command EXCEPT ![gateway[g].current] =
                      Recorded(command[gateway[g].current], txn[g])]
    BY <1>3 DEF CommitRecord
  <2>2. txn[g].status \in {"absent", "published", "failed"}
    BY <1>3 DEF CommitRecord, OpenInv
  <2>3. Recorded(command[c], txn[g]).status
          \in {command[c].status, "published", "failed"}
    BY <2>2 DEF Recorded, Command
  <2> QED  BY <2>1, <2>3
<1>4. CASE CommitAck
  <2>1. /\ command' = [command EXCEPT ![ackTxn.command] =
                          Answered(command[ackTxn.command], ackTxn)]
        /\ ackTxn.status \in {"accepted"} \cup Reported
    BY <1>4 DEF CommitAck, AckTxn
  <2>2. Answered(command[c], ackTxn).status = ackTxn.status
    BY DEF Answered, Command
  <2> QED  BY <2>1, <2>2 DEF Reported
<1>5. ASSUME NEW g \in Gateways,
             BeginExpire(g) \/ Claim(g) \/ Send(g) \/ BeginRecord(g) \/ Interrupt(g)
      PROVE  command' = command
  BY <1>5 DEF BeginExpire, Claim, Send, Publish, BeginRecord, Interrupt
<1>6. ASSUME NEW m \in Ack, BeginAck(m) PROVE command' = command
  BY <1>6 DEF BeginAck
<1>7. CASE UNCHANGED vars
  BY <1>7 DEF vars
<1> QED  BY <1>1, <1>2, <1>3, <1>4, <1>5, <1>6, <1>7
         DEF Next, DispatcherStep, Expire, Record

(* The transaction that a record opens.                                    *)
LEMMA RecordBegun ==
  ASSUME TypeInv, NEW g \in Gateways, BeginRecord(g)
  PROVE  /\ \A h \in Gateways \ {g} : txn'[h] = txn[h]
         /\ txn'[g].expiring = {} /\ txn'[g].cancelled = {}
         /\ txn'[g].op # "expire"
         /\ txn'[g].op = "record" =>
              /\ gateway' = gateway
              /\ txn'[g].status \in {"absent", "published", "failed"}
              /\ \/ txn'[g].message = "retry"
                 \/ txn'[g].status # "absent"
                 \/ command[gateway[g].current].status # "queued"
<1> USE DEF TypeInv, TypeOK, HandInv
<1> DEFINE c == gateway[g].current
           attempts == outbox[c].attempts + 1
           record ==
             [NoTxn EXCEPT !.op = "record", !.read = Statuses, !.attempts = attempts,
                !.message = IF gateway[g].ok THEN "published"
                            ELSE IF Exhausted(attempts) THEN "failed" ELSE "retry",
                !.status = IF gateway[g].ok
                           THEN IF command[c].status = "queued" THEN "published"
                                ELSE "absent"
                           ELSE IF Exhausted(attempts) THEN "failed" ELSE "absent"]
<1>1. CASE Fenced(g, outbox[c])
  <2>1. txn' = [txn EXCEPT ![g] = record] /\ gateway' = gateway
    BY <1>1 DEF BeginRecord
  <2>2. /\ record.expiring = {} /\ record.cancelled = {} /\ record.op = "record"
        /\ record.status \in {"absent", "published", "failed"}
        /\ \/ record.message = "retry"
           \/ record.status # "absent"
           \/ command[c].status # "queued"
    BY DEF NoTxn
  <2> HIDE DEF record
  <2> QED  BY <2>1, <2>2
<1>2. CASE ~Fenced(g, outbox[c])
  <2>1. txn' = txn /\ txn[g] = NoTxn
    BY <1>2 DEF BeginRecord
  <2> QED  BY <2>1 DEF NoTxn
<1> QED  BY <1>1, <1>2

(* The rows, batches and decisions of a step are about created commands.   *)
LEMMA CreatedPreserved ==
  ASSUME QueueInv, [Next]_vars
  PROVE  CreatedInv'
<1> USE DEF QueueInv, TypeInv, TypeOK, HandInv, CreatedInv
<1>0. Created \subseteq Created'
  <2>1. Created \subseteq Commands
    BY DEF Created
  <2> QED  BY <2>1, CreatedStep
<1>1. ASSUME NEW c \in Commands, Create(c)
      PROVE  CreatedInv'
  <2>1. /\ c \in Created'
        /\ \A d \in Commands \ {c} : outbox'[d].status = outbox[d].status
        /\ UNCHANGED <<gateway, txn>>
    BY <1>1 DEF Create, Created, Command, Message
  <2> QED  BY <1>0, <2>1
<1>2. ASSUME NEW c \in Commands, Clock(c)
      PROVE  CreatedInv'
  <2>1. /\ \A d \in Commands : outbox'[d].status = outbox[d].status
        /\ UNCHANGED <<gateway, txn>>
    BY <1>2 DEF Clock, TtlPasses, AckTimeoutPasses, RetryDue, LeaseExpires, Message
  <2> QED  BY <1>0, <2>1
<1>3. ASSUME NEW g \in Gateways, BeginExpire(g)
      PROVE  CreatedInv'
  <2>1. {c \in Commands : Expiring(c)} \subseteq Created
    BY DEF Expiring, Created
  <2>2. /\ txn'[g].expiring = {c \in Commands : Expiring(c)}
        /\ \A h \in Gateways \ {g} : txn'[h] = txn[h]
        /\ UNCHANGED <<command, outbox, gateway>>
    BY <1>3 DEF BeginExpire, Txn, NoTxn
  <2> QED  BY <1>0, <2>1, <2>2
<1>4. ASSUME NEW g \in Gateways, CommitExpire(g)
      PROVE  CreatedInv'
  <2>1. \A c \in Commands :
          outbox'[c].status = outbox[c].status \/ c \in txn[g].cancelled
    BY <1>4 DEF CommitExpire
  <2>2. txn[g].cancelled \subseteq Created
    BY DEF OpenInv
  <2>3. /\ \A h \in Gateways : /\ gateway'[h].batch = gateway[h].batch
                               /\ gateway'[h].current = gateway[h].current
                               /\ gateway'[h].pc = "record" => gateway[h].pc = "record"
        /\ \A h \in Gateways : txn'[h].expiring \subseteq txn[h].expiring
    BY <1>4 DEF CommitExpire, NoTxn, Dispatch
  <2> QED  BY <1>0, <2>1, <2>2, <2>3
<1>5. ASSUME NEW g \in Gateways, Claim(g)
      PROVE  CreatedInv'
  <2>1. \A c \in Commands : Claimable(c) => c \in Created
    BY DEF Claimable
  <2>2. \A c \in Commands : outbox'[c].status = outbox[c].status \/ Claimable(c)
    BY <1>5 DEF Claim
  <2>3. /\ gateway'[g].batch \subseteq {c \in Commands : Claimable(c)}
        /\ gateway'[g].pc # "record"
        /\ \A h \in Gateways \ {g} : gateway'[h] = gateway[h]
        /\ txn' = txn
    <3>1. CASE {c \in Commands : Claimable(c)} = {}
      <4>1. gateway' = [gateway EXCEPT ![g] = Looping] /\ txn' = txn
        BY <1>5, <3>1 DEF Claim
      <4> QED  BY <4>1 DEF Looping
    <3>2. CASE {c \in Commands : Claimable(c)} # {}
      <4>1. /\ gateway' = [gateway EXCEPT ![g] =
                 [Looping EXCEPT !.pc = "publish", !.token = nextToken,
                                 !.batch = {c \in Commands : Claimable(c)}]]
            /\ txn' = txn
        BY <1>5, <3>2 DEF Claim
      <4> QED  BY <4>1 DEF Looping
    <3> QED  BY <3>1, <3>2
  <2> QED  BY <1>0, <2>1, <2>2, <2>3
<1>6. ASSUME NEW g \in Gateways, NEW c \in Commands, Publish(g, c)
      PROVE  CreatedInv'
  <2>1. /\ c \in gateway[g].batch
        /\ gateway'[g].batch \subseteq gateway[g].batch
        /\ gateway'[g].current = c
        /\ \A h \in Gateways \ {g} : gateway'[h] = gateway[h]
        /\ UNCHANGED <<outbox, txn>>
    BY <1>6 DEF Publish, Dispatch
  <2> QED  BY <1>0, <2>1
<1>7. ASSUME NEW g \in Gateways, BeginRecord(g)
      PROVE  CreatedInv'
  <2>1. NextRow(gateway[g]).pc # "record"
        /\ NextRow(gateway[g]).batch \subseteq gateway[g].batch
    BY DEF NextRow, Looping, Dispatch
  <2>2. /\ UNCHANGED <<command, outbox>>
        /\ \/ gateway' = gateway
           \/ gateway' = [gateway EXCEPT ![g] = NextRow(gateway[g])]
    BY <1>7 DEF BeginRecord
  <2> QED  BY <1>0, <1>7, <2>1, <2>2, RecordBegun
<1>10. ASSUME NEW g \in Gateways, Interrupt(g)
      PROVE  CreatedInv'
  BY <1>0, <1>10 DEF Interrupt, Looping, NoTxn
<1>8. ASSUME NEW g \in Gateways, CommitRecord(g)
      PROVE  CreatedInv'
  <2>1. gateway[g].current \in Created
    BY <1>8 DEF CommitRecord
  <2>2. \A c \in Commands : c # gateway[g].current => outbox'[c] = outbox[c]
    BY <1>8 DEF CommitRecord
  <2>3. /\ gateway'[g].pc # "record"
        /\ gateway'[g].batch \subseteq gateway[g].batch
        /\ \A h \in Gateways \ {g} : gateway'[h] = gateway[h]
    BY <1>8 DEF CommitRecord, NextRow, Looping, Dispatch
  <2>4. \A h \in Gateways : txn'[h].expiring \subseteq txn[h].expiring
    BY <1>8 DEF CommitRecord, NoTxn
  <2> QED  BY <1>0, <2>1, <2>2, <2>3, <2>4
<1>9. ASSUME CommitAck \/ (\E m \in Ack : BeginAck(m)) \/ UNCHANGED vars
      PROVE  CreatedInv'
  <2>1. UNCHANGED <<outbox, gateway, txn>>
    BY <1>9 DEF CommitAck, BeginAck, vars
  <2> QED  BY <1>0, <2>1
<1> HIDE DEF QueueInv, TypeInv, TypeOK, HandInv, CreatedInv
<1> QED  BY <1>1, <1>2, <1>3, <1>4, <1>5, <1>6, <1>7, <1>8, <1>9, <1>10
         DEF Next, DispatcherStep, Expire, Record, Send

(* A decision to record stays right: a command it found out of the queue   *)
(* never returns to it.                                                    *)
LEMMA OpenPreserved ==
  ASSUME QueueInv, [Next]_vars
  PROVE  OpenInv'
<1> USE DEF QueueInv, TypeInv, TypeOK, HandInv
<1>1. ASSUME NEW g \in Gateways, txn'[g] = txn[g], gateway'[g] = gateway[g]
      PROVE  OpenInv!(g)'
  <2>1. CASE txn[g].op = "record"
    <3>1. /\ gateway[g].current \in Commands
          /\ command[gateway[g].current].status # "absent"
      BY <2>1 DEF CreatedInv, Created
    <3>2. command'[gateway[g].current].status = "queued"
            => command[gateway[g].current].status = "queued"
      BY <3>1, CreatedStep DEF Create
    <3> QED  BY <1>1, <2>1, <3>2 DEF OpenInv
  <2>2. CASE txn[g].op # "record"
    BY <1>1, <2>2 DEF OpenInv
  <2> QED  BY <2>1, <2>2
<1>2. ASSUME NEW g \in Gateways, txn'[g].op # "record",
             txn'[g].cancelled \subseteq txn'[g].expiring
      PROVE  OpenInv!(g)'
  BY <1>2
<1>3. ASSUME NEW g \in Gateways, BeginExpire(g)
      PROVE  OpenInv'
  <2>1. /\ txn'[g].op = "expire"
        /\ txn'[g].cancelled \subseteq txn'[g].expiring
        /\ \A h \in Gateways \ {g} : txn'[h] = txn[h]
        /\ gateway' = gateway
    BY <1>3 DEF BeginExpire, NoTxn
  <2>2. \A h \in Gateways : OpenInv!(h)'
    BY <1>1, <1>2, <2>1
  <2> QED  BY <2>2 DEF OpenInv
<1>4. ASSUME NEW g \in Gateways, CommitExpire(g) \/ CommitRecord(g) \/ Interrupt(g)
      PROVE  OpenInv'
  <2>1. /\ txn'[g] = NoTxn
        /\ \A h \in Gateways \ {g} : txn'[h] = txn[h] /\ gateway'[h] = gateway[h]
    BY <1>4 DEF CommitExpire, CommitRecord, Interrupt
  <2>2. \A h \in Gateways : OpenInv!(h)'
    BY <1>1, <1>2, <2>1 DEF NoTxn
  <2> QED  BY <2>2 DEF OpenInv
<1>5. ASSUME NEW g \in Gateways, Claim(g) \/ Send(g)
      PROVE  OpenInv'
  <2>1. /\ txn' = txn /\ gateway[g].pc # "record"
        /\ \A h \in Gateways \ {g} : gateway'[h] = gateway[h]
    BY <1>5 DEF Claim, Send, Publish
  <2>2. txn[g].op # "record"
    BY <2>1
  <2>3. \A h \in Gateways : OpenInv!(h)'
    BY <1>1, <1>2, <2>1, <2>2 DEF OpenInv
  <2> QED  BY <2>3 DEF OpenInv
<1>6. ASSUME NEW g \in Gateways, BeginRecord(g)
      PROVE  OpenInv'
  <2>1. /\ \A h \in Gateways \ {g} : txn'[h] = txn[h] /\ gateway'[h] = gateway[h]
        /\ command' = command
    BY <1>6, RecordBegun DEF BeginRecord
  <2>2. OpenInv!(g)'
    BY <1>6, <2>1, RecordBegun
  <2>3. \A h \in Gateways : OpenInv!(h)'
    BY <1>1, <2>1, <2>2
  <2> QED  BY <2>3 DEF OpenInv
<1>7. ASSUME UNCHANGED <<gateway, txn>>
      PROVE  OpenInv'
  <2>1. \A h \in Gateways : OpenInv!(h)'
    BY <1>1, <1>7
  <2> QED  BY <2>1 DEF OpenInv
<1>8. ASSUME \/ \E c \in Commands : Create(c) \/ Clock(c)
             \/ \E m \in Ack : BeginAck(m)
             \/ CommitAck
             \/ UNCHANGED vars
      PROVE  UNCHANGED <<gateway, txn>>
  BY <1>8 DEF Create, Clock, TtlPasses, AckTimeoutPasses, RetryDue, LeaseExpires,
              BeginAck, CommitAck, vars
<1> HIDE DEF QueueInv, TypeInv, TypeOK, HandInv
<1> QED  BY <1>3, <1>4, <1>5, <1>6, <1>7, <1>8
         DEF Next, DispatcherStep, Expire, Record

(* The row of a queued command leaves the queue in no step.                *)
LEMMA QueuePreserved ==
  ASSUME QueueInv, [Next]_vars
  PROVE  QueuedIsInOutbox'
<1> USE DEF QueueInv, TypeInv, TypeOK, HandInv
<1> DEFINE InQueue(c) == outbox'[c].status \in {"pending", "retry", "publishing"}
<1> SUFFICES ASSUME NEW c \in Commands, command'[c].status = "queued"
             PROVE  InQueue(c)
  BY DEF QueuedIsInOutbox
<1>1. CASE Create(c)
  BY <1>1 DEF Create, Message
<1>2. CASE ~Create(c)
  <2>1. command[c].status = "queued"
    BY <1>2, CreatedStep
  <2>2. outbox'[c].status = outbox[c].status => InQueue(c)
    BY <2>1 DEF QueuedIsInOutbox
  <2>3. ASSUME NEW d \in Commands, Create(d) \/ Clock(d)
        PROVE  InQueue(c)
    BY <1>2, <2>2, <2>3
       DEF Create, Clock, TtlPasses, AckTimeoutPasses, RetryDue, LeaseExpires, Message
  <2>4. ASSUME NEW g \in Gateways, CommitExpire(g)
        PROVE  InQueue(c)
    <3>1. c \notin txn[g].expiring
      BY <2>4 DEF CommitExpire, Command
    <3> QED  BY <2>2, <2>4, <3>1 DEF CommitExpire, OpenInv
  <2>5. ASSUME NEW g \in Gateways, Claim(g)
        PROVE  InQueue(c)
    <3>1. outbox'[c].status \in {outbox[c].status, "publishing"}
      <4>1. CASE {d \in Commands : Claimable(d)} = {}
        BY <2>5, <4>1 DEF Claim
      <4>2. CASE {d \in Commands : Claimable(d)} # {}
        <5>1. outbox'[c] =
                IF Claimable(c)
                THEN [outbox[c] EXCEPT !.status = "publishing", !.owner = g,
                                       !.token = nextToken, !.lease = "recent"]
                ELSE outbox[c]
          BY <2>5, <4>2 DEF Claim
        <5> QED  BY <5>1 DEF Message
      <4> QED  BY <4>1, <4>2
    <3> QED  BY <2>2, <3>1
  <2>6. ASSUME NEW g \in Gateways, CommitRecord(g)
        PROVE  InQueue(c)
    <3>1. CASE c = gateway[g].current
      <4>1. /\ command'[c] = Recorded(command[c], txn[g])
            /\ outbox'[c] = Tried(outbox[c], txn[g], gateway[g].token)
        BY <2>6, <3>1 DEF CommitRecord
      <4>2. txn[g].status = "absent"
        <5>1. txn[g].status \in {"absent", "published", "failed"}
          BY <2>6 DEF OpenInv, CommitRecord
        <5>2. Recorded(command[c], txn[g]).status
                = IF txn[g].status = "absent" THEN command[c].status ELSE txn[g].status
          BY DEF Recorded, Command
        <5> QED  BY <4>1, <5>1, <5>2
      <4>3. txn[g].message = "retry"
        BY <2>1, <2>6, <3>1, <4>2 DEF OpenInv, CommitRecord
      <4> QED  BY <4>1, <4>3 DEF Tried, Message
    <3>2. CASE c # gateway[g].current
      <4>1. outbox'[c] = outbox[c]
        BY <2>6, <3>2 DEF CommitRecord
      <4> QED  BY <2>2, <4>1
    <3> QED  BY <3>1, <3>2
  <2>7. ASSUME \/ \E g \in Gateways : BeginExpire(g) \/ Send(g) \/ BeginRecord(g)
                                      \/ Interrupt(g)
               \/ \E m \in Ack : BeginAck(m)
               \/ CommitAck
               \/ UNCHANGED vars
        PROVE  InQueue(c)
    BY <2>2, <2>7
       DEF BeginExpire, Send, Publish, BeginRecord, Interrupt, BeginAck, CommitAck, vars
  <2> HIDE DEF QueueInv, TypeInv, TypeOK, HandInv, InQueue
  <2> QED  BY <2>3, <2>4, <2>5, <2>6, <2>7 DEF Next, DispatcherStep, Expire, Record
<1> QED  BY <1>1, <1>2

(* A queued command keeps an outbox row that will be sent, however the     *)
(* transactions of any number of gateways, ACKs and expiries overlap and   *)
(* whichever dispatches are interrupted.                                   *)
THEOREM QueuedKeepsItsRow == Spec => []QueuedIsInOutbox
<1>1. QueueInv /\ [Next]_vars => QueueInv'
  BY NextType, CreatedPreserved, OpenPreserved, QueuePreserved DEF QueueInv
<1>2. QueueInv => QueuedIsInOutbox
  BY DEF QueueInv
<1> QED  BY InitQueue, <1>1, <1>2, PTL DEF Spec

-----------------------------------------------------------------------------
(* What an open transaction read, and what it may overwrite *)

(* A transaction writes a status that comes after the one it read.         *)
ReadInv ==
  /\ \A g \in Gateways :
       /\ txn[g].op = "expire" =>
            /\ \A c \in txn[g].expiring : txn[g].read[c] \in {"queued", "published"}
            /\ \A c \in txn[g].timingOut : txn[g].read[c] \in {"published", "accepted"}
       /\ txn[g].op = "record" /\ txn[g].status = "published"
            => txn[g].read[gateway[g].current] = "queued"
  /\ ackTxn # NoAck =>
       COMMAND_STATUS_ORDER[ackTxn.status] > COMMAND_STATUS_ORDER[ackTxn.read]

LEMMA InitRead == Init => ReadInv
BY DEF Init, ReadInv, NoTxn

(* The transaction that a record opens read the status of its command.     *)
LEMMA RecordReads ==
  ASSUME TypeInv, NEW g \in Gateways, BeginRecord(g),
         txn'[g].op = "record", txn'[g].status = "published"
  PROVE  txn'[g].read[gateway[g].current] = "queued"
<1> USE DEF TypeInv, TypeOK, HandInv
<1> DEFINE c == gateway[g].current
           attempts == outbox[c].attempts + 1
           record ==
             [NoTxn EXCEPT !.op = "record", !.read = Statuses, !.attempts = attempts,
                !.message = IF gateway[g].ok THEN "published"
                            ELSE IF Exhausted(attempts) THEN "failed" ELSE "retry",
                !.status = IF gateway[g].ok
                           THEN IF command[c].status = "queued" THEN "published"
                                ELSE "absent"
                           ELSE IF Exhausted(attempts) THEN "failed" ELSE "absent"]
<1>1. CASE Fenced(g, outbox[c])
  <2>1. txn' = [txn EXCEPT ![g] = record] /\ c \in Commands
    BY <1>1 DEF BeginRecord
  <2>2. record.read = Statuses /\ (record.status = "published" => command[c].status = "queued")
    BY DEF NoTxn
  <2>3. txn'[g] = record
    BY <2>1
  <2> HIDE DEF record
  <2> QED  BY <2>1, <2>2, <2>3 DEF Statuses
<1>2. CASE ~Fenced(g, outbox[c])
  <2>1. txn'[g] = NoTxn
    BY <1>2 DEF BeginRecord
  <2> QED  BY <2>1 DEF NoTxn
<1> QED  BY <1>1, <1>2

LEMMA ReadPreserved ==
  ASSUME QueueInv, ReadInv, [Next]_vars
  PROVE  ReadInv'
<1> USE DEF QueueInv, TypeInv, TypeOK, HandInv
<1>1. ASSUME NEW g \in Gateways, txn'[g] = txn[g], gateway'[g].current = gateway[g].current
      PROVE  ReadInv!1!(g)'
  BY <1>1 DEF ReadInv
<1>2. ASSUME NEW g \in Gateways, txn'[g].op = "none" \/ (txn'[g] = txn[g] /\ txn[g].op = "none")
      PROVE  ReadInv!1!(g)'
  BY <1>2
<1>3. ASSUME NEW g \in Gateways, BeginExpire(g)
      PROVE  ReadInv'
  <2>1. /\ txn'[g].op = "expire" /\ txn'[g].read = Statuses
        /\ txn'[g].expiring = {c \in Commands : Expiring(c)}
        /\ txn'[g].timingOut \subseteq {c \in Commands : TimingOut(c)}
        /\ \A h \in Gateways \ {g} : txn'[h] = txn[h]
        /\ gateway' = gateway /\ ackTxn' = ackTxn
    BY <1>3 DEF BeginExpire, NoTxn
  <2>2. ReadInv!1!(g)'
    BY <2>1 DEF Statuses, Expiring, TimingOut
  <2>3. \A h \in Gateways : ReadInv!1!(h)'
    BY <1>1, <2>1, <2>2
  <2> QED  BY <2>1, <2>3 DEF ReadInv
<1>4. ASSUME NEW g \in Gateways, CommitExpire(g) \/ CommitRecord(g) \/ Interrupt(g)
      PROVE  ReadInv'
  <2>1. /\ txn'[g].op = "none"
        /\ \A h \in Gateways \ {g} : txn'[h] = txn[h] /\ gateway'[h] = gateway[h]
        /\ ackTxn' = ackTxn
    BY <1>4 DEF CommitExpire, CommitRecord, Interrupt, NoTxn
  <2>2. \A h \in Gateways : ReadInv!1!(h)'
    BY <1>1, <1>2, <2>1
  <2> QED  BY <2>1, <2>2 DEF ReadInv
<1>5. ASSUME NEW g \in Gateways, Claim(g) \/ Send(g)
      PROVE  ReadInv'
  <2>1. /\ txn' = txn /\ gateway[g].pc # "record"
        /\ \A h \in Gateways \ {g} : gateway'[h] = gateway[h]
        /\ ackTxn' = ackTxn
    BY <1>5 DEF Claim, Send, Publish
  <2>2. txn[g].op # "record"
    BY <2>1
  <2>3. \A h \in Gateways : ReadInv!1!(h)'
    BY <1>1, <2>1, <2>2 DEF ReadInv
  <2> QED  BY <2>1, <2>3 DEF ReadInv
<1>6. ASSUME NEW g \in Gateways, BeginRecord(g)
      PROVE  ReadInv'
  <2>1. /\ \A h \in Gateways \ {g} : txn'[h] = txn[h] /\ gateway'[h] = gateway[h]
        /\ ackTxn' = ackTxn
    BY <1>6, RecordBegun DEF BeginRecord
  <2>2. txn'[g].op # "expire" /\ (txn'[g].op = "record" => gateway' = gateway)
    BY <1>6, RecordBegun
  <2>3. ReadInv!1!(g)'
    BY <1>6, <2>2, RecordReads
  <2>4. \A h \in Gateways : ReadInv!1!(h)'
    BY <1>1, <2>1, <2>3
  <2> QED  BY <2>1, <2>4 DEF ReadInv
<1>7. ASSUME UNCHANGED <<gateway, txn>>,
             \/ ackTxn' \in {ackTxn, NoAck}
             \/ COMMAND_STATUS_ORDER[ackTxn'.status] > COMMAND_STATUS_ORDER[ackTxn'.read]
      PROVE  ReadInv'
  BY <1>7 DEF ReadInv
<1>8. ASSUME NEW m \in Ack, BeginAck(m)
      PROVE  ReadInv'
  <2>1. CASE Advances(m.command, m.status)
    BY <1>7, <1>8, <2>1 DEF BeginAck, Advances
  <2>2. CASE ~Advances(m.command, m.status)
    BY <1>7, <1>8, <2>2 DEF BeginAck
  <2> QED  BY <2>1, <2>2
<1>9. ASSUME \/ \E c \in Commands : Create(c) \/ Clock(c)
             \/ CommitAck
             \/ UNCHANGED vars
      PROVE  UNCHANGED <<gateway, txn>> /\ ackTxn' \in {ackTxn, NoAck}
  BY <1>9 DEF Create, Clock, TtlPasses, AckTimeoutPasses, RetryDue, LeaseExpires,
              CommitAck, vars
<1> HIDE DEF QueueInv, TypeInv, TypeOK, HandInv
<1> QED  BY <1>3, <1>4, <1>5, <1>6, <1>7, <1>8, <1>9
         DEF Next, DispatcherStep, Expire, Record

(* The order that the code compares statuses in.                           *)
LEMMA Ranks ==
  /\ \A s \in CommandStatus : COMMAND_STATUS_ORDER[s] \in 0..4
  /\ COMMAND_STATUS_ORDER["absent"] = 0
  /\ COMMAND_STATUS_ORDER["queued"] = 1
  /\ COMMAND_STATUS_ORDER["published"] = 2
  /\ COMMAND_STATUS_ORDER["accepted"] = 3
  /\ \A s \in TERMINAL_COMMAND_STATUSES : COMMAND_STATUS_ORDER[s] = 4
  /\ \A s \in {"absent", "queued", "published", "accepted"} :
       s \in CommandStatus \ TERMINAL_COMMAND_STATUSES
BY DEF COMMAND_STATUS_ORDER, CommandStatus, TERMINAL_COMMAND_STATUSES, Reported

(* A status that comes after another does not overwrite it.                *)
LEMMA LaterStatus ==
  ASSUME TypeInv, NEW c \in Commands, command'[c].status \in CommandStatus,
         \/ command'[c].status = command[c].status
         \/ COMMAND_STATUS_ORDER[command'[c].status] > COMMAND_STATUS_ORDER[command[c].status]
  PROVE  ~Overwritten(c)
<1>1. command[c].status \in CommandStatus
  BY DEF TypeInv, TypeOK, Command
<1> QED  BY <1>1, Ranks DEF Overwritten

(* One step for each action that writes a status.                          *)
LEMMA OverwritesAfterReading ==
  ASSUME QueueInv, ReadInv, [Next]_vars, NEW c \in Commands, Overwritten(c)
  PROVE  ReadBefore(c) \/ GivesUpPublishing(c)
<1> USE DEF QueueInv, TypeInv, TypeOK, HandInv
<1>0. TypeInv' /\ command[c].status \in CommandStatus /\ command'[c].status \in CommandStatus
  BY NextType DEF Command
<1>1. ASSUME NEW d \in Commands, Create(d) \/ Clock(d)
      PROVE  FALSE
  <2>1. \/ command'[c].status = command[c].status
        \/ command[c].status = "absent" /\ command'[c].status = "queued"
    BY <1>1, CreationStatus
  <2> HIDE DEF QueueInv, TypeInv, TypeOK, HandInv
  <2> QED  BY <1>0, <2>1, LaterStatus, Ranks DEF QueueInv
<1>2. ASSUME NEW g \in Gateways, CommitExpire(g)
      PROVE  ReadBefore(c)
  <2>1. txn[g] # NoTxn /\ txn'[g] = NoTxn
    BY <1>2 DEF CommitExpire, NoTxn
  <2>2. \/ command'[c].status = command[c].status
        \/ txn[g].read[c] \in {"queued", "published"} /\ command'[c].status = "expired"
        \/ txn[g].read[c] \in {"published", "accepted"} /\ command'[c].status = "timed_out"
    BY <1>2 DEF CommitExpire, ReadInv, Command
  <2>3. CASE txn[g].read[c] = command[c].status
    <3>1. {"expired", "timed_out"} \subseteq TERMINAL_COMMAND_STATUSES
      BY DEF TERMINAL_COMMAND_STATUSES
    <3> HIDE DEF QueueInv, TypeInv, TypeOK, HandInv
    <3> QED  BY <1>0, <2>2, <2>3, <3>1, LaterStatus, Ranks DEF QueueInv
  <2> QED  BY <2>1, <2>3 DEF ReadBefore
<1>3. ASSUME NEW g \in Gateways, CommitRecord(g)
      PROVE  ReadBefore(c) \/ GivesUpPublishing(c)
  <2>1. /\ txn[g] # NoTxn /\ txn'[g] = NoTxn
        /\ command' = [command EXCEPT ![gateway[g].current] =
                         Recorded(command[gateway[g].current], txn[g])]
    BY <1>3 DEF CommitRecord, NoTxn
  <2>2. /\ txn[g].status \in {"absent", "published", "failed"}
        /\ txn[g].status = "published" => txn[g].read[gateway[g].current] = "queued"
    BY <1>3 DEF CommitRecord, OpenInv, ReadInv
  <2>3. Recorded(command[c], txn[g]).status =
          IF txn[g].status = "absent" THEN command[c].status ELSE txn[g].status
    BY DEF Recorded, Command
  <2>4. CASE c = gateway[g].current /\ txn[g].status = "failed"
    BY <2>1, <2>4 DEF GivesUpPublishing
  <2>5. CASE c = gateway[g].current /\ txn[g].status = "published"
    <3>1. command'[c].status = "published" /\ txn[g].read[c] = "queued"
      BY <2>1, <2>2, <2>3, <2>5
    <3>2. CASE command[c].status = "queued"
      <4> HIDE DEF QueueInv, TypeInv, TypeOK, HandInv
      <4> QED  BY <1>0, <3>1, <3>2, LaterStatus, Ranks DEF QueueInv
    <3> QED  BY <2>1, <3>1, <3>2 DEF ReadBefore
  <2>6. CASE c # gateway[g].current \/ txn[g].status = "absent"
    <3>1. command'[c].status = command[c].status
      BY <2>1, <2>3, <2>6
    <3> HIDE DEF QueueInv, TypeInv, TypeOK, HandInv
    <3> QED  BY <1>0, <3>1, LaterStatus DEF QueueInv
  <2> QED  BY <2>2, <2>4, <2>5, <2>6
<1>4. CASE CommitAck
  <2>1. /\ command' = [command EXCEPT ![ackTxn.command] =
                          Answered(command[ackTxn.command], ackTxn)]
        /\ COMMAND_STATUS_ORDER[ackTxn.status] > COMMAND_STATUS_ORDER[ackTxn.read]
        /\ ackTxn' = NoAck
    BY <1>4 DEF CommitAck, ReadInv
  <2>2. Answered(command[c], ackTxn).status = ackTxn.status
    BY DEF Answered, Command
  <2>3. c = ackTxn.command => command'[c].status = ackTxn.status
    BY <2>1, <2>2
  <2>4. c # ackTxn.command => command'[c].status = command[c].status
    BY <2>1
  <2> HIDE DEF QueueInv, TypeInv, TypeOK, HandInv
  <2> QED  BY <1>0, <2>1, <2>3, <2>4, LaterStatus DEF QueueInv, ReadBefore
<1>5. ASSUME \/ \E g \in Gateways : \/ BeginExpire(g) \/ Claim(g) \/ Send(g)
                                    \/ BeginRecord(g) \/ Interrupt(g)
             \/ \E m \in Ack : BeginAck(m)
             \/ UNCHANGED vars
      PROVE  FALSE
  <2>1. command' = command
    BY <1>5 DEF BeginExpire, Claim, Send, Publish, BeginRecord, Interrupt, BeginAck, vars
  <2> HIDE DEF QueueInv, TypeInv, TypeOK, HandInv
  <2> QED  BY <1>0, <2>1, LaterStatus DEF QueueInv
<1> HIDE DEF QueueInv, TypeInv, TypeOK, HandInv
<1> QED  BY <1>1, <1>2, <1>3, <1>4, <1>5 DEF Next, DispatcherStep, Expire, Record

(* Whatever overlaps, and for any number of gateways: a status goes back,  *)
(* or an end is overwritten, only by a transaction that was overtaken      *)
(* between its reading and its commit, or by the record of a last failed   *)
(* publish.  Repeated, late and reordered ACKs, expiries, timeouts and     *)
(* records that were not overtaken leave what they find.                   *)
THEOREM OvertakenAlone == Spec => OnlyOvertakenGoBack
<1> DEFINE ReadersInv == QueueInv /\ ReadInv
<1>1. Init => ReadersInv
  BY InitQueue, InitRead
<1>2. ReadersInv /\ [Next]_vars => ReadersInv'
  BY NextType, CreatedPreserved, OpenPreserved, QueuePreserved, ReadPreserved DEF QueueInv
<1>3. ReadersInv /\ [Next]_vars
        => \A c \in Commands : Overwritten(c) => ReadBefore(c) \/ GivesUpPublishing(c)
  BY OverwritesAfterReading
<1> QED  BY <1>1, <1>2, <1>3, PTL DEF Spec, OnlyOvertakenGoBack

-----------------------------------------------------------------------------
(* Transactions that run one after the other *)

(* Two transactions are never open at once ...                             *)
Alone ==
  \A g \in Gateways :
    txn[g] # NoTxn => ackTxn = NoAck /\ \A h \in Gateways \ {g} : txn[h] = NoTxn

(* ... so what a transaction read is still true when it commits.           *)
ExpiryStands(g) ==
  txn[g].op = "expire" =>
    \A c \in txn[g].cancelled : outbox[c].status \in {"pending", "retry"}

RecordStands(g) ==
  txn[g].op = "record" =>
    /\ Fenced(g, outbox[gateway[g].current])
    /\ txn[g].message \in {"published", "failed", "retry"}

(* Only a row that is being published has an owner, and a row that is      *)
(* ready to be claimed has no token.                                       *)
HeldInv ==
  \A c \in Commands :
    /\ outbox[c].owner # None => outbox[c].status = "publishing"
    /\ outbox[c].status \in {"absent", "pending", "retry"} => outbox[c].token = 0

SerialInv ==
  /\ QueueInv
  /\ Alone
  /\ \A g \in Gateways : ExpiryStands(g) /\ RecordStands(g)
  /\ HeldInv

LEMMA InitSerial == Init => SerialInv
BY InitQueue
   DEF Init, SerialInv, Alone, ExpiryStands, RecordStands, HeldInv, NoTxn

(* A transaction that is not open is no expiry and no record.              *)
LEMMA NoTxnOp == NoTxn.op = "none"
BY DEF NoTxn

(* Whatever opens a transaction finds none open.                           *)
LEMMA BeginStands ==
  ASSUME Serial, SerialInv,
         NEW g \in Gateways, BeginExpire(g) \/ BeginRecord(g)
  PROVE  Alone' /\ \A h \in Gateways : ExpiryStands(h)' /\ RecordStands(h)'
<1> USE DEF SerialInv, QueueInv, TypeInv, TypeOK, HandInv
<1>1. /\ ackTxn' = NoAck /\ \A h \in Gateways : txn[h] = NoTxn
      /\ UNCHANGED <<command, outbox>>
  BY DEF BeginExpire, BeginRecord, Undisturbed
<1>2. \A h \in Gateways \ {g} : txn'[h] = NoTxn
  BY <1>1 DEF BeginExpire, BeginRecord
<1>3. /\ Alone'
      /\ \A h \in Gateways \ {g} : ExpiryStands(h)' /\ RecordStands(h)'
  BY <1>1, <1>2, NoTxnOp DEF Alone, ExpiryStands, RecordStands
<1>4. CASE BeginExpire(g)
  <2>1. /\ txn'[g].op = "expire"
        /\ txn'[g].cancelled \subseteq
             {c \in Commands : outbox[c].status \in {"pending", "retry"}}
    BY <1>4 DEF BeginExpire, NoTxn
  <2> QED  BY <1>1, <1>3, <2>1 DEF ExpiryStands, RecordStands
<1>5. CASE BeginRecord(g)
  <2> DEFINE c == gateway[g].current
             attempts == outbox[c].attempts + 1
             record ==
               [NoTxn EXCEPT !.op = "record", !.read = Statuses, !.attempts = attempts,
                  !.message = IF gateway[g].ok THEN "published"
                              ELSE IF Exhausted(attempts) THEN "failed" ELSE "retry",
                  !.status = IF gateway[g].ok
                             THEN IF command[c].status = "queued" THEN "published"
                                  ELSE "absent"
                             ELSE IF Exhausted(attempts) THEN "failed" ELSE "absent"]
  <2>1. CASE Fenced(g, outbox[c])
    <3>1. txn' = [txn EXCEPT ![g] = record] /\ gateway' = gateway
      BY <1>5, <2>1 DEF BeginRecord
    <3>2. /\ record.op = "record"
          /\ record.message \in {"published", "failed", "retry"}
      BY DEF NoTxn
    <3> HIDE DEF record
    <3>3. ExpiryStands(g)' /\ RecordStands(g)'
      BY <1>1, <2>1, <3>1, <3>2 DEF ExpiryStands, RecordStands, Fenced
    <3> QED  BY <1>3, <3>3
  <2>2. CASE ~Fenced(g, outbox[c])
    <3>1. txn'[g] = NoTxn
      BY <1>1, <1>5, <2>2 DEF BeginRecord
    <3> QED  BY <1>3, <3>1 DEF ExpiryStands, RecordStands, NoTxn
  <2> QED  BY <2>1, <2>2
<1> QED  BY <1>4, <1>5

(* What a transaction read stands in every step.                           *)
LEMMA SerialPreserved ==
  ASSUME Serial, SerialInv, [Next]_vars
  PROVE  Alone' /\ \A g \in Gateways : ExpiryStands(g)' /\ RecordStands(g)'
<1> USE DEF SerialInv, QueueInv, TypeInv, TypeOK, HandInv
<1>1. ASSUME NEW g \in Gateways, BeginExpire(g) \/ BeginRecord(g)
      PROVE  Alone' /\ \A h \in Gateways : ExpiryStands(h)' /\ RecordStands(h)'
  BY <1>1, BeginStands
<1>2. ASSUME NEW g \in Gateways, CommitExpire(g) \/ CommitRecord(g)
      PROVE  Alone' /\ \A h \in Gateways : ExpiryStands(h)' /\ RecordStands(h)'
  <2>1. txn[g] # NoTxn /\ txn' = [txn EXCEPT ![g] = NoTxn] /\ ackTxn' = ackTxn
    BY <1>2 DEF CommitExpire, CommitRecord, NoTxn
  <2>2. ackTxn' = NoAck /\ \A h \in Gateways : txn'[h] = NoTxn
    BY <2>1 DEF Alone
  <2> QED  BY <2>2, NoTxnOp DEF Alone, ExpiryStands, RecordStands
<1>3. ASSUME NEW g \in Gateways, Interrupt(g)
      PROVE  Alone' /\ \A h \in Gateways : ExpiryStands(h)' /\ RecordStands(h)'
  <2>1. /\ txn' = [txn EXCEPT ![g] = NoTxn]
        /\ \A h \in Gateways \ {g} : gateway'[h] = gateway[h]
        /\ UNCHANGED <<command, outbox, ackTxn>>
    BY <1>3 DEF Interrupt
  <2>2. Alone'
    BY <2>1 DEF Alone
  <2>3. ExpiryStands(g)' /\ RecordStands(g)'
    BY <2>1 DEF ExpiryStands, RecordStands, NoTxn
  <2>4. \A h \in Gateways \ {g} : ExpiryStands(h)' /\ RecordStands(h)'
    BY <2>1 DEF ExpiryStands, RecordStands, Fenced
  <2> QED  BY <2>2, <2>3, <2>4
<1>4. ASSUME NEW m \in Ack, BeginAck(m)
      PROVE  Alone' /\ \A h \in Gateways : ExpiryStands(h)' /\ RecordStands(h)'
  <2>1. \A h \in Gateways : txn'[h] = NoTxn
    BY <1>4 DEF BeginAck, Undisturbed
  <2> QED  BY <2>1, NoTxnOp DEF Alone, ExpiryStands, RecordStands
<1>5. ASSUME CommitAck
      PROVE  Alone' /\ \A h \in Gateways : ExpiryStands(h)' /\ RecordStands(h)'
  <2>1. ackTxn' = NoAck /\ \A h \in Gateways : txn'[h] = NoTxn
    BY <1>5 DEF CommitAck, Alone
  <2> QED  BY <2>1, NoTxnOp DEF Alone, ExpiryStands, RecordStands
<1>6. ASSUME \/ \E c \in Commands : Create(c) \/ Clock(c)
             \/ \E g \in Gateways : Claim(g) \/ Send(g)
      PROVE  Alone' /\ \A h \in Gateways : ExpiryStands(h)' /\ RecordStands(h)'
  <2>1. Undisturbed /\ UNCHANGED <<txn, ackTxn>>
    BY <1>6 DEF Create, Clock, TtlPasses, AckTimeoutPasses, RetryDue, LeaseExpires,
                Claim, Send, Publish
  <2>2. ackTxn' = NoAck /\ \A h \in Gateways : txn'[h] = NoTxn
    BY <2>1 DEF Undisturbed
  <2> QED  BY <2>2, NoTxnOp DEF Alone, ExpiryStands, RecordStands
<1>7. ASSUME UNCHANGED vars
      PROVE  Alone' /\ \A h \in Gateways : ExpiryStands(h)' /\ RecordStands(h)'
  BY <1>7 DEF vars, Alone, ExpiryStands, RecordStands, Fenced
<1> HIDE DEF SerialInv, QueueInv, TypeInv, TypeOK, HandInv
<1> QED  BY <1>1, <1>2, <1>3, <1>4, <1>5, <1>6, <1>7
         DEF Next, DispatcherStep, Expire, Record

(* What a record makes of a row: its holder leaves, with or without a      *)
(* result.                                                                 *)
LEMMA TriedRow ==
  ASSUME NEW message \in Message, NEW record \in Txn, NEW token \in Nat
  PROVE  LET row == Tried(message, record, token)
         IN  /\ row.status = record.message
             /\ row.owner = None /\ row.token = 0
             /\ row.sentUnder = IF record.message = "published" THEN token
                                ELSE message.sentUnder
BY DEF Tried, Message

(* The rows that a claim takes, and those that it leaves.                  *)
LEMMA ClaimedRows ==
  ASSUME TypeInv, NEW g \in Gateways, Claim(g)
  PROVE  \/ UNCHANGED <<outbox, nextToken>>
         \/ /\ nextToken' = nextToken + 1
            /\ outbox' = [c \in Commands |->
                 IF Claimable(c)
                 THEN [outbox[c] EXCEPT !.status = "publishing", !.owner = g,
                                        !.token = nextToken, !.lease = "recent"]
                 ELSE outbox[c]]
<1>1. CASE {c \in Commands : Claimable(c)} = {}
  BY <1>1 DEF Claim
<1>2. CASE {c \in Commands : Claimable(c)} # {}
  BY <1>2 DEF Claim
<1> QED  BY <1>1, <1>2

(* Only the steps that are named here change the rows' holders.            *)
LEMMA RowsKept ==
  ASSUME TypeInv, [Next]_vars
  PROVE  \/ \E c \in Commands : Create(c)
         \/ \E g \in Gateways : CommitExpire(g) \/ Claim(g) \/ CommitRecord(g)
         \/ /\ nextToken' = nextToken
            /\ \A c \in Commands : /\ outbox'[c].status = outbox[c].status
                                   /\ outbox'[c].owner = outbox[c].owner
                                   /\ outbox'[c].token = outbox[c].token
                                   /\ outbox'[c].sentUnder = outbox[c].sentUnder
<1>1. ASSUME NEW c \in Commands, Clock(c)
      PROVE  /\ nextToken' = nextToken
             /\ \A d \in Commands : /\ outbox'[d].status = outbox[d].status
                                    /\ outbox'[d].owner = outbox[d].owner
                                    /\ outbox'[d].token = outbox[d].token
                                    /\ outbox'[d].sentUnder = outbox[d].sentUnder
  BY <1>1 DEF Clock, TtlPasses, AckTimeoutPasses, RetryDue, LeaseExpires, TypeInv,
              TypeOK, Message
<1>2. ASSUME NEW g \in Gateways, BeginExpire(g) \/ Send(g) \/ BeginRecord(g) \/ Interrupt(g)
      PROVE  UNCHANGED <<outbox, nextToken>>
  BY <1>2 DEF BeginExpire, Send, Publish, BeginRecord, Interrupt
<1>3. ASSUME (\E m \in Ack : BeginAck(m)) \/ CommitAck \/ UNCHANGED vars
      PROVE  UNCHANGED <<outbox, nextToken>>
  BY <1>3 DEF BeginAck, CommitAck, vars
<1> QED  BY <1>1, <1>2, <1>3 DEF Next, DispatcherStep, Expire, Record

(* A row that is being published keeps its holder, and a row in the queue  *)
(* has none.                                                               *)
LEMMA HeldPreserved ==
  ASSUME SerialInv, [Next]_vars
  PROVE  HeldInv'
<1> USE DEF SerialInv, QueueInv, TypeInv, TypeOK, HandInv, HeldInv
<1>1. ASSUME NEW c \in Commands, Create(c)
      PROVE  HeldInv'
  <2>1. outbox[c].status = "absent"
    BY <1>1 DEF Create, CreatedInv, Created
  <2> QED  BY <1>1, <2>1 DEF Create, Message
<1>2. ASSUME NEW g \in Gateways, CommitExpire(g)
      PROVE  HeldInv'
  <2>1. \A c \in txn[g].cancelled : outbox[c].owner = None
    BY <1>2 DEF CommitExpire, ExpiryStands, Txn
  <2>2. \A c \in Commands : \/ outbox'[c] = outbox[c]
                            \/ c \in txn[g].cancelled /\ outbox'[c] = Cancelled(outbox[c])
    BY <1>2 DEF CommitExpire
  <2>3. \A row \in Message : /\ Cancelled(row).status = "cancelled"
                             /\ Cancelled(row).owner = row.owner
    BY DEF Cancelled, Message
  <2>4. \A c \in Commands : outbox[c] \in Message
    OBVIOUS
  <2> HIDE DEF TypeOK
  <2> QED  BY <2>1, <2>2, <2>3, <2>4
<1>3. ASSUME NEW g \in Gateways, Claim(g)
      PROVE  HeldInv'
  <2>1. \A row \in Message, token \in Nat :
          [row EXCEPT !.status = "publishing", !.owner = g, !.token = token,
                      !.lease = "recent"].status = "publishing"
    BY DEF Message
  <2>2. \A c \in Commands :
          \/ outbox'[c] = outbox[c]
          \/ outbox'[c].status = "publishing"
    <3>1. CASE UNCHANGED outbox
      BY <3>1
    <3>2. CASE outbox' = [c \in Commands |->
                 IF Claimable(c)
                 THEN [outbox[c] EXCEPT !.status = "publishing", !.owner = g,
                                        !.token = nextToken, !.lease = "recent"]
                 ELSE outbox[c]]
      BY <2>1, <3>2
    <3> QED  BY <1>3, <3>1, <3>2, ClaimedRows
  <2> QED  BY <2>2
<1>4. ASSUME NEW g \in Gateways, CommitRecord(g)
      PROVE  HeldInv'
  <2> DEFINE c == gateway[g].current
  <2>1. c \in Commands /\ txn[g] \in Txn /\ gateway[g].token \in Nat
    BY <1>4 DEF CommitRecord, Dispatch
  <2>2. outbox' = [outbox EXCEPT ![c] = Tried(outbox[c], txn[g], gateway[g].token)]
    BY <1>4 DEF CommitRecord
  <2>3. outbox'[c].owner = None /\ outbox'[c].token = 0
    BY <2>1, <2>2, TriedRow
  <2> QED  BY <2>1, <2>2, <2>3
<1>5. ASSUME \A c \in Commands : /\ outbox'[c].status = outbox[c].status
                                 /\ outbox'[c].owner = outbox[c].owner
                                 /\ outbox'[c].token = outbox[c].token
      PROVE  HeldInv'
  BY <1>5
<1> HIDE DEF SerialInv, QueueInv, HandInv, HeldInv, TypeOK, TypeInv
<1>6. TypeInv
  BY DEF SerialInv, QueueInv
<1> QED  BY <1>1, <1>2, <1>3, <1>4, <1>5, <1>6, RowsKept

LEMMA SerialInductive ==
  ASSUME Serial
  PROVE  SerialInv /\ [Next]_vars => SerialInv'
<1> SUFFICES ASSUME SerialInv, [Next]_vars PROVE SerialInv'
  OBVIOUS
<1>1. QueueInv'
  BY NextType, CreatedPreserved, OpenPreserved, QueuePreserved DEF SerialInv, QueueInv
<1> QED  BY <1>1, SerialPreserved, HeldPreserved DEF SerialInv

-----------------------------------------------------------------------------
(* The outbox implements leased work *)

(* The item that a row stands for.                                         *)
Leased(message) ==
  [state |-> CASE message.status = "absent"               -> "absent"
               [] message.status \in {"pending", "retry"} -> "ready"
               [] message.status = "publishing"           -> "held"
               [] OTHER                                   -> "closed",
   holder |-> message.token, result |-> message.sentUnder]

LEMMA LeasedStates ==
  ASSUME NEW message \in Message
  PROVE  /\ Leased(message) = [state |-> Leased(message).state, holder |-> message.token,
                               result |-> message.sentUnder]
         /\ message.status = "absent" => Leased(message).state = "absent"
         /\ message.status \in {"pending", "retry"} => Leased(message).state = "ready"
         /\ message.status = "publishing" => Leased(message).state = "held"
         /\ message.status \in {"published", "failed", "cancelled"}
              => Leased(message).state = "closed"
BY DEF Leased, Message, OutboxStatus

(* Each step of the abstract specification, written for the mapped rows.   *)
LEMMA LeaseSteps ==
  ASSUME outbox \in [Commands -> Message], outbox' \in [Commands -> Message]
  PROVE  /\ \A c \in Commands :
              /\ Leased(outbox[c]).state = "absent"
              /\ \A d \in Commands \ {c} : outbox'[d] = outbox[d]
              /\ Leased(outbox'[c]) = [state |-> "ready", holder |-> outbox[c].token,
                                       result |-> outbox[c].sentUnder]
              /\ nextToken' = nextToken
              => Lease!Add(c)
         /\ \A batch \in SUBSET Commands :
              /\ \A c \in batch : /\ Leased(outbox[c]).state \in {"ready", "held"}
                                  /\ Leased(outbox'[c]) =
                                       [state |-> "held", holder |-> nextToken,
                                        result |-> outbox[c].sentUnder]
              /\ \A c \in Commands \ batch : outbox'[c] = outbox[c]
              /\ nextToken' = nextToken + 1
              => Lease!Grant(batch)
         /\ \A c \in Commands :
              /\ Leased(outbox[c]).state = "held"
              /\ \A d \in Commands \ {c} : outbox'[d] = outbox[d]
              /\ \E result \in {outbox[c].sentUnder, outbox[c].token} :
                   Leased(outbox'[c]) =
                     [state |-> "closed", holder |-> 0, result |-> result]
              /\ nextToken' = nextToken
              => Lease!Close(c)
         /\ \A back, drop \in SUBSET Commands :
              /\ \A c \in back : /\ Leased(outbox[c]).state = "held" /\ c \notin drop
                                 /\ Leased(outbox'[c]) =
                                      [state |-> "ready", holder |-> 0,
                                       result |-> outbox[c].sentUnder]
              /\ \A c \in drop : /\ Leased(outbox[c]).state \in {"ready", "held"}
                                 /\ Leased(outbox'[c]) =
                                      [state |-> "closed", holder |-> 0,
                                       result |-> outbox[c].sentUnder]
              /\ \A c \in Commands \ (back \cup drop) : outbox'[c] = outbox[c]
              /\ nextToken' = nextToken
              => Lease!Release(back, drop)
<1> DEFINE items == [c \in Commands |-> Leased(outbox[c])]
<1>0. /\ items = [c \in Commands |-> Leased(outbox[c])]
      /\ \A c \in Commands :
           items[c] = [state |-> Leased(outbox[c]).state, holder |-> outbox[c].token,
                       result |-> outbox[c].sentUnder]
  BY LeasedStates
<1>00. items' = [c \in Commands |-> Leased(outbox'[c])]
  BY DEF Leased
<1> HIDE DEF items
<1>1. ASSUME NEW c \in Commands,
             Leased(outbox[c]).state = "absent",
             \A d \in Commands \ {c} : outbox'[d] = outbox[d],
             Leased(outbox'[c]) = [state |-> "ready", holder |-> outbox[c].token,
                                   result |-> outbox[c].sentUnder],
             nextToken' = nextToken
      PROVE  Lease!Add(c)
  <2>1. items' = [items EXCEPT ![c].state = "ready"]
    <3>1. items[c] = [state |-> Leased(outbox[c]).state, holder |-> outbox[c].token,
                      result |-> outbox[c].sentUnder]
      BY <1>0
    <3>2. Leased(outbox'[c]) = [items[c] EXCEPT !.state = "ready"]
      BY <1>1, <3>1
    <3>3. \A d \in Commands \ {c} : Leased(outbox'[d]) = items[d]
      BY <1>0, <1>1
    <3>4. items' = [items EXCEPT ![c] = [items[c] EXCEPT !.state = "ready"]]
      BY <1>0, <1>00, <3>2, <3>3
    <3> QED  BY <3>4
  <2> QED  BY <1>1, <2>1 DEF Lease!Add, Leased, items
<1>2. ASSUME NEW batch \in SUBSET Commands,
             \A c \in batch : /\ Leased(outbox[c]).state \in {"ready", "held"}
                              /\ Leased(outbox'[c]) =
                                   [state |-> "held", holder |-> nextToken,
                                    result |-> outbox[c].sentUnder],
             \A c \in Commands \ batch : outbox'[c] = outbox[c],
             nextToken' = nextToken + 1
      PROVE  Lease!Grant(batch)
  <2>1. items' = [c \in Commands |->
                    IF c \in batch THEN [items[c] EXCEPT !.state = "held", !.holder = nextToken]
                    ELSE items[c]]
    <3>1. ASSUME NEW c \in batch
          PROVE  Leased(outbox'[c]) = [items[c] EXCEPT !.state = "held", !.holder = nextToken]
      <4>1. /\ items[c] = [state |-> Leased(outbox[c]).state, holder |-> outbox[c].token,
                            result |-> outbox[c].sentUnder]
            /\ Leased(outbox'[c]) = [state |-> "held", holder |-> nextToken,
                                     result |-> outbox[c].sentUnder]
        BY <1>0, <1>2
      <4>2. [items[c] EXCEPT !.state = "held"]
              = [state |-> "held", holder |-> outbox[c].token, result |-> outbox[c].sentUnder]
        BY <4>1
      <4>3. [[state |-> "held", holder |-> outbox[c].token, result |-> outbox[c].sentUnder]
               EXCEPT !.holder = nextToken]
              = [state |-> "held", holder |-> nextToken, result |-> outbox[c].sentUnder]
        OBVIOUS
      <4> QED  BY <4>1, <4>2, <4>3, Zenon
    <3>2. \A c \in Commands \ batch : Leased(outbox'[c]) = items[c]
      BY <1>0, <1>2
    <3> QED  BY <1>00, <3>1, <3>2
  <2> QED  BY <1>2, <2>1 DEF Lease!Grant, Leased, items
<1>3. ASSUME NEW c \in Commands,
             Leased(outbox[c]).state = "held",
             \A d \in Commands \ {c} : outbox'[d] = outbox[d],
             NEW result \in {outbox[c].sentUnder, outbox[c].token},
             Leased(outbox'[c]) = [state |-> "closed", holder |-> 0, result |-> result],
             nextToken' = nextToken
      PROVE  Lease!Close(c)
  <2>1. items' = [items EXCEPT ![c] = [state |-> "closed", holder |-> 0, result |-> result]]
    <3>1. \A d \in Commands \ {c} : Leased(outbox'[d]) = items[d]
      BY <1>0, <1>3
    <3> QED  BY <1>0, <1>00, <1>3, <3>1
  <2>2. items[c] = [state |-> Leased(outbox[c]).state, holder |-> outbox[c].token,
                    result |-> outbox[c].sentUnder]
    BY <1>0
  <2>3. result \in {items[c].result, items[c].holder}
    BY <1>3, <2>2
  <2> QED  BY <1>3, <2>1, <2>3 DEF Lease!Close, Leased, items
<1>4. ASSUME NEW back \in SUBSET Commands, NEW drop \in SUBSET Commands,
             \A c \in back : /\ Leased(outbox[c]).state = "held" /\ c \notin drop
                             /\ Leased(outbox'[c]) =
                                  [state |-> "ready", holder |-> 0,
                                   result |-> outbox[c].sentUnder],
             \A c \in drop : /\ Leased(outbox[c]).state \in {"ready", "held"}
                             /\ Leased(outbox'[c]) =
                                  [state |-> "closed", holder |-> 0,
                                   result |-> outbox[c].sentUnder],
             \A c \in Commands \ (back \cup drop) : outbox'[c] = outbox[c],
             nextToken' = nextToken
      PROVE  Lease!Release(back, drop)
  <2>1. items' = [c \in Commands |->
                    CASE c \in drop -> [items[c] EXCEPT !.state = "closed", !.holder = 0]
                      [] c \in back \ drop -> [items[c] EXCEPT !.state = "ready", !.holder = 0]
                      [] OTHER -> items[c]]
    <3>1. ASSUME NEW c \in drop
          PROVE  Leased(outbox'[c]) = [items[c] EXCEPT !.state = "closed", !.holder = 0]
      <4>1. /\ items[c] = [state |-> Leased(outbox[c]).state, holder |-> outbox[c].token,
                            result |-> outbox[c].sentUnder]
            /\ Leased(outbox'[c]) = [state |-> "closed", holder |-> 0,
                                     result |-> outbox[c].sentUnder]
        BY <1>0, <1>4
      <4>2. [items[c] EXCEPT !.state = "closed"]
              = [state |-> "closed", holder |-> outbox[c].token, result |-> outbox[c].sentUnder]
        BY <4>1
      <4>3. [[state |-> "closed", holder |-> outbox[c].token, result |-> outbox[c].sentUnder]
               EXCEPT !.holder = 0]
              = [state |-> "closed", holder |-> 0, result |-> outbox[c].sentUnder]
        OBVIOUS
      <4> QED  BY <4>1, <4>2, <4>3, Zenon
    <3>2. ASSUME NEW c \in back
          PROVE  /\ Leased(outbox'[c]) = [items[c] EXCEPT !.state = "ready", !.holder = 0]
                 /\ c \notin drop
      <4>1. /\ items[c] = [state |-> Leased(outbox[c]).state, holder |-> outbox[c].token,
                            result |-> outbox[c].sentUnder]
            /\ Leased(outbox'[c]) = [state |-> "ready", holder |-> 0,
                                     result |-> outbox[c].sentUnder]
        BY <1>0, <1>4
      <4>2. [items[c] EXCEPT !.state = "ready"]
              = [state |-> "ready", holder |-> outbox[c].token, result |-> outbox[c].sentUnder]
        BY <4>1
      <4>3. [[state |-> "ready", holder |-> outbox[c].token, result |-> outbox[c].sentUnder]
               EXCEPT !.holder = 0]
              = [state |-> "ready", holder |-> 0, result |-> outbox[c].sentUnder]
        OBVIOUS
      <4> QED  BY <1>4, <4>1, <4>2, <4>3, Zenon
    <3>3. \A c \in Commands \ (back \cup drop) : Leased(outbox'[c]) = items[c]
      BY <1>0, <1>4
    <3> QED  BY <1>00, <3>1, <3>2, <3>3
  <2> QED  BY <1>4, <2>1 DEF Lease!Release, Leased, items
<1> QED  BY <1>1, <1>2, <1>3, <1>4

(* Every transaction of the dispatcher is a step of leased work: creation  *)
(* adds an item, a claim grants a batch, the record of a publish closes or *)
(* releases its row, and an expiry withdraws rows nobody holds.            *)
LEMMA StepsAreLeased ==
  ASSUME Serial, SerialInv, [Next]_vars
  PROVE  Lease!Next \/ (/\ \A c \in Commands : Leased(outbox'[c]) = Leased(outbox[c])
                        /\ nextToken' = nextToken)
<1> USE DEF SerialInv, QueueInv, TypeInv, TypeOK, HandInv, HeldInv
<1>0. outbox \in [Commands -> Message] /\ outbox' \in [Commands -> Message]
  BY NextType
<1>1. ASSUME NEW c \in Commands, Create(c)
      PROVE  Lease!Next
  <2>1. /\ outbox[c].status = "absent"
        /\ outbox' = [outbox EXCEPT ![c].status = "pending"]
        /\ nextToken' = nextToken
    BY <1>1 DEF Create, CreatedInv, Created
  <2>2. /\ Leased(outbox[c]).state = "absent"
        /\ \A d \in Commands \ {c} : outbox'[d] = outbox[d]
        /\ Leased(outbox'[c]) = [state |-> "ready", holder |-> outbox[c].token,
                                 result |-> outbox[c].sentUnder]
    <3>1. /\ outbox'[c].status = "pending" /\ outbox'[c].token = outbox[c].token
          /\ outbox'[c].sentUnder = outbox[c].sentUnder
          /\ outbox[c] \in Message /\ outbox'[c] \in Message
      BY <1>0, <2>1 DEF Message
    <3> QED  BY <2>1, <3>1, LeasedStates
  <2>3. Lease!Add(c)
    BY <1>0, <2>1, <2>2, LeaseSteps
  <2> QED  BY <2>3 DEF Lease!Next
<1>2. ASSUME NEW g \in Gateways, CommitExpire(g)
      PROVE  Lease!Next
  <2>0. PICK drop \in SUBSET Commands : drop = txn[g].cancelled
    BY DEF Txn
  <2>1. /\ \A c \in drop : outbox[c].status \in {"pending", "retry"}
        /\ nextToken' = nextToken
    BY <1>2, <2>0 DEF CommitExpire, ExpiryStands
  <2>2. /\ \A c \in Commands \ drop : outbox'[c] = outbox[c]
        /\ \A c \in drop : outbox'[c] = Cancelled(outbox[c])
    BY <1>2, <2>0 DEF CommitExpire
  <2>3. ASSUME NEW c \in drop
        PROVE  /\ Leased(outbox[c]).state = "ready"
               /\ Leased(outbox'[c]) = [state |-> "closed", holder |-> 0,
                                        result |-> outbox[c].sentUnder]
    <3>1. /\ outbox[c] \in Message /\ outbox'[c] \in Message /\ outbox[c].token = 0
      BY <1>0, <2>1
    <3>2. /\ outbox'[c].status = "cancelled" /\ outbox'[c].token = outbox[c].token
          /\ outbox'[c].sentUnder = outbox[c].sentUnder
      <4>1. \A row \in Message : /\ Cancelled(row).status = "cancelled"
                                 /\ Cancelled(row).token = row.token
                                 /\ Cancelled(row).sentUnder = row.sentUnder
        BY DEF Cancelled, Message
      <4> HIDE DEF SerialInv, QueueInv, TypeInv, TypeOK, HandInv, HeldInv
      <4> QED  BY <2>2, <3>1, <4>1
    <3> QED  BY <2>1, <3>1, <3>2, LeasedStates
  <2>4. Lease!Release({}, drop)
    <3> HIDE DEF SerialInv, QueueInv, TypeInv, TypeOK, HandInv, HeldInv
    <3>1. {} \in SUBSET Commands
      OBVIOUS
    <3> QED  BY <1>0, <2>1, <2>2, <2>3, <3>1, LeaseSteps
  <2> QED  BY <2>4 DEF Lease!Next
<1>3. ASSUME NEW g \in Gateways, Claim(g)
      PROVE  Lease!Next \/ UNCHANGED <<outbox, nextToken>>
  <2>0. PICK batch \in SUBSET Commands : batch = {c \in Commands : Claimable(c)}
    OBVIOUS
  <2>1. CASE UNCHANGED <<outbox, nextToken>>
    BY <2>1
  <2>2. CASE /\ nextToken' = nextToken + 1
             /\ outbox' = [c \in Commands |->
                  IF Claimable(c)
                  THEN [outbox[c] EXCEPT !.status = "publishing", !.owner = g,
                                         !.token = nextToken, !.lease = "recent"]
                  ELSE outbox[c]]
    <3>1. ASSUME NEW c \in batch
          PROVE  /\ Leased(outbox[c]).state \in {"ready", "held"}
                 /\ Leased(outbox'[c]) = [state |-> "held", holder |-> nextToken,
                                          result |-> outbox[c].sentUnder]
      <4>1. /\ outbox'[c].status = "publishing" /\ outbox'[c].token = nextToken
            /\ outbox'[c].sentUnder = outbox[c].sentUnder
            /\ outbox[c] \in Message /\ outbox'[c] \in Message
        <5>1. \A row \in Message :
                 LET new == [row EXCEPT !.status = "publishing", !.owner = g,
                                        !.token = nextToken, !.lease = "recent"]
                 IN  /\ new.status = "publishing" /\ new.token = nextToken
                     /\ new.sentUnder = row.sentUnder
          BY DEF Message
        <5>2. outbox[c] \in Message /\ outbox'[c] \in Message
          BY <1>0
        <5>3. outbox'[c] = [outbox[c] EXCEPT !.status = "publishing", !.owner = g,
                                             !.token = nextToken, !.lease = "recent"]
          BY <2>0, <2>2
        <5> HIDE DEF SerialInv, QueueInv, TypeInv, TypeOK, HandInv, HeldInv
        <5> QED  BY <5>1, <5>2, <5>3
      <4>2. outbox[c].status \in {"pending", "retry", "publishing"}
        BY <2>0 DEF Claimable
      <4> QED  BY <4>1, <4>2, LeasedStates
    <3>2. \A c \in Commands \ batch : outbox'[c] = outbox[c]
      BY <2>0, <2>2
    <3> HIDE DEF SerialInv, QueueInv, TypeInv, TypeOK, HandInv, HeldInv
    <3>3. Lease!Grant(batch)
      BY <1>0, <2>2, <3>1, <3>2, LeaseSteps
    <3> QED  BY <3>3 DEF Lease!Next
  <2> QED  BY <1>3, <2>1, <2>2, ClaimedRows
<1>4. ASSUME NEW g \in Gateways, CommitRecord(g)
      PROVE  Lease!Next
  <2>0. PICK c \in Commands : c = gateway[g].current
    BY <1>4 DEF CommitRecord
  <2>1. /\ txn[g] \in Txn /\ gateway[g].token \in Nat
        /\ outbox[c] \in Message /\ nextToken' = nextToken
        /\ outbox'[c] = Tried(outbox[c], txn[g], gateway[g].token)
        /\ \A d \in Commands \ {c} : outbox'[d] = outbox[d]
    BY <1>4, <2>0 DEF CommitRecord, Dispatch
  <2>2. /\ outbox[c].owner = g /\ outbox[c].token = gateway[g].token
        /\ txn[g].message \in {"published", "failed", "retry"}
    BY <1>4, <2>0 DEF CommitRecord, RecordStands, Fenced
  <2>3. Leased(outbox[c]).state = "held"
    BY <2>1, <2>2, ConstantsAssumption, LeasedStates
  <2>4. /\ outbox'[c].status = txn[g].message /\ outbox'[c].token = 0
        /\ outbox'[c].sentUnder = IF txn[g].message = "published" THEN outbox[c].token
                                  ELSE outbox[c].sentUnder
        /\ outbox'[c] \in Message
    BY <1>0, <2>1, <2>2, TriedRow
  <2> HIDE DEF SerialInv, QueueInv, TypeInv, TypeOK, HandInv, HeldInv
  <2>5. CASE txn[g].message \in {"published", "failed"}
    <3>1. \E result \in {outbox[c].sentUnder, outbox[c].token} :
            Leased(outbox'[c]) = [state |-> "closed", holder |-> 0, result |-> result]
      BY <2>4, <2>5, LeasedStates
    <3>2. Lease!Close(c)
      BY <1>0, <2>1, <2>3, <3>1, LeaseSteps
    <3> QED  BY <3>2 DEF Lease!Next
  <2>6. CASE txn[g].message = "retry"
    <3>1. Leased(outbox'[c]) = [state |-> "ready", holder |-> 0,
                                result |-> outbox[c].sentUnder]
      BY <2>4, <2>6, LeasedStates
    <3>2. {c} \in SUBSET Commands /\ {} \in SUBSET Commands
      OBVIOUS
    <3>3. Lease!Release({c}, {})
      BY <1>0, <2>1, <2>3, <3>1, <3>2, LeaseSteps
    <3> QED  BY <3>2, <3>3 DEF Lease!Next
  <2> QED  BY <2>2, <2>5, <2>6
<1>5. ASSUME nextToken' = nextToken,
             \A c \in Commands : /\ outbox'[c].status = outbox[c].status
                                 /\ outbox'[c].token = outbox[c].token
                                 /\ outbox'[c].sentUnder = outbox[c].sentUnder
      PROVE  \A c \in Commands : Leased(outbox'[c]) = Leased(outbox[c])
  BY <1>5 DEF Leased
<1> HIDE DEF SerialInv, QueueInv, TypeInv, TypeOK, HandInv, HeldInv
<1>6. TypeInv
  BY DEF SerialInv, QueueInv
<1> QED  BY <1>1, <1>2, <1>3, <1>4, <1>5, <1>6, RowsKept

(* The outbox of a gateway is leased work: a row is granted under a token  *)
(* that was never used, only its holder closes it or leaves a result, and  *)
(* a closed row stays closed, through restarts, lost leases and retries.   *)
THEOREM OutboxIsLeasedWork ==
  ASSUME Serial
  PROVE  Spec => ImplementsLeasedWork
<1>1. Init => Lease!Init
  BY DEF Init, Lease!Init
<1>2. SerialInv /\ [Next]_vars => [Lease!Next]_<<[c \in Commands |-> Leased(outbox[c])], nextToken>>
  <2> SUFFICES ASSUME SerialInv, [Next]_vars
               PROVE  \/ Lease!Next
                      \/ /\ [c \in Commands |-> Leased(outbox'[c])]
                              = [c \in Commands |-> Leased(outbox[c])]
                         /\ nextToken' = nextToken
    BY DEF Leased
  <2> QED  BY StepsAreLeased
<1> QED  BY InitSerial, SerialInductive, <1>1, <1>2, PTL
         DEF Spec, ImplementsLeasedWork, Lease!Spec, Leased
=============================================================================
