---------------------------- MODULE CommandOutbox ----------------------------
(***************************************************************************)
(* The life of a command in the gateway: the command row and its outbox    *)
(* row (adapters/persistence.py), the dispatcher that publishes it over    *)
(* MQTT and expires or times it out (adapters/outbox.py), and the ingest   *)
(* of the device's ACKs (services/telemetry.py).                           *)
(*                                                                         *)
(* A gateway has one dispatcher task, a sequence of database transactions  *)
(* and MQTT publishes; ACKs are ingested by the MQTT loop on another       *)
(* thread.  _claim_pending locks its rows and is one step; every other     *)
(* transaction SELECTs rows without a lock and UPDATEs the columns it      *)
(* assigned at commit (READ COMMITTED): Begin... and Commit....            *)
(*                                                                         *)
(* The device and the network are any: once a command was handed to the    *)
(* broker, any ACK of it may arrive at any time, again, or not at all.     *)
(* (Redelivery of the same message_id is filtered by the inbox.)           *)
(* Of the clock, a deadline has passed or has not: expires_at, the ACK     *)
(* timeout counted from published_at and accepted_at, next_attempt_at and  *)
(* lease_expires_at.  The command_events, trace_events, twin and realtime  *)
(* rows written along are left out, and so is the LIMIT 20 of a claim.     *)
(***************************************************************************)
EXTENDS Naturals

CONSTANTS
  Commands,      \* ids of commands
  Gateways,      \* gateway processes
  MaxAttempts,   \* outbox_messages.max_attempts
  MaxInterrupts, \* bound on interrupted and stalled dispatches
  Serial,        \* TRUE: transactions run one after the other
  None

ASSUME ConstantsAssumption ==
  /\ MaxAttempts \in Nat \ {0}
  /\ MaxInterrupts \in Nat
  /\ Serial \in BOOLEAN
  /\ None \notin Commands \cup Gateways

VARIABLES
  command,    \* the table commands
  outbox,     \* the table outbox_messages, one row per command
  nextToken,  \* supply of fresh lease tokens (uuid4)
  gateway,    \* the dispatcher task of each gateway
  txn,        \* its open transaction
  ackTxn,     \* the open transaction of the ACK ingest
  downlink,   \* commands handed to the broker
  interrupts

vars == <<command, outbox, nextToken, gateway, txn, ackTxn, downlink,
          interrupts>>

-----------------------------------------------------------------------------
(* Types *)

Reported == {"executed", "rejected", "failed"}
TERMINAL_COMMAND_STATUSES == Reported \cup {"expired", "timed_out"}
CommandStatus == {"absent", "queued", "published", "accepted"} \cup TERMINAL_COMMAND_STATUSES

(* A deadline counted from a column: the column is NULL, set, or set so    *)
(* long ago that the deadline has passed.                                  *)
Age == {"null", "recent", "old"}

Command == [status: CommandStatus, ttlOver: BOOLEAN, published: Age, accepted: Age]

OutboxStatus == {"absent", "pending", "retry", "publishing", "published", "failed",
                 "cancelled"}

Message == [status: OutboxStatus, attempts: Nat, owner: Gateways \cup {None},
            token: Nat, lease: Age, due: BOOLEAN, sentUnder: Nat]

(* The dispatcher: about to expire, about to claim, or working off a batch *)
(* of claimed rows, one of which has been published and is to be recorded. *)
Dispatch == [pc: {"expire", "claim", "publish", "record"}, batch: SUBSET Commands,
             token: Nat, current: Commands \cup {None}, ok: BOOLEAN]

(* An open transaction: the statuses it read and what it will write.       *)
NoTxn == [op |-> "none", read |-> [c \in Commands |-> "absent"], expiring |-> {},
          timingOut |-> {}, cancelled |-> {}, message |-> "absent", status |-> "absent",
          attempts |-> 0]

Txn == [op: {"none", "expire", "record"}, read: [Commands -> CommandStatus],
        expiring: SUBSET Commands, timingOut: SUBSET Commands, cancelled: SUBSET Commands,
        message: OutboxStatus, status: CommandStatus, attempts: Nat]

Ack == [command: Commands, status: {"accepted"} \cup Reported]

AckTxn == [command: Commands, status: {"accepted"} \cup Reported, read: CommandStatus]

NoAck == [command |-> None, status |-> "accepted", read |-> "absent"]

Statuses == [c \in Commands |-> command[c].status]

TypeOK ==
  /\ command \in [Commands -> Command]
  /\ outbox \in [Commands -> Message]
  /\ nextToken \in Nat \ {0}
  /\ gateway \in [Gateways -> Dispatch]
  /\ txn \in [Gateways -> Txn]
  /\ ackTxn \in AckTxn \cup {NoAck}
  /\ downlink \subseteq Commands
  /\ interrupts \in 0..MaxInterrupts

Looping == [pc |-> "expire", batch |-> {}, token |-> 0, current |-> None, ok |-> FALSE]

Init ==
  /\ command = [c \in Commands |-> [status |-> "absent", ttlOver |-> FALSE,
                                    published |-> "null", accepted |-> "null"]]
  /\ outbox = [c \in Commands |-> [status |-> "absent", attempts |-> 0, owner |-> None,
                                   token |-> 0, lease |-> "null", due |-> TRUE,
                                   sentUnder |-> 0]]
  /\ nextToken = 1
  /\ gateway = [g \in Gateways |-> Looping]
  /\ txn = [g \in Gateways |-> NoTxn]
  /\ ackTxn = NoAck
  /\ downlink = {}
  /\ interrupts = 0

(* Under Serial nothing happens while a transaction is open but its end.   *)
Undisturbed == Serial => ackTxn = NoAck /\ \A g \in Gateways : txn[g] = NoTxn

-----------------------------------------------------------------------------
(* The application, and the deadlines that something still waits for *)

(* create_with_outbox: command and outbox row in one transaction           *)
Create(c) ==
  /\ Undisturbed
  /\ command[c].status = "absent"
  /\ command' = [command EXCEPT ![c].status = "queued"]
  /\ outbox' = [outbox EXCEPT ![c].status = "pending"]
  /\ UNCHANGED <<nextToken, gateway, txn, ackTxn, downlink, interrupts>>

TtlPasses(c) ==
  /\ Undisturbed
  /\ command[c].status \in {"queued", "published"} /\ ~command[c].ttlOver
  /\ command' = [command EXCEPT ![c].ttlOver = TRUE]
  /\ UNCHANGED <<outbox, nextToken, gateway, txn, ackTxn, downlink, interrupts>>

AckTimeoutPasses(c) ==
  /\ Undisturbed
  /\ \/ /\ command[c].status = "published" /\ command[c].published = "recent"
        /\ command' = [command EXCEPT ![c].published = "old"]
     \/ /\ command[c].status = "accepted" /\ command[c].accepted = "recent"
        /\ command' = [command EXCEPT ![c].accepted = "old"]
  /\ UNCHANGED <<outbox, nextToken, gateway, txn, ackTxn, downlink, interrupts>>

RetryDue(c) ==
  /\ Undisturbed
  /\ ~outbox[c].due
  /\ outbox' = [outbox EXCEPT ![c].due = TRUE]
  /\ UNCHANGED <<command, nextToken, gateway, txn, ackTxn, downlink, interrupts>>

(* A dispatcher that works on the row when its lease runs out has stalled. *)
Stalled(c) ==
  \E g \in Gateways : gateway[g].token = outbox[c].token
                       /\ c \in gateway[g].batch \cup {gateway[g].current}

LeaseExpires(c) ==
  /\ Undisturbed
  /\ outbox[c].lease = "recent"
  /\ Stalled(c) => interrupts < MaxInterrupts
  /\ interrupts' = IF Stalled(c) THEN interrupts + 1 ELSE interrupts
  /\ outbox' = [outbox EXCEPT ![c].lease = "old"]
  /\ UNCHANGED <<command, nextToken, gateway, txn, ackTxn, downlink>>

-----------------------------------------------------------------------------
(* The dispatcher: dispatch_once *)

Expiring(c) == command[c].status \in {"queued", "published"} /\ command[c].ttlOver

(* Mutant: an accepted command is waited for without a limit.              *)
TimingOutPublished(c) == command[c].status = "published" /\ command[c].published = "old"

TimingOut(c) ==
  \/ command[c].status = "published" /\ command[c].published = "old"
  \/ command[c].status = "accepted" /\ command[c].accepted = "old"

(* _expire_and_timeout; a command that is both expires.                    *)
BeginExpire(g) ==
  /\ Undisturbed
  /\ gateway[g].pc = "expire"
  /\ txn[g] = NoTxn
  /\ LET expiring == {c \in Commands : Expiring(c)}
     IN  txn' = [txn EXCEPT ![g] =
           [NoTxn EXCEPT !.op = "expire", !.read = Statuses,
              !.expiring = expiring,
              !.timingOut = {c \in Commands : TimingOut(c)} \ expiring,
              !.cancelled = {c \in expiring : outbox[c].status \in {"pending", "retry"}}]]
  /\ UNCHANGED <<command, outbox, nextToken, gateway, ackTxn, downlink, interrupts>>

Cancelled(message) == [message EXCEPT !.status = "cancelled"]

CommitExpire(g) ==
  /\ txn[g].op = "expire"
  /\ command' = [c \in Commands |->
       CASE c \in txn[g].expiring  -> [command[c] EXCEPT !.status = "expired"]
         [] c \in txn[g].timingOut -> [command[c] EXCEPT !.status = "timed_out"]
         [] OTHER                  -> command[c]]
  /\ outbox' = [c \in Commands |->
       IF c \in txn[g].cancelled THEN Cancelled(outbox[c]) ELSE outbox[c]]
  /\ txn' = [txn EXCEPT ![g] = NoTxn]
  /\ gateway' = [gateway EXCEPT ![g].pc = "claim"]
  /\ UNCHANGED <<nextToken, ackTxn, downlink, interrupts>>

Claimable(c) ==
  \/ outbox[c].status \in {"pending", "retry"} /\ outbox[c].due
  \/ outbox[c].status = "publishing" /\ outbox[c].lease = "old"

(* _claim_pending.  Each row gets a token of its own; the rows of a batch  *)
(* are told apart by their id, so one number stands for all of them.       *)
Claim(g) ==
  /\ Undisturbed
  /\ gateway[g].pc = "claim"
  /\ LET batch == {c \in Commands : Claimable(c)}
     IN  IF batch = {}
         THEN /\ gateway' = [gateway EXCEPT ![g] = Looping]
              /\ UNCHANGED <<outbox, nextToken>>
         ELSE /\ outbox' = [c \in Commands |->
                   IF c \in batch
                   THEN [outbox[c] EXCEPT !.status = "publishing", !.owner = g,
                                          !.token = nextToken, !.lease = "recent"]
                   ELSE outbox[c]]
              /\ gateway' = [gateway EXCEPT ![g] =
                   [Looping EXCEPT !.pc = "publish", !.batch = batch, !.token = nextToken]]
              /\ nextToken' = nextToken + 1
  /\ UNCHANGED <<command, txn, ackTxn, downlink, interrupts>>

(* publish_json: accepted by the broker, refused, or given up while the    *)
(* message went out all the same.                                          *)
Publish(g, c) ==
  /\ Undisturbed
  /\ gateway[g].pc = "publish"
  /\ c \in gateway[g].batch
  /\ \E ok \in BOOLEAN, sent \in BOOLEAN :
       /\ ok => sent
       /\ downlink' = IF sent THEN downlink \cup {c} ELSE downlink
       /\ gateway' = [gateway EXCEPT ![g].pc = "record", ![g].current = c, ![g].ok = ok,
                                     ![g].batch = @ \ {c}]
  /\ UNCHANGED <<command, outbox, nextToken, txn, ackTxn, interrupts>>

(* The loop goes on with the next row of the batch, or starts over.        *)
NextRow(loop) ==
  IF loop.batch = {} THEN Looping
  ELSE [loop EXCEPT !.pc = "publish", !.current = None, !.ok = FALSE]

(* Mutant: any gateway that published the row may record it.              *)
FencedByStatus(g, message) == message.status # "published"

Fenced(g, message) ==
  /\ message.status # "published"
  /\ message.owner = g
  /\ message.token = gateway[g].token

Exhausted(attempts) == attempts >= MaxAttempts

(* _record_attempt.  "absent" stands for a status that is not written.     *)
BeginRecord(g) ==
  /\ Undisturbed
  /\ gateway[g].pc = "record"
  /\ txn[g] = NoTxn
  /\ LET c == gateway[g].current
         attempts == outbox[c].attempts + 1
     IN  IF Fenced(g, outbox[c])
         THEN /\ txn' = [txn EXCEPT ![g] =
                   [NoTxn EXCEPT !.op = "record", !.read = Statuses, !.attempts = attempts,
                      !.message = IF gateway[g].ok THEN "published"
                                  ELSE IF Exhausted(attempts) THEN "failed" ELSE "retry",
                      !.status = IF gateway[g].ok
                                 THEN IF command[c].status = "queued" THEN "published"
                                      ELSE "absent"
                                 ELSE IF Exhausted(attempts) THEN "failed" ELSE "absent"]]
              /\ UNCHANGED gateway
         ELSE /\ gateway' = [gateway EXCEPT ![g] = NextRow(@)]
              /\ UNCHANGED txn
  /\ UNCHANGED <<command, outbox, nextToken, ackTxn, downlink, interrupts>>

(* Mutant: a command is published again whatever it has become.            *)
RecordedBlindly(row, record) ==
  [row EXCEPT !.status = IF record.message \in {"published", "failed"} THEN record.message
                         ELSE @,
              !.published = IF record.message = "published" THEN "recent" ELSE @]

(* Mutant: the command only gets its time of publication.                  *)
RecordedTimeOnly(row, record) ==
  [row EXCEPT !.published = IF record.message = "published" THEN "recent" ELSE @]

(* The columns of the command that a record writes.                        *)
Recorded(row, record) ==
  [row EXCEPT !.status = IF record.status = "absent" THEN @ ELSE record.status,
              !.published = IF record.message = "published" THEN "recent" ELSE @]

(* The columns of the row that a record writes.                            *)
Tried(message, record, token) ==
  [message EXCEPT !.status = record.message, !.attempts = record.attempts,
                  !.owner = None, !.token = 0, !.lease = "null",
                  !.due = IF record.message = "retry" THEN FALSE ELSE @,
                  !.sentUnder = IF record.message = "published" THEN token ELSE @]

CommitRecord(g) ==
  /\ txn[g].op = "record"
  /\ LET c == gateway[g].current
     IN  /\ command' = [command EXCEPT ![c] = Recorded(@, txn[g])]
         /\ outbox' = [outbox EXCEPT ![c] = Tried(@, txn[g], gateway[g].token)]
  /\ txn' = [txn EXCEPT ![g] = NoTxn]
  /\ gateway' = [gateway EXCEPT ![g] = NextRow(@)]
  /\ UNCHANGED <<nextToken, ackTxn, downlink, interrupts>>

(* The gateway restarts, or an exception ends dispatch_once: the rest of   *)
(* the batch stays claimed until its lease runs out.                       *)
Interrupt(g) ==
  /\ interrupts < MaxInterrupts
  /\ gateway[g] # Looping
  /\ interrupts' = interrupts + 1
  /\ gateway' = [gateway EXCEPT ![g] = Looping]
  /\ txn' = [txn EXCEPT ![g] = NoTxn]
  /\ UNCHANGED <<command, outbox, nextToken, ackTxn, downlink>>

-----------------------------------------------------------------------------
(* ACK ingest: record_command_ack *)

COMMAND_STATUS_ORDER ==
  [s \in CommandStatus |->
     CASE s = "absent"    -> 0
       [] s = "queued"    -> 1
       [] s = "published" -> 2
       [] s = "accepted"  -> 3
       [] OTHER           -> 4]

(* An ACK advances the command, never takes it back; a late one is noted   *)
(* beside a timeout.                                                       *)
Advances(c, status) ==
  COMMAND_STATUS_ORDER[status] > COMMAND_STATUS_ORDER[command[c].status]

BeginAck(m) ==
  /\ Undisturbed
  /\ ackTxn = NoAck
  /\ m.command \in downlink
  /\ ackTxn' = IF Advances(m.command, m.status)
               THEN [command |-> m.command, status |-> m.status,
                     read |-> command[m.command].status]
               ELSE NoAck
  /\ UNCHANGED <<command, outbox, nextToken, gateway, txn, downlink, interrupts>>

Answered(row, m) ==
  [row EXCEPT !.status = m.status,
              !.accepted = IF m.status = "accepted" THEN "recent" ELSE @]

CommitAck ==
  /\ ackTxn # NoAck
  /\ command' = [command EXCEPT ![ackTxn.command] = Answered(@, ackTxn)]
  /\ ackTxn' = NoAck
  /\ UNCHANGED <<outbox, nextToken, gateway, txn, downlink, interrupts>>

-----------------------------------------------------------------------------
Clock(c)  == TtlPasses(c) \/ AckTimeoutPasses(c) \/ RetryDue(c) \/ LeaseExpires(c)
Expire(g) == BeginExpire(g) \/ CommitExpire(g)
Record(g) == BeginRecord(g) \/ CommitRecord(g)
Send(g)   == \E c \in Commands : Publish(g, c)

DispatcherStep(g) == Expire(g) \/ Claim(g) \/ Send(g) \/ Record(g)

Next ==
  \/ \E c \in Commands : Create(c) \/ Clock(c)
  \/ \E g \in Gateways : DispatcherStep(g) \/ Interrupt(g)
  \/ \E m \in Ack : BeginAck(m)
  \/ CommitAck

(* The dispatcher task is restarted for ever; deadlines pass.              *)
Fairness ==
  /\ \A c \in Commands : WF_vars(TtlPasses(c)) /\ SF_vars(AckTimeoutPasses(c))
                         /\ SF_vars(RetryDue(c)) /\ SF_vars(LeaseExpires(c))
  /\ \A g \in Gateways : SF_vars(BeginExpire(g)) /\ WF_vars(CommitExpire(g))
                         /\ SF_vars(Claim(g)) /\ SF_vars(Send(g))
                         /\ SF_vars(BeginRecord(g)) /\ WF_vars(CommitRecord(g))
  /\ WF_vars(CommitAck)

Spec == Init /\ [][Next]_vars
FairSpec == Spec /\ Fairness

-----------------------------------------------------------------------------
(* Properties *)

(* The status of a command goes back, or its end is replaced by another.   *)
Overwritten(c) ==
  \/ COMMAND_STATUS_ORDER[command'[c].status] < COMMAND_STATUS_ORDER[command[c].status]
  \/ command[c].status \in TERMINAL_COMMAND_STATUSES /\ command'[c].status # command[c].status

(* The transaction that writes the status of c in this step read another   *)
(* one than it overwrites.                                                 *)
ReadBefore(c) ==
  \/ \E g \in Gateways : /\ txn[g] # NoTxn /\ txn'[g] = NoTxn
                         /\ txn[g].read[c] # command[c].status
  \/ ackTxn.command = c /\ ackTxn' = NoAck /\ ackTxn.read # command[c].status

(* The last publish of c failed: "failed" is written whatever the status.  *)
GivesUpPublishing(c) ==
  \E g \in Gateways : /\ txn[g].status = "failed" /\ txn'[g] = NoTxn
                      /\ gateway[g].current = c

(* However expiries, records and ACKs overlap, a command goes back, or its *)
(* end is overwritten, only by a transaction that was overtaken: one that  *)
(* still judges by what it read.  Every other answer, late, repeated or    *)
(* out of order, leaves it alone; the one exception is the record of the   *)
(* last failed publish.                                                    *)
OnlyOvertakenGoBack ==
  [][\A c \in Commands : Overwritten(c) => ReadBefore(c) \/ GivesUpPublishing(c)]_vars

(* A queued command still has a row that will be sent: no command is lost  *)
(* between the two tables, through retries, lost dispatchers and races.    *)
QueuedIsInOutbox ==
  \A c \in Commands :
    command[c].status = "queued" => outbox[c].status \in {"pending", "retry", "publishing"}

(* A command that its only gateway has expired is not handed to the broker  *)
(* any more, as long as no dispatch was interrupted.                       *)
ExpiredIsNotSent ==
  [][\A c \in Commands :
       interrupts = 0 /\ c \in downlink' \ downlink => command[c].status # "expired"]_vars

(* A row is tried at most max_attempts times.                              *)
AttemptsBounded == \A c \in Commands : outbox[c].attempts <= MaxAttempts

(* The outbox is leased work: a row that is being published is held by its *)
(* token, and only the holder records the outcome.                         *)
Lease ==
  INSTANCE LeasedWork WITH
    Items <- Commands,
    granted <- nextToken,
    items <- [c \in Commands |->
      [state |-> CASE outbox[c].status = "absent"               -> "absent"
                   [] outbox[c].status \in {"pending", "retry"} -> "ready"
                   [] outbox[c].status = "publishing"           -> "held"
                   [] OTHER                                     -> "closed",
       holder |-> outbox[c].token, result |-> outbox[c].sentUnder]]

ImplementsLeasedWork == Lease!Spec

(* Every command ends, whatever the broker and the device do.              *)
EveryCommandEnds ==
  \A c \in Commands :
    command[c].status = "queued" ~> command[c].status \in TERMINAL_COMMAND_STATUSES

(* Every outbox row leaves the queue.                                      *)
OutboxDrains ==
  \A c \in Commands :
    outbox[c].status = "pending" ~> outbox[c].status \in {"published", "failed", "cancelled"}

(* Recording a publish does not overwrite the device's result.             *)
ResultOutlivesRecord ==
  [][\A c \in Commands :
       command[c].status \in Reported /\ command'[c].published = "recent"
         => command'[c].status = command[c].status]_vars
=============================================================================
