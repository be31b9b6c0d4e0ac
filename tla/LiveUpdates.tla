----------------------------- MODULE LiveUpdates -----------------------------
(***************************************************************************)
(* How the status of a command reaches the browser that sent it.  A POST   *)
(* creates the command and answers (application/commands.py); the          *)
(* dispatcher and the request tell a change by a row of realtime_events    *)
(* that the relay claims, broadcasts and closes (adapters/realtime.py);    *)
(* the ingest broadcasts the change of an ACK itself (main.py); the        *)
(* browser folds envelopes, POST answers and refetches into its view       *)
(* (web/src/lib/ws-dispatcher.ts, hooks/use-device-*.ts).                  *)
(*                                                                         *)
(* There is one browser and one device.  A gateway is a process: while one *)
(* is replaced two of them run.  Each change of a command is one step: the *)
(* races of its transactions are CommandOutbox's.  The statuses are kept   *)
(* as far as the browser tells them apart: "executed" stands for what the  *)
(* device reports last, "timed_out" for what the outbox gives up.          *)
(***************************************************************************)
EXTENDS Naturals, Sequences, SequencesExt

CONSTANTS
  Commands,    \* commands that the browser sends
  Gateways,    \* gateway processes
  Cap,         \* processed event ids the browser keeps (256)
  EventCap,    \* events it shows (30)
  MaxWire,     \* envelopes a socket takes before send_json waits
  MaxRows,     \* bound of the rows of a behaviour, for the refinement
  LiveScenes,  \* the budgets of faults a behaviour may spend
  Null

Chances ==
  [commands : SUBSET Commands, gateways : SUBSET Gateways, publishes : Nat, acks : Nat,
   fetches : Nat, crashes : Nat, drops : Nat, stalls : Nat]

ASSUME LiveAssumption ==
  /\ Cap \in Nat \ {0} /\ MaxRows \in Nat /\ MaxWire \in Nat \ {0}
  /\ EventCap \in 1..Cap
  /\ LiveScenes \subseteq Chances
  /\ Null \notin Commands \cup Gateways

VARIABLES
  command,  \* status of each command in the database
  newest,   \* the command created last
  outbox,   \* its message: waiting, sent to the broker, recorded
  request,  \* the POST of each command: phase and gateway
  notices,  \* changes each dispatcher has committed and not yet told,
            \* which the database gives in no order
  ingest,   \* change each MQTT loop has committed and not yet broadcast
  events,   \* realtime_events, in the order of created_at
  claims,   \* claims made so far
  relay,    \* claimed rows each relay works off; whether the head is out
  direct,   \* number of envelopes with an id of their own
  socket,   \* gateway the browser is connected to
  inbound,  \* envelopes on their way over the socket
  browser,  \* the query cache of the browser
  fetch,    \* GET /latest in flight: phase, whether after a reconnect, answer
  missed,   \* history: commands whose last change the socket did not carry
  chances   \* what is left of the scene

server  == <<command, newest, outbox, request, notices, ingest>>
rows    == <<events, claims, relay>>
client  == <<socket, inbound, browser, fetch>>
liveVars == <<server, rows, direct, client, missed, chances>>

-----------------------------------------------------------------------------
(* Types *)

TERMINAL == {"executed", "timed_out"}

COMMAND_STATUS_ORDER ==
  [s \in {"unknown", "queued", "published", "accepted"} \cup TERMINAL |->
     CASE s = "unknown" -> 0 [] s = "queued" -> 1 [] s = "published" -> 2
       [] s = "accepted" -> 3 [] OTHER -> 4]

Status == DOMAIN COMMAND_STATUS_ORDER

Change == [command: Commands, status: Status \ {"unknown"}]
NoChange == [command |-> Null, status |-> "unknown"]

(* Ids of a row and of an envelope that never was one.                     *)
EventId == {"row", "direct"} \X Nat

Envelope == [id: EventId, change: Change]

Row == [change: Change, state: {"pending", "delivering", "delivered"},
        owner: Gateways \cup {Null}, token: Nat, expired: BOOLEAN,
        closedUnder: Nat]

Claimed == [row: Nat, token: Nat]

Phase == {"none", "posted", "created", "told", "done"}

Browser == [processed: Seq(EventId), shown: Seq(EventId),
            statuses: [Commands -> Status], local: SUBSET Commands,
            pending: SUBSET Commands, latest: Change \cup {NoChange},
            lost: BOOLEAN]

Answer == Change \cup {NoChange}

LiveTypeOK ==
  /\ command \in [Commands -> Status]
  /\ newest \in Commands \cup {Null}
  /\ outbox \in [Commands -> {"none", "pending", "sent", "recorded"}]
  /\ request \in [Commands -> [phase: Phase, at: Gateways \cup {Null}]]
  /\ notices \in [Gateways -> SUBSET Change]
  /\ ingest \in [Gateways -> Change \cup {NoChange}]
  /\ events \in Seq(Row)
  /\ claims \in Nat
  /\ relay \in [Gateways -> [batch: SUBSET Claimed, out: BOOLEAN]]
  /\ direct \in Nat
  /\ socket \in chances.gateways \cup {Null}
  /\ inbound \in Seq(Envelope)
  /\ browser \in Browser
  /\ Len(browser.processed) <= Cap /\ Len(browser.shown) <= EventCap
  /\ fetch \in [phase: {"idle", "asked", "answered"}, reconnect: BOOLEAN,
                answer: Answer]
  /\ missed \subseteq Commands
  /\ chances \in Chances

NoWork == [batch |-> {}, out |-> FALSE]

NoFetch == [phase |-> "idle", reconnect |-> FALSE, answer |-> NoChange]

LiveInit ==
  /\ command = [c \in Commands |-> "unknown"]
  /\ newest = Null
  /\ outbox = [c \in Commands |-> "none"]
  /\ request = [c \in Commands |-> [phase |-> "none", at |-> Null]]
  /\ notices = [g \in Gateways |-> {}]
  /\ ingest = [g \in Gateways |-> NoChange]
  /\ events = <<>>
  /\ claims = 0
  /\ relay = [g \in Gateways |-> NoWork]
  /\ direct = 0
  /\ inbound = <<>>
  /\ browser = [processed |-> <<>>, shown |-> <<>>,
                statuses |-> [c \in Commands |-> "unknown"], local |-> {},
                pending |-> {}, latest |-> NoChange, lost |-> FALSE]
  /\ fetch = NoFetch
  /\ missed = {}
  /\ chances \in LiveScenes
  /\ socket \in chances.gateways

Is(c, status) == [command |-> c, status |-> status]

Ends(changes) == {m.command : m \in {n \in changes : n.status \in TERMINAL}}

-----------------------------------------------------------------------------
(* The gateway: the POST of a command *)

(* RealtimeEventWriter.command_changed                                     *)
Written(change) ==
  Append(events, [change |-> change, state |-> "pending", owner |-> Null,
                  token |-> 0, expired |-> FALSE, closedUnder |-> 0])

(* CommandApplicationService.submit: the command is created ...            *)
Create(c) ==
  /\ request[c].phase = "posted"
  /\ request' = [request EXCEPT ![c].phase = "created"]
  /\ command' = [command EXCEPT ![c] = "queued"]
  /\ newest' = c
  /\ outbox' = [outbox EXCEPT ![c] = "pending"]
  /\ UNCHANGED <<notices, ingest, rows, direct, client, missed, chances>>

(* (or refused by one of the checks before: onError)                       *)
Refuse(c) ==
  /\ request[c].phase = "posted"
  /\ request' = [request EXCEPT ![c] = [phase |-> "done", at |-> Null]]
  /\ browser' = [browser EXCEPT !.local = @ \ {c}]
  /\ UNCHANGED <<command, newest, outbox, notices, ingest, rows, direct, socket,
                 inbound, fetch, missed, chances>>

(* then told in a transaction of its own, as it was created; the answer is *)
(* under way.                                                              *)
TellCreated(c) ==
  /\ request[c].phase = "created"
  /\ events' = Written(Is(c, "queued"))
  /\ request' = [request EXCEPT ![c].phase = "told"]
  /\ UNCHANGED <<command, newest, outbox, notices, ingest, claims, relay, direct,
                 client, missed, chances>>

-----------------------------------------------------------------------------
(* The gateway: the dispatcher and the ingest of ACKs *)

Open == {c \in Commands : command[c] \in {"queued", "published", "accepted"}}

(* _expire_and_timeout changes what is due in one transaction, and tells   *)
(* it change by change.                                                    *)
GiveUp(g, due) ==
  /\ notices[g] = {}
  /\ due # {} /\ due \subseteq Open
  /\ command' = [c \in Commands |-> IF c \in due THEN "timed_out" ELSE command[c]]
  /\ notices' = [notices EXCEPT ![g] = {Is(c, "timed_out") : c \in due}]
  /\ outbox' = [c \in Commands |-> IF c \in due /\ outbox[c] = "pending" THEN "none"
                                   ELSE outbox[c]]
  /\ UNCHANGED <<newest, request, ingest, rows, direct, client, missed, chances>>

Publish(g, c) ==
  /\ notices[g] = {}
  /\ outbox[c] = "pending"
  /\ chances.publishes > 0
  /\ chances' = [chances EXCEPT !.publishes = @ - 1]
  /\ outbox' = [outbox EXCEPT ![c] = "sent"]
  /\ UNCHANGED <<command, newest, request, notices, ingest, rows, direct, client,
                 missed>>

(* _record_attempt: a command that is not queued any more keeps its        *)
(* status, and is told with it.                                            *)
Record(g, c) ==
  /\ notices[g] = {}
  /\ outbox[c] = "sent"
  /\ outbox' = [outbox EXCEPT ![c] = "recorded"]
  /\ command' = [command EXCEPT ![c] = IF @ = "queued" THEN "published" ELSE @]
  /\ notices' = [notices EXCEPT ![g] = {Is(c, command'[c])}]
  /\ UNCHANGED <<newest, request, ingest, rows, direct, client, missed, chances>>

TellChanged(g) ==
  /\ \E change \in notices[g] :
       /\ events' = Written(change)
       /\ notices' = [notices EXCEPT ![g] = @ \ {change}]
  /\ UNCHANGED <<command, newest, outbox, request, ingest, claims, relay, direct,
                 client, missed, chances>>

(* record_command_ack                                                      *)
IngestAck(g, change) ==
  LET c == change.command
  IN  /\ chances.acks > 0
      /\ chances' = [chances EXCEPT !.acks = @ - 1]
      /\ ingest[g] = NoChange
      /\ outbox[c] \in {"sent", "recorded"}
      /\ change.status \in {"accepted", "executed"}
      /\ COMMAND_STATUS_ORDER[change.status] > COMMAND_STATUS_ORDER[command[c]]
      /\ command' = [command EXCEPT ![c] = change.status]
      /\ ingest' = [ingest EXCEPT ![g] = change]
      /\ UNCHANGED <<newest, outbox, request, notices, rows, direct, client,
                     missed>>

-----------------------------------------------------------------------------
(* Broadcasts *)

(* WebSocketManager.broadcast of gateway g: its own sockets get it.        *)
Broadcast(g, envelope) ==
  /\ socket = g => Len(inbound) < MaxWire
  /\ inbound' = IF socket = g THEN Append(inbound, envelope) ELSE inbound
  /\ missed' = IF socket = g THEN missed ELSE missed \cup Ends({envelope.change})
  /\ UNCHANGED <<socket, browser, fetch>>

(* handle_mqtt_message                                                     *)
BroadcastAck(g) ==
  /\ ingest[g] # NoChange
  /\ Broadcast(g, [id |-> <<"direct", direct>>, change |-> ingest[g]])
  /\ direct' = direct + 1
  /\ ingest' = [ingest EXCEPT ![g] = NoChange]
  /\ UNCHANGED <<command, newest, outbox, request, notices, rows, chances>>

Claimable(row) ==
  \/ row.state = "pending"
  \/ row.state = "delivering" /\ row.expired

(* RealtimeRelay._claim (there are never 50 rows here)                     *)
Claim(g) ==
  LET due == {i \in DOMAIN events : Claimable(events[i])}
  IN  /\ relay[g].batch = {}
      /\ due # {}
      /\ claims' = claims + 1
      /\ events' = [i \in DOMAIN events |->
           IF i \in due
           THEN [events[i] EXCEPT !.state = "delivering", !.owner = g,
                                  !.token = claims', !.expired = FALSE]
           ELSE events[i]]
      /\ relay' = [relay EXCEPT ![g].batch =
           {[row |-> i, token |-> claims'] : i \in due}]
      /\ UNCHANGED <<server, direct, client, missed, chances>>

(* The rows of a batch are worked off in their order.                      *)
First(batch) == CHOOSE m \in batch : \A n \in batch : m.row <= n.row

BroadcastRow(g) ==
  LET i == First(relay[g].batch).row
  IN  /\ relay[g].batch # {} /\ ~relay[g].out
      /\ Broadcast(g, [id |-> <<"row", i>>, change |-> events[i].change])
      /\ relay' = [relay EXCEPT ![g].out = TRUE]
      /\ UNCHANGED <<server, events, claims, direct, chances>>

(* Mutant: whoever has claimed the row last may close it.                  *)
HoldsAnyToken(g, claimed) == events[claimed.row].state = "delivering"

Holds(g, claimed) ==
  events[claimed.row].owner = g /\ events[claimed.row].token = claimed.token

(* RealtimeRelay._finish                                                   *)
Finish(g) ==
  /\ relay[g].out
  /\ LET claimed == First(relay[g].batch)
     IN  events' = IF Holds(g, claimed)
                   THEN [events EXCEPT ![claimed.row] =
                           [@ EXCEPT !.state = "delivered", !.owner = Null,
                                     !.token = 0, !.expired = FALSE,
                                     !.closedUnder = claimed.token]]
                   ELSE events
  /\ relay' = [relay EXCEPT ![g] =
                 [batch |-> @.batch \ {First(@.batch)}, out |-> FALSE]]
  /\ UNCHANGED <<server, claims, direct, client, missed, chances>>

Working(i) ==
  \E g \in Gateways : [row |-> i, token |-> events[i].token] \in relay[g].batch

(* lease_expires_at passes; a relay that still works on the row has        *)
(* stalled.                                                                *)
LeaseExpires(i) ==
  /\ events[i].state = "delivering" /\ ~events[i].expired
  /\ Working(i) => chances.stalls > 0
  /\ events' = [events EXCEPT ![i].expired = TRUE]
  /\ chances' = IF Working(i) THEN [chances EXCEPT !.stalls = @ - 1] ELSE chances
  /\ UNCHANGED <<server, claims, relay, direct, client, missed>>

-----------------------------------------------------------------------------
(* The browser: applyEnvelope and the hooks *)

(* Mutant: a status is taken as it comes.                                  *)
LatestArrived(previous, incoming) == incoming

reduceCommandStatus(previous, incoming) ==
  IF /\ previous \notin TERMINAL
     /\ COMMAND_STATUS_ORDER[incoming] >= COMMAND_STATUS_ORDER[previous]
  THEN incoming ELSE previous

Remembered(ids, id) ==
  LET all == Append(ids, id)
  IN  IF Len(all) > Cap THEN Tail(all) ELSE all

Shown(ids, id) == SubSeq(<<id>> \o ids, 1,
                         IF Len(ids) < EventCap THEN Len(ids) + 1 ELSE EventCap)

(* Mutant: only a command that was accepted is taken off the list.         *)
ClearedAccepted(pending, c, before, after) ==
  IF after \in TERMINAL /\ before = "accepted" THEN pending \ {c} ELSE pending

Cleared(pending, c, before, after) ==
  IF after \in TERMINAL THEN pending \ {c} ELSE pending

Applied(b, envelope) ==
  LET c      == envelope.change.command
      before == b.statuses[c]
      after  == reduceCommandStatus(before, envelope.change.status)
  IN  IF Contains(b.processed, envelope.id) THEN b
      ELSE [b EXCEPT
              !.processed = Remembered(@, envelope.id),
              !.shown = Shown(@, envelope.id),
              !.statuses = [@ EXCEPT ![c] = after],
              !.pending = Cleared(@, c, before, after),
              !.latest = IF @.command = c THEN Is(c, after) ELSE @]

Receive ==
  /\ inbound # <<>>
  /\ browser' = Applied(browser, Head(inbound))
  /\ inbound' = Tail(inbound)
  /\ UNCHANGED <<server, rows, direct, socket, fetch, missed, chances>>

(* dispatchCommand, onMutate: a local id is pending until the answer.      *)
Post(c, g) ==
  /\ c \in chances.commands
  /\ request[c].phase = "none"
  /\ g \in chances.gateways
  /\ request' = [request EXCEPT ![c] = [phase |-> "posted", at |-> g]]
  /\ browser' = [browser EXCEPT !.local = @ \cup {c}]
  /\ UNCHANGED <<command, newest, outbox, notices, ingest, rows, direct, socket, inbound,
                 fetch, missed, chances>>

(* The answer has the status at creation; events may have told more.       *)
IsPending(c) == browser.statuses[c] \notin TERMINAL

(* onSuccess                                                               *)
Answered(c) ==
  /\ request[c].phase = "told"
  /\ request' = [request EXCEPT ![c] = [phase |-> "done", at |-> Null]]
  /\ browser' = [browser EXCEPT !.local = @ \ {c},
                                !.pending = IF IsPending(c) THEN @ \cup {c} ELSE @]
  /\ UNCHANGED <<command, newest, outbox, notices, ingest, rows, direct, socket, inbound,
                 fetch, missed, chances>>

(* onopen: after a lost connection the cache is invalidated.  A fetch in   *)
(* flight is cancelled for the new one.                                    *)
OpenSocket(g) ==
  /\ socket = Null
  /\ g \in chances.gateways
  /\ socket' = g
  /\ fetch' = IF browser.lost
              THEN [NoFetch EXCEPT !.phase = "asked", !.reconnect = TRUE]
              ELSE fetch
  /\ browser' = [browser EXCEPT !.lost = FALSE]
  /\ UNCHANGED <<server, rows, direct, inbound, missed, chances>>

(* The query of a page that is mounted, or comes into focus again.         *)
Fetch ==
  /\ fetch = NoFetch
  /\ chances.fetches > 0
  /\ chances' = [chances EXCEPT !.fetches = @ - 1]
  /\ fetch' = [NoFetch EXCEPT !.phase = "asked"]
  /\ UNCHANGED <<server, rows, direct, socket, inbound, browser, missed>>

(* GET /latest has the newest command.                                     *)
AnswerFetch ==
  /\ fetch.phase = "asked"
  /\ fetch' = [fetch EXCEPT
       !.phase = "answered",
       !.answer = IF newest = Null THEN NoChange ELSE Is(newest, command[newest])]
  /\ UNCHANGED <<server, rows, direct, socket, inbound, browser, missed, chances>>

Fetched ==
  /\ fetch.phase = "answered"
  /\ LET a == fetch.answer
     IN  browser' = [browser EXCEPT
           !.latest = a,
           !.pending = IF fetch.reconnect /\ a.status \in TERMINAL
                       THEN @ \ {a.command} ELSE @]
  /\ fetch' = NoFetch
  /\ UNCHANGED <<server, rows, direct, socket, inbound, missed, chances>>

-----------------------------------------------------------------------------
(* Faults *)

(* What a lost connection has not brought.                                 *)
Carried == {inbound[n].change : n \in DOMAIN inbound}

Drop ==
  /\ chances.drops > 0 /\ socket # Null
  /\ chances' = [chances EXCEPT !.drops = @ - 1]
  /\ socket' = Null
  /\ inbound' = <<>>
  /\ browser' = [browser EXCEPT !.lost = TRUE]
  /\ missed' = missed \cup Ends(Carried)
  /\ UNCHANGED <<server, rows, direct, fetch>>

Handled(g) ==
  {c \in Commands : request[c].at = g /\ request[c].phase \in {"posted", "created"}}

(* A gateway stops and starts again: what it had in hand is lost, requests *)
(* end in an error, its sockets close.                                     *)
RestartGateway(g) ==
  /\ chances.crashes > 0 /\ g \in chances.gateways
  /\ chances' = [chances EXCEPT !.crashes = @ - 1]
  /\ request' = [c \in Commands |->
       IF c \in Handled(g) THEN [phase |-> "done", at |-> Null] ELSE request[c]]
  /\ notices' = [notices EXCEPT ![g] = {}]
  /\ ingest' = [ingest EXCEPT ![g] = NoChange]
  /\ relay' = [relay EXCEPT ![g] = NoWork]
  /\ missed' = missed \cup Ends(notices[g] \cup ({ingest[g]} \ {NoChange})
                                 \cup IF socket = g THEN Carried ELSE {})
  /\ socket' = IF socket = g THEN Null ELSE socket
  /\ inbound' = IF socket = g THEN <<>> ELSE inbound
  /\ browser' = [browser EXCEPT !.local = @ \ Handled(g),
                                !.lost = @ \/ socket = g]
  /\ UNCHANGED <<command, newest, outbox, events, claims, direct, fetch>>

(* An iteration of the relay or of the dispatcher ends in an exception.    *)
Fail(g) ==
  /\ chances.stalls > 0
  /\ chances' = [chances EXCEPT !.stalls = @ - 1]
  /\ \/ /\ relay[g].batch # {}
        /\ relay' = [relay EXCEPT ![g] = NoWork]
        /\ UNCHANGED <<notices, missed>>
     \/ /\ notices[g] # {}
        /\ notices' = [notices EXCEPT ![g] = {}]
        /\ missed' = missed \cup Ends(notices[g])
        /\ UNCHANGED relay
  /\ UNCHANGED <<command, newest, outbox, request, ingest, events, claims,
                 direct, client>>

-----------------------------------------------------------------------------
Request(c)    == Create(c) \/ Refuse(c) \/ TellCreated(c) \/ Answered(c)
Dispatcher(g) == TellChanged(g) \/ \E c \in Commands : Publish(g, c) \/ Record(g, c)
Relay(g)      == Claim(g) \/ BroadcastRow(g) \/ Finish(g)
Refetch       == AnswerFetch \/ Fetched

LiveNext ==
  \/ \E c \in Commands : Request(c) \/ \E g \in Gateways : Post(c, g)
  \/ \E g \in chances.gateways :
       \/ Dispatcher(g) \/ Relay(g) \/ BroadcastAck(g)
       \/ \E due \in SUBSET Commands : GiveUp(g, due)
       \/ \E change \in Change : IngestAck(g, change)
       \/ OpenSocket(g) \/ RestartGateway(g) \/ Fail(g)
  \/ \E i \in DOMAIN events : LeaseExpires(i)
  \/ Receive \/ Fetch \/ Refetch \/ Drop

(* The tasks of a gateway run, leases and deadlines pass, the browser      *)
(* reconnects and takes what arrives.                                      *)
LiveFairness ==
  /\ \A c \in Commands : WF_liveVars(Request(c))
  /\ \A g \in Gateways :
       WF_liveVars(g \in chances.gateways /\ TellChanged(g))
       /\ WF_liveVars(g \in chances.gateways /\ BroadcastAck(g))
       /\ WF_liveVars(g \in chances.gateways /\ Relay(g))
  /\ WF_liveVars(\E g \in chances.gateways : GiveUp(g, Open))
  /\ WF_liveVars(\E g \in chances.gateways : OpenSocket(g))
  /\ WF_liveVars(\E i \in DOMAIN events : LeaseExpires(i))
  /\ WF_liveVars(Receive) /\ WF_liveVars(Refetch)

LiveSpec == LiveInit /\ [][LiveNext]_liveVars
FairLiveSpec == LiveSpec /\ LiveFairness

-----------------------------------------------------------------------------
(* Properties *)

(* Rows delivered late, twice or behind a broadcast that overtook them:    *)
(* once the browser has seen a command end it stays with that end, and it  *)
(* is the one in the database (reduceCommandStatus).                       *)
SeenEndStands ==
  [][\A c \in Commands :
       browser.statuses[c] \in TERMINAL => browser'.statuses[c] = command'[c]]_liveVars

(* A command the browser has seen the end of is not shown as pending, even  *)
(* if its POST is answered after the event (use-device-commands.ts:48).    *)
PendingIsOpen ==
  \A c \in browser.pending : browser.statuses[c] \notin TERMINAL

(* The event feed shows no event twice: the ids kept outlast the events    *)
(* shown, whatever the relay sends again (processedEvents).                *)
FeedShowsOnce ==
  \A m, n \in DOMAIN browser.shown : m # n => browser.shown[m] # browser.shown[n]

(* The rows of realtime_events are leased work: only the last claim of a   *)
(* row closes it, through stalled, failed and restarted relays.            *)
LeasedRow(i) ==
  IF i \notin DOMAIN events THEN [state |-> "absent", holder |-> 0, result |-> 0]
  ELSE [state |-> CASE events[i].state = "pending" -> "ready"
                    [] events[i].state = "delivering" -> "held"
                    [] OTHER -> "closed",
        holder |-> events[i].token, result |-> events[i].closedUnder]

LeasedRows == [i \in 1..MaxRows |-> LeasedRow(i)]

Work == INSTANCE LeasedWork
          WITH Items <- 1..MaxRows, granted <- claims + 1, items <- LeasedRows

ImplementsLeasedWork == Work!Spec

(* Every change that was written down is delivered in the end.             *)
EventuallyDelivered ==
  \A i \in 1..MaxRows :
    (i \in DOMAIN events) ~> (i \in DOMAIN events /\ events[i].state = "delivered")

(* A command leaves the pending list unless the socket did not carry its   *)
(* last change: after a reconnect only the newest command is looked up.    *)
PendingClears ==
  \A c \in Commands :
    (c \in browser.local \cup browser.pending)
      ~> (c \in browser.local \cup browser.pending => c \in missed)
=============================================================================
