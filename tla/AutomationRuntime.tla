------------------------- MODULE AutomationRuntime -------------------------
(***************************************************************************)
(* The automation runtime of one device (server/app/services/              *)
(* automation_runtime.py): rules in force are matched against the latest   *)
(* observation or their timers, the winner of each actuator is written     *)
(* down as its claim, the winner's command goes through the command        *)
(* service, and the device's answer is reconciled with the rule.           *)
(*                                                                         *)
(* Two tasks of the gateway evaluate: "mqtt" handles the device's messages *)
(* one by one; "other" stands for the scheduler, the requests and the pose *)
(* results.  A lock per device covers an evaluation or a reconciliation,   *)
(* but requests that pause a plan do not take it, and a crash may come     *)
(* between any two of its transactions.                                    *)
(*                                                                         *)
(* scene    rules of the user's plan, and the bounds; the system's are fixed *)
(* plans    status of both plans; over: the user plan's ends_at is past    *)
(* obs      the latest observation                                         *)
(* rows     state row of each rule; cmds the commands of rules             *)
(* claims   per actuator, the rules that own it                            *)
(* ev       per task: where it is in its evaluation                        *)
(***************************************************************************)
EXTENDS Naturals, FiniteSets, FiniteSetsExt

CONSTANTS
  Rules,       \* [id, plan, kind, actuator, command, samples]
  Scenes,      \* [rules, observations, requests, crashes, repeats]: the rules of
               \* the user's plan; what can be observed, [facts, online, manual,
               \* reported]: the condition rules that match, the control state
               \* of the device and its actuators; how many requests pause,
               \* resume, cancel or switch off, how many crashes come, and how
               \* many answers to commands that have ended
  Observers,   \* tasks that store observations
  MaxCommands, \* bound: commands that something refers to at once
  MaxRetries,  \* 3 in the code
  None

VARIABLES scene, plans, over, enabled, obs, rows, cmds, claims, ev, requests, crashes,
          repeats

vars == <<scene, plans, over, enabled, obs, rows, cmds, claims, ev, requests, crashes,
          repeats>>

CommandIds == 1 .. MaxCommands
Plans == {"system", "user"}
Tasks == {"mqtt", "other"}
Actuators == {r.actuator : r \in Rules} \ {None}    \* voice and display have none

spec == scene.rules
Observations == UNION {s.observations : s \in Scenes}
ControlOf(o) == [online |-> o.online, manual |-> o.manual]     \* control_reset_key
Controls == {ControlOf(o) : o \in Observations}

(* The system's rules are conditions (SYSTEM_ENVIRONMENT_SPEC).             *)
ASSUME ConstantsAssumption ==
  /\ MaxCommands \in Nat /\ MaxRetries \in Nat /\ None \notin CommandIds
  /\ \A r \in Rules : r.samples \in Nat /\ (r.plan = "system" => r.kind = "condition")
  /\ \A s \in Scenes :
       /\ s.rules \subseteq {r \in Rules : r.plan = "user"}
       /\ s.requests \in Nat /\ s.crashes \in Nat /\ s.repeats \in Nat

SystemRules == {r \in Rules : r.plan = "system"}
RulesInForce == SystemRules \cup spec
RulesOf(p) == {r \in RulesInForce : r.plan = p}
IsCondition(r) == r.kind = "condition"

PlanStatus == {"active", "paused", "completed", "failed", "cancelled"}
DelayEnds == {"executed", "failed", "missed"}
Row == [last: {"unknown", "false", "pending", "true"}, stable: Nat, seen: BOOLEAN,
        key: Controls \cup {None}, next: {"none", "future", "due", "late"},
        delay: {"none", "firing", "submitted"} \cup DelayEnds,
        retry: Nat, cmd: CommandIds \cup {None}]

(* A command: its status, and its idempotency key: the rules, the retry,    *)
(* and the age of the observation (0 the latest, 1 an earlier one).  A key  *)
(* of age Gone cannot come again; one that holds the due time of a timed    *)
(* rule never does.  Of TERMINAL_COMMAND_STATUSES, what was executed is     *)
(* "settled" when telemetry is newer; every other end is "failed".          *)
Gone == 2
Candidate == [rules: SUBSET Rules, retry: Nat, age: 0 .. Gone]
Ended == {"executed", "settled", "failed"}
Command == [status: {"free", "open"} \cup Ended, key: Candidate]
Free == [status |-> "free", key |-> [rules |-> {}, retry |-> 0, age |-> Gone]]

NoClaim == [rules |-> {}, conflict |-> FALSE]
Claim == [rules: SUBSET Rules, conflict: BOOLEAN]
Holding == {"collect", "guard", "create", "record"}
Idle == [at |-> "idle", conditions |-> FALSE, view |-> {}, read |-> None,
         todo |-> {}, cand |-> None, cmd |-> None]

TypeOK ==
  /\ scene \in Scenes
  /\ plans \in [Plans -> PlanStatus] /\ over \in BOOLEAN /\ enabled \in BOOLEAN
  /\ obs \in Observations
  /\ rows \in [RulesInForce -> Row]
  /\ cmds \in [CommandIds -> Command]
  /\ claims \in [Actuators -> Claim]
  /\ \A t \in Tasks :
       /\ ev[t].at \in Holding \cup {"idle", "wait", "executed", "failed"}
       /\ ev[t].todo \subseteq Candidate /\ ev[t].cand \in Candidate \cup {None}
       /\ ev[t].cmd \in CommandIds \cup {None} /\ ev[t].view \subseteq Plans
  /\ requests \in 0 .. scene.requests /\ crashes \in 0 .. scene.crashes
  /\ repeats \in 0 .. scene.repeats

-----------------------------------------------------------------------------
FreshRow(r) ==
  [last |-> "unknown", stable |-> 0, seen |-> FALSE, key |-> None,
   next |-> IF IsCondition(r) THEN "none" ELSE "future", delay |-> "none",
   retry |-> 0, cmd |-> None]

Init ==
  /\ scene \in Scenes
  /\ plans = [system |-> "active", user |-> IF spec = {} THEN "cancelled" ELSE "active"]
  /\ over = FALSE /\ enabled = TRUE
  /\ obs \in scene.observations
  /\ rows = [r \in RulesInForce |-> FreshRow(r)]
  /\ cmds = [c \in CommandIds |-> Free]
  /\ claims = [a \in Actuators |-> NoClaim]
  /\ ev = [t \in Tasks |-> Idle]
  /\ requests = 0 /\ crashes = 0 /\ repeats = 0

(* _due_device_ids: what makes the scheduler evaluate.                      *)
TimerDue == \E r \in RulesInForce : plans[r.plan] = "active" /\ rows[r].next \in {"due", "late"}
PlanOver == plans["user"] = "active" /\ over
Due == TimerDue \/ PlanOver

Scheduled(t) == [Idle EXCEPT !.at = "wait", !.conditions = t]

(* A scheduler tick.                                                        *)
Tick ==
  /\ ev["other"].at = "idle" /\ Due
  /\ ev' = [ev EXCEPT !["other"] = Scheduled(FALSE)]
  /\ UNCHANGED <<scene, plans, over, enabled, obs, rows, cmds, claims, requests, crashes, repeats>>

(* A new observation makes keys older; only those of the candidates of an   *)
(* evaluation in progress can come again.                                  *)
PendingIn(e) == UNION {e[t].todo \cup ({e[t].cand} \ {None}) : t \in Tasks}

Older(key) ==
  IF key.age # Gone /\ key \in PendingIn(ev) THEN [key EXCEPT !.age = 1]
  ELSE [key EXCEPT !.age = Gone, !.retry = 0]

(* A command that ended and whose key cannot come again says no more than   *)
(* none: it leaves the model once no row and no handler names it.  One of a *)
(* delay rule stays, so that a second one would be seen.                   *)
Kept(pool, names, e) ==
  [c \in CommandIds |->
     IF /\ pool[c].status \in Ended /\ pool[c].key.age # 0 /\ pool[c].key \notin PendingIn(e)
        /\ \A r \in RulesInForce : names[r].cmd # c /\ (r \in pool[c].key.rules => r.kind # "delay")
        /\ \A t \in Tasks : e[t].cmd # c
     THEN Free ELSE pool[c]]

(* Telemetry, a status message or a pose result is stored; the task that    *)
(* stored it evaluates next.  Telemetry may be newer than what the device   *)
(* executed.                                                               *)
Observe(t, o, newer) ==
  /\ t \in Observers /\ ev[t].at = "idle"
  /\ obs' = o
  /\ rows' = [r \in RulesInForce |-> [rows[r] EXCEPT !.seen = FALSE]]
  /\ ev' = [d \in Tasks |-> IF d = t THEN Scheduled(TRUE)
       ELSE [ev[d] EXCEPT !.todo = {Older(k) : k \in @},
                          !.cand = IF @ = None THEN None ELSE Older(@)]]
  /\ cmds' = Kept([c \in CommandIds |->
       [status |-> IF newer /\ cmds[c].status = "executed" THEN "settled" ELSE cmds[c].status,
        key |-> Older(cmds[c].key)]], rows, ev')
  /\ UNCHANGED <<scene, plans, over, enabled, claims, requests, crashes, repeats>>

-----------------------------------------------------------------------------
(* _collect_candidates.  What is read of the policy, the plans and the      *)
(* claims may be changed by a request before the commit.                    *)

DeviceLock == \A t \in Tasks : ev[t].at \notin Holding

Collect(t) ==
  LET active == {p \in Plans : plans[p] = "active"}
  IN /\ ev[t].at = "wait" /\ DeviceLock
     /\ IF ~enabled
        THEN claims' = [a \in Actuators |-> NoClaim] /\ ev' = [ev EXCEPT ![t] = Idle]
        ELSE /\ ev' = [ev EXCEPT ![t] = IF active = {} THEN Idle
                         ELSE [@ EXCEPT !.at = "collect", !.view = active, !.read = claims]]
             /\ UNCHANGED claims
     /\ UNCHANGED <<scene, plans, over, enabled, obs, rows, cmds, requests, crashes, repeats>>

Cleared(row) == [row EXCEPT !.retry = 0]

(* A condition rule looks at the observation: retries are forgotten when    *)
(* the control state changed or the condition is false; each observation    *)
(* counts once towards the samples.                                        *)
Sampled(r, row, matches) ==
  LET fresh == ~row.seen
      kept == IF fresh /\ row.key \notin {None, ControlOf(obs)} THEN Cleared(row) ELSE row
      marked == IF fresh THEN [kept EXCEPT !.seen = TRUE, !.key = ControlOf(obs)] ELSE kept
      stable == IF ~fresh THEN row.stable
                ELSE IF r.plan = "system" /\ row.last = "unknown" THEN r.samples
                ELSE Min({row.stable + 1, r.samples})
  IN IF matches
     THEN [marked EXCEPT !.stable = stable,
                         !.last = IF stable < r.samples THEN "pending" ELSE "true"]
     ELSE IF fresh THEN [Cleared(marked) EXCEPT !.stable = 0, !.last = "false"] ELSE marked

(* Mutant: a delay is armed again, as an interval is.                       *)
FiredAgain(r, row) ==
  [row EXCEPT !.next = "future",
              !.delay = IF r.kind = "interval" THEN @
                        ELSE IF row.next = "late" THEN "missed" ELSE "firing"]

(* A timed rule whose time has come: fired, or missed when it is too late.  *)
Fired(r, row) ==
  [row EXCEPT !.next = IF r.kind = "interval" THEN "future" ELSE "none",
              !.delay = IF r.kind = "interval" THEN @
                        ELSE IF row.next = "late" THEN "missed" ELSE "firing"]

(* The rows after the evaluation of the rules; a system rule that was never *)
(* evaluated matches when the stored samples do (steady).                   *)
Evaluated(rules, conditions, steady) ==
  [r \in RulesInForce |->
     IF r \notin rules THEN rows[r]
     ELSE IF IsCondition(r)
     THEN IF ~conditions THEN rows[r]
          ELSE Sampled(r, rows[r],
                 IF r.plan = "system" /\ rows[r].last = "unknown" THEN r \in steady
                 ELSE r \in obs.facts)
     ELSE IF rows[r].next \in {"due", "late"} THEN Fired(r, rows[r]) ELSE rows[r]]

Matched(rules, conditions, steady, after) ==
  {r \in rules :
     IF IsCondition(r)
     THEN /\ conditions /\ after[r].last = "true"
          /\ r \in (IF r.plan = "system" /\ rows[r].last = "unknown" THEN steady ELSE obs.facts)
     ELSE rows[r].next = "due"}

(* Mutant: the system's rules win over the user's.                          *)
WinnersOfSystem(matched, a) ==
  LET own == {r \in matched : r.actuator = a /\ r.plan = "system"}
  IN IF own # {} THEN own ELSE {r \in matched : r.actuator = a}

Winners(matched, a) ==
  LET own == {r \in matched : r.actuator = a /\ r.plan = "user"}
  IN IF own # {} THEN own ELSE {r \in matched : r.actuator = a}

Opposed(rules) == Cardinality({r.command : r \in rules}) > 1

(* _retain_timed_claims: timed rules of the user keep their actuator until  *)
(* their command ended and newer telemetry came.                            *)
Retained(rules, after, a) ==
  LET waiting == {r \in rules :
        /\ r.plan = "user" /\ ~IsCondition(r) /\ r.actuator = a
        /\ after[r].cmd # None /\ cmds[after[r].cmd].status \in {"open", "executed"}}
  IN IF waiting = {} THEN {}
     ELSE LET k == CHOOSE k \in {r.command : r \in waiting} : TRUE
          IN {r \in waiting : r.command = k}

Desired(rules, matched, after) ==
  [a \in Actuators |->
     LET winners == Winners(matched, a)
     IN IF winners # {} THEN [rules |-> winners, conflict |-> Opposed(winners)]
        ELSE [rules |-> Retained(rules, after, a), conflict |-> FALSE]]

(* Mutant: a rule does not wait for its command.                            *)
NotAwaited(c) == FALSE

OnItsWay(c) == c # None /\ cmds[c].status = "open"

(* Mutant: retries have no end.                                            *)
ReadyForever(rules, after, early) ==
  /\ ~early
  /\ \A r \in rules : /\ r.actuator \notin obs.manual
                      /\ r.actuator # None => obs.reported[r.actuator] # r.command
                      /\ ~OnItsWay(after[r].cmd)

(* _candidate_ready.  Whether a cooldown or the delay of a retry has passed *)
(* is left open (early: it has not).                                       *)
Ready(rules, after, early) ==
  /\ ~early
  /\ \A r \in rules : /\ r.actuator \notin obs.manual
                      /\ r.actuator # None => obs.reported[r.actuator] # r.command
                      /\ ~OnItsWay(after[r].cmd)
                      /\ after[r].retry <= MaxRetries

(* Mutant: a condition sends its command only when it becomes true.         *)
GroupsOnEdge(matched) ==
  LET new == {r \in matched : IsCondition(r) => rows[r].last # "true"}
  IN {Winners(matched, a) : a \in {b \in Actuators : Winners(matched, b) \subseteq new}} \cup
     {{r} : r \in {q \in new : q.actuator = None}}

(* The rules that send one command together; without an actuator, each      *)
(* alone, and a condition only when it becomes true.                       *)
Groups(matched) ==
     {Winners(matched, a) : a \in Actuators} \cup
     {{r} : r \in {q \in matched : q.actuator = None /\ (IsCondition(q) => rows[q].last # "true")}}

CandidateOf(rules, after) ==
  [rules |-> rules, retry |-> Max({after[r].retry : r \in rules}),
   age |-> IF \A r \in rules : IsCondition(r) THEN 0 ELSE Gone]

(* _finish_delay_only_plan *)
DelayOnly == spec # {} /\ \A r \in spec : r.kind = "delay"
Finished(status, after) ==
  IF status = "active" /\ DelayOnly /\ \A r \in spec : after[r].delay \in DelayEnds
  THEN IF \A r \in spec : after[r].delay = "executed" THEN "completed" ELSE "failed"
  ELSE status

(* The candidates are executed one after the other.                         *)
NextCandidate(t, todo) ==
  IF todo = {} THEN ev' = [ev EXCEPT ![t] = Idle]
  ELSE \E c \in todo :
         ev' = [ev EXCEPT ![t] = [Idle EXCEPT !.at = "guard", !.todo = todo \ {c}, !.cand = c]]

(* Mutant: claims nobody wants any more are not deleted.                    *)
SyncedOnly(desired, gone) ==
  [a \in Actuators |-> IF a \in gone THEN NoClaim
                       ELSE IF desired[a] = NoClaim THEN claims[a] ELSE desired[a]]

Synced(desired, gone) == [a \in Actuators |-> IF a \in gone THEN NoClaim ELSE desired[a]]

(* _sync_claims, and the commit.  A claim that a request deleted since it   *)
(* was read is made again; or it cannot be updated and the evaluation       *)
(* fails; or, if it needed no update, it stays deleted.                     *)
Deleted(t, desired) ==
  {a \in Actuators : desired[a] # NoClaim /\ ev[t].read[a] # NoClaim /\ claims[a] = NoClaim}

CollectFails(t, desired) ==
  /\ Deleted(t, desired) # {}
  /\ ev' = [ev EXCEPT ![t] = Idle]
  /\ UNCHANGED <<plans, rows, claims>>

CollectCommits(t, desired, after, matched, status, early) ==
  /\ \E gone \in SUBSET {a \in Deleted(t, desired) : desired[a] = ev[t].read[a]} :
       claims' = Synced(desired, gone)
  /\ rows' = after
  /\ plans' = [plans EXCEPT !["user"] = IF status = "active" THEN @ ELSE status]
  /\ NextCandidate(t, {CandidateOf(g, after) :
       g \in {h \in Groups(matched) : h # {} /\ ~Opposed(h) /\ Ready(h, after, early)}})

Running(view) == view \ (IF over THEN {"user"} ELSE {})

CommitCollected(t, early) ==
  \E steady \in SUBSET {r \in obs.facts : r.plan = "system" /\ rows[r].last = "unknown"} :
    LET active == Running(ev[t].view)
        rules == {r \in RulesInForce : r.plan \in active}
        after == Evaluated(rules, ev[t].conditions, steady)
        matched == Matched(rules, ev[t].conditions, steady, after)
        missed == \E r \in rules : after[r].delay = "missed" /\ rows[r].delay # "missed"
        desired == Desired(rules, matched, after)
        status == IF "user" \in ev[t].view \ active THEN "completed"
                  ELSE IF missed THEN Finished("active", after) ELSE "active"
    IN /\ ev[t].at = "collect"
       /\ \/ CollectFails(t, desired)
          \/ CollectCommits(t, desired, after, matched, status, early)
       /\ UNCHANGED <<scene, over, enabled, obs, cmds, requests, crashes, repeats>>

-----------------------------------------------------------------------------
(* _execute.                                                               *)
ActuatorOf(cand) == (CHOOSE r \in cand.rules : TRUE).actuator

(* guard_command: the claim must still name the rules of the candidate.     *)
Owned(cand) ==
  LET a == ActuatorOf(cand)
  IN a # None => claims[a] = [rules |-> cand.rules, conflict |-> FALSE]

(* submit: refused when the device is offline or under manual control, when *)
(* the claim is gone, or for a reason this model has no state for           *)
(* (capabilities, the rate of an AI's commands).                            *)
Admitted(cand) ==
  /\ obs.online /\ ActuatorOf(cand) \notin obs.manual /\ Owned(cand)

Guard(t) ==
  /\ ev[t].at = "guard"
  /\ \/ /\ Admitted(ev[t].cand)
        /\ ev' = [ev EXCEPT ![t].at = "create"]
     \/ ev' = [ev EXCEPT ![t].at = "record"]
  /\ UNCHANGED <<scene, plans, over, enabled, obs, rows, cmds, claims, requests, crashes, repeats>>

SameKey(c, cand) == cmds[c].status # "free" /\ cand.age # Gone /\ cmds[c].key = cand

(* create_with_outbox: the command of the same key, or a new one.           *)
Create(t) ==
  LET cand == ev[t].cand
      same == {c \in CommandIds : SameKey(c, cand)}
      free == {c \in CommandIds : cmds[c] = Free}
      c == Min(IF same # {} THEN same ELSE free)
  IN /\ ev[t].at = "create" /\ same \cup free # {}
     /\ cmds' = IF same # {} THEN cmds
                ELSE [cmds EXCEPT ![c] = [status |-> "open", key |-> cand]]
     /\ ev' = [ev EXCEPT ![t] = [@ EXCEPT !.at = "record", !.cmd = c]]
     /\ UNCHANGED <<scene, plans, over, enabled, obs, rows, claims, requests, crashes, repeats>>

(* _schedule_retry *)
Retried(row) == [row EXCEPT !.retry = @ + 1]

(* _record_execution, with the command or with None for a refusal.          *)
Recorded(r, row, c) ==
  LET named == [row EXCEPT !.cmd = c]
  IN IF c = None /\ IsCondition(r) THEN Retried(named)
     ELSE IF r.kind = "delay"
     THEN [named EXCEPT !.delay = IF c = None THEN "failed" ELSE "submitted"]
     ELSE named

Without(p) == [a \in Actuators |-> IF \E r \in claims[a].rules : r.plan = p
                                  THEN NoClaim ELSE claims[a]]

Record(t) ==
  LET cand == ev[t].cand
      after == [r \in RulesInForce |->
                  IF r \in cand.rules THEN Recorded(r, rows[r], ev[t].cmd) ELSE rows[r]]
      status == IF ev[t].cmd = None /\ cand.rules \subseteq spec
                THEN Finished(plans["user"], after) ELSE plans["user"]
  IN /\ ev[t].at = "record"
     /\ rows' = after
     /\ plans' = [plans EXCEPT !["user"] = status]
     /\ claims' = IF status # plans["user"] THEN Without("user") ELSE claims
     /\ NextCandidate(t, ev[t].todo)
     /\ cmds' = Kept(cmds, rows', ev')
     /\ UNCHANGED <<scene, over, enabled, obs, requests, crashes, repeats>>
-----------------------------------------------------------------------------
(* The device answers: the message handler stores the status and reconciles *)
(* the rule next.                                                          *)
OfConditions(c) == \A r \in cmds[c].key.rules : IsCondition(r)

Told(c, status) == ev' = [ev EXCEPT !["mqtt"] = [Idle EXCEPT !.at = status, !.cmd = c]]

Answer(c, status) ==
  /\ ev["mqtt"].at = "idle" /\ cmds[c].status = "open"
  /\ cmds' = [cmds EXCEPT ![c].status =
       IF status = "executed" /\ OfConditions(c) THEN "settled" ELSE status]
  /\ Told(c, status)
  /\ UNCHANGED <<scene, plans, over, enabled, obs, rows, claims, requests, crashes, repeats>>

(* An answer to a command that has ended, repeated or late, changes nothing *)
(* of it, and the rule is told again how it ended.                         *)
AnswerAgain(c) ==
  /\ ev["mqtt"].at = "idle" /\ cmds[c].status \in Ended
  /\ repeats < scene.repeats /\ repeats' = repeats + 1
  /\ Told(c, IF cmds[c].status = "failed" THEN "failed" ELSE "executed")
  /\ UNCHANGED <<scene, plans, over, enabled, obs, rows, cmds, claims, requests, crashes>>

(* The outbox gives a command up, or no answer came in time: the rule is    *)
(* told by a late answer only.                                             *)
GiveUp(c) ==
  /\ cmds[c].status = "open"
  /\ cmds' = Kept([cmds EXCEPT ![c].status = "failed"], rows, ev)
  /\ UNCHANGED <<scene, plans, over, enabled, obs, rows, claims, ev, requests, crashes, repeats>>

(* _record_command_terminal *)
Reconciled(r, row, executed) ==
  LET told == IF executed THEN Cleared(row) ELSE IF IsCondition(r) THEN Retried(row) ELSE row
  IN IF r.kind = "delay" THEN [told EXCEPT !.delay = IF executed THEN "executed" ELSE "failed"]
     ELSE told

Reconcile(t) ==
  LET c == ev[t].cmd
      executed == ev[t].at = "executed"
      named == {r \in RulesInForce : rows[r].cmd = c}
      after == [r \in RulesInForce |->
                  IF r \in named THEN Reconciled(r, rows[r], executed) ELSE rows[r]]
      status == IF named # {} /\ named \subseteq spec THEN Finished(plans["user"], after)
                ELSE plans["user"]
  IN /\ ev[t].at \in {"executed", "failed"} /\ DeviceLock
     /\ rows' = after
     /\ plans' = [plans EXCEPT !["user"] = status]
     /\ claims' = IF status # plans["user"] THEN Without("user") ELSE claims
     /\ ev' = [ev EXCEPT ![t] = Idle]
     /\ cmds' = Kept(cmds, rows', ev')
     /\ UNCHANGED <<scene, over, enabled, obs, requests, crashes, repeats>>

-----------------------------------------------------------------------------
(* Requests (transition, update_policy); they evaluate once they committed, *)
(* unless they are cut short.  While a plan is paused its timers stand      *)
(* still: they are moved by the pause when it resumes.                      *)
Requested ==
  /\ requests < scene.requests /\ requests' = requests + 1
  /\ \/ UNCHANGED ev
     \/ ev["other"].at = "idle" /\ ev' = [ev EXCEPT !["other"] = Scheduled(TRUE)]

SetStatus(p, from, to) ==
  /\ Requested
  /\ plans[p] \in from
  /\ plans' = [plans EXCEPT ![p] = to]
  /\ claims' = IF to = "active" THEN claims ELSE Without(p)
  /\ UNCHANGED <<scene, over, enabled, obs, rows, cmds, crashes, repeats>>

Pause(p) == SetStatus(p, {"active"}, "paused")
Resume(p) == SetStatus(p, {"paused"}, "active")
Cancel == SetStatus("user", {"active", "paused"}, "cancelled")

SetPolicy ==
  /\ Requested
  /\ enabled' = ~enabled
  /\ UNCHANGED <<scene, plans, over, obs, rows, cmds, claims, crashes, repeats>>

RowChanges(r, row) ==
  /\ rows' = [rows EXCEPT ![r] = row]
  /\ UNCHANGED <<scene, plans, over, enabled, obs, cmds, claims, ev, requests, crashes, repeats>>

TimerPasses(r) ==
  \/ /\ rows[r].next = "future" /\ plans[r.plan] = "active"
     /\ RowChanges(r, [rows[r] EXCEPT !.next = "due"])
  \/ /\ rows[r].next = "due" /\ plans[r.plan] = "active"
     /\ RowChanges(r, [rows[r] EXCEPT !.next = "late"])

PlanRunsOut ==
  /\ ~over /\ plans["user"] = "active"
  /\ over' = TRUE
  /\ UNCHANGED <<scene, plans, enabled, obs, rows, cmds, claims, ev, requests, crashes, repeats>>

(* The gateway stops anywhere; at its start it clears the claims            *)
(* (_clear_stale_claims) and evaluates.                                     *)
Crash ==
  /\ crashes < scene.crashes /\ crashes' = crashes + 1
  /\ ev' = [t \in Tasks |-> IF t = "other" THEN Scheduled(TRUE) ELSE Idle]
  /\ claims' = [a \in Actuators |-> NoClaim]
  /\ UNCHANGED <<scene, plans, over, enabled, obs, rows, cmds, requests, repeats>>

Telemetry(t) == \E o \in scene.observations, newer \in BOOLEAN : Observe(t, o, newer)

Step(t) ==
  \/ \E early \in BOOLEAN : CommitCollected(t, early)
  \/ Guard(t) \/ Create(t) \/ Record(t)

CommandEnds(c) ==
  GiveUp(c) \/ AnswerAgain(c) \/ \E status \in {"executed", "failed"} : Answer(c, status)

Next ==
  \/ Tick
  \/ \E t \in Tasks : Telemetry(t) \/ Collect(t) \/ Reconcile(t) \/ Step(t)
  \/ \E c \in CommandIds : CommandEnds(c)
  \/ \E p \in Plans : Pause(p) \/ Resume(p)
  \/ Cancel \/ SetPolicy \/ PlanRunsOut \/ Crash
  \/ \E r \in RulesInForce : TimerPasses(r)

(* The lock is granted in the order of arrival, the evaluation that holds   *)
(* it proceeds, the device reports its telemetry again and again, and       *)
(* neither a cooldown nor the delay of a retry lasts forever.              *)
Locks(t) == Collect(t) \/ Reconcile(t)

Spec ==
  /\ Init /\ [][Next]_vars
  /\ WF_vars(\E t \in Tasks : Step(t))
  /\ \A t \in Tasks : SF_vars(Locks(t))
  /\ SF_vars(Telemetry("mqtt")) /\ SF_vars(CommitCollected("mqtt", FALSE))

-----------------------------------------------------------------------------
(* A rule that still has retries left goes one beyond them at most, and one *)
(* more for each answer that came again: _schedule_retry has no limit.      *)
RetriesAreBounded == \A r \in RulesInForce : rows[r].retry <= MaxRetries + 1 + repeats

(* A delay rule sends at most one command, whatever is paused, resumed or   *)
(* restarted.                                                              *)
DelayFiresOnce ==
  \A r \in spec : r.kind = "delay" =>
    Cardinality({c \in CommandIds : cmds[c] # Free /\ r \in cmds[c].key.rules}) <= 1

OpenCommands(r) == {c \in CommandIds : cmds[c].status = "open" /\ r \in cmds[c].key.rules}

(* A rule has one command on its way; a crash between the creation of a     *)
(* command and the note of it in the row can leave one more.               *)
OneOpenCommand ==
  \A r \in RulesInForce :
    Cardinality(OpenCommands(r)) <= 1 + crashes

(* What an evaluation is about to send, nobody else's claim has overtaken:  *)
(* the actuator is claimed by the same rules, or a request released it.    *)
ClaimIsOwnOrGone ==
  \A t \in Tasks : ev[t].cand # None /\ ActuatorOf(ev[t].cand) # None =>
    claims[ActuatorOf(ev[t].cand)] \in {NoClaim, [rules |-> ev[t].cand.rules, conflict |-> FALSE]}

(* An evaluation that looked at the conditions does not give the system an  *)
(* actuator for which a rule of the user's running plan holds.             *)
SystemYields ==
  [][\A a \in Actuators, t \in Tasks :
       /\ ev[t].at = "collect" /\ ev'[t].at # "collect" /\ claims'[a] # claims[a]
       /\ "user" \in ev[t].view /\ plans'["user"] = "active"
       /\ \E r \in spec : r.actuator = a /\ rows'[r].last = "true"
       => SystemRules \cap claims'[a].rules = {}]_vars

(* A plan whose end is past does not stay active while automation is on.    *)
PlanEnds == plans["user"] = "active" /\ over ~> plans["user"] # "active" \/ ~enabled

(* The claim of a plan that is not active is released, even if a request    *)
(* stopped the plan while an evaluation was making the claim; provided that *)
(* some other plan is active.                                              *)
ClaimReleased ==
  \A p \in Plans, a \in Actuators :
    (claims[a].rules \cap RulesOf(p) # {} /\ plans[p] # "active")
      ~> \/ claims[a].rules \cap RulesOf(p) = {}
         \/ \A q \in Plans : plans[q] # "active"

(* As long as the system's rule holds and its actuator is not where it      *)
(* should be, its command is sent again and again, or its retries are used  *)
(* up.                                                                     *)
Wanted(r) ==
  /\ enabled /\ plans["system"] = "active" /\ plans["user"] # "active"
  /\ obs.online /\ r \in obs.facts /\ r.actuator \notin obs.manual
  /\ obs.reported[r.actuator] # r.command

KeepsTrying ==
  \A r \in SystemRules :
    <>[]Wanted(r) => []<>(OpenCommands(r) # {} \/ rows[r].retry > MaxRetries)

(* docs/architecture.md:35: "A stable user condition owns only that         *)
(* actuator while it remains true": while it remains true, its plan runs    *)
(* and nothing restarts, the condition's claim stands.                     *)
UserConditionOwns ==
  [][\A a \in Actuators : \A r \in claims[a].rules \cap spec :
       /\ IsCondition(r) /\ rows'[r].last = "true" /\ plans'["user"] = "active" /\ enabled
       /\ requests' = requests /\ crashes' = crashes
       => r \in claims'[a].rules]_vars
=============================================================================
