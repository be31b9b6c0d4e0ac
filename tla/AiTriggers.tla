----------------------------- MODULE AiTriggers -----------------------------
(***************************************************************************)
(* What starts the AI runs of a device by itself.  The workers' patrol     *)
(* schedulers (PatrolScheduler of adapters/ai_worker.py) take turns behind *)
(* a lease of the database (job_store.py), look at what the device shows   *)
(* and queue a patrol or a strategy run when it changed or when nothing    *)
(* was looked at for too long (domain/automation.py).  The gateway queues  *)
(* a run for an incident (adapters/triggers.py), from its MQTT loop or     *)
(* from the analysis of an image.  The runs themselves are AiRuns'; here   *)
(* they start, see the device, and end.                                    *)
(*                                                                         *)
(* There is one device.  A scheduler reads in one step what its            *)
(* transaction reads, and writes in a later one.  Of the clock, the        *)
(* policy says which intervals are over.                                   *)
(***************************************************************************)
EXTENDS Naturals, Sequences, SequencesExt, FiniteSets

CONSTANTS
  Instances,  \* worker processes, each with a scheduler
  MaxLevel,   \* levels of the sensor readings: 0..MaxLevel
  Threshold,  \* the difference of two levels that is a change
  Gone,       \* owner of a lease whose process has ended
  None

VARIABLES
  policy,  \* automation_policies: switches, intervals over, fingerprints
  world,   \* what collect_device_snapshot shows
  runs,    \* active runs of each kind, the oldest first
  lease,   \* row "patrol-scheduler" of runtime_leases, or None
  ticks,   \* each scheduler: its step and what it has read
  calls,   \* calls of enqueue_event_run: one by each caller
  unread,  \* history: some incident came after all that a run has seen
  looked,  \* history: what the last run of each kind that succeeded saw
  budget   \* what is left of the scene

triggerVars == <<policy, world, runs, lease, ticks, calls, unread, looked, budget>>

-----------------------------------------------------------------------------
(* Types *)

Kinds == {"patrol", "strategy", "event"}
Scheduled == {"patrol", "strategy"}
Callers == {"mqtt", "pose"}

World == [window : BOOLEAN, present : BOOLEAN, level : 0..MaxLevel]

Lease == [owner : Instances \cup {Gone}, valid : BOOLEAN]

ASSUME TriggersAssumption ==
  /\ MaxLevel \in Nat /\ Threshold \in Nat \ {0}
  /\ Gone \notin Instances
  /\ None \notin World \cup Lease

Policy ==
  [enabled : BOOLEAN, on : SUBSET Scheduled, events : BOOLEAN,
   sedentary : BOOLEAN, due : SUBSET Scheduled, forced : SUBSET Scheduled,
   fingerprint : [Scheduled -> World \cup {None}]]

Run == [running : BOOLEAN, saw : World \cup {None}, covers : BOOLEAN]

Reading == [policy : Policy, world : World, active : SUBSET Scheduled]

Chances ==
  [on : SUBSET Scheduled, instances : SUBSET Instances, forces : BOOLEAN,
   stalls : BOOLEAN, samples : Nat, turns : Nat, incidents : Nat,
   failures : Nat, crashes : Nat, toggles : Nat]

TriggersTypeOK ==
  /\ policy \in Policy
  /\ world \in World
  /\ runs \in [Kinds -> Seq(Run)]
  /\ \A k \in Kinds : \A n \in DOMAIN runs[k] :
       runs[k][n].running <=> runs[k][n].saw # None
  /\ lease \in Lease \cup {None}
  /\ ticks \in [Instances -> [pc : {"idle", "insert", "read", "write"},
                              reading : Reading \cup {None}]]
  /\ calls \in [Callers -> [pc : {"idle", "look", "write"}, found : BOOLEAN]]
  /\ unread \in BOOLEAN
  /\ looked \in [Scheduled -> World \cup {None}]
  /\ budget \in Chances

TriggersInit ==
  /\ policy = [enabled |-> TRUE, on |-> budget.on, events |-> TRUE,
               sedentary |-> TRUE, due |-> Scheduled, forced |-> Scheduled,
               fingerprint |-> [k \in Scheduled |-> None]]
  /\ world = [window |-> FALSE, present |-> FALSE, level |-> 0]
  /\ runs = [k \in Kinds |-> <<>>]
  /\ lease = None
  /\ ticks = [i \in Instances |-> [pc |-> "idle", reading |-> None]]
  /\ calls = [c \in Callers |-> [pc |-> "idle", found |-> FALSE]]
  /\ unread = FALSE
  /\ looked = [k \in Scheduled |-> None]

-----------------------------------------------------------------------------
(* The device, the user and the clock *)

Spend(chance) == /\ budget[chance] > 0
                 /\ budget' = [budget EXCEPT ![chance] = @ - 1]

Sample(level) ==
  /\ level # world.level
  /\ Spend("samples")
  /\ world' = [world EXCEPT !.level = level]
  /\ UNCHANGED <<policy, runs, lease, ticks, calls, unread, looked>>

WindowTurns ==
  /\ Spend("turns")
  /\ world' = [world EXCEPT !.window = ~@]
  /\ UNCHANGED <<policy, runs, lease, ticks, calls, unread, looked>>

(* update_policy of adapters/persistence.py                                *)
Toggle ==
  /\ Spend("toggles")
  /\ \E enabled, events, sedentary \in BOOLEAN :
       policy' = [policy EXCEPT !.enabled = enabled, !.events = events,
                    !.sedentary = sedentary]
  /\ UNCHANGED <<world, runs, lease, ticks, calls, unread, looked>>

(* patrol_interval, strategy_min_interval                                  *)
IntervalEnds(k) ==
  /\ k \in policy.on \ policy.due
  /\ policy' = [policy EXCEPT !.due = @ \cup {k}]
  /\ UNCHANGED <<world, runs, lease, ticks, calls, unread, looked, budget>>

(* The force interval is no shorter than the interval.                     *)
ForceIntervalEnds(k) ==
  /\ budget.forces
  /\ k \in policy.on \ policy.forced
  /\ k \in policy.due \/ k = "patrol"
  /\ policy' = [policy EXCEPT !.forced = @ \cup {k}]
  /\ UNCHANGED <<world, runs, lease, ticks, calls, unread, looked, budget>>

-----------------------------------------------------------------------------
(* The lease of the schedulers: acquire_runtime_lease *)

(* Mutant: the lease is anybody's.                                         *)
FreeForAll(i) == TRUE

Free(i) == lease.owner = i \/ ~lease.valid

Holder(i) == [owner |-> i, valid |-> TRUE]

Acquire(i) ==
  /\ ticks[i].pc = "idle" /\ i \in budget.instances
  /\ IF lease = None
     THEN /\ ticks' = [ticks EXCEPT ![i].pc = "insert"]
          /\ UNCHANGED lease
     ELSE /\ Free(i)
          /\ lease' = Holder(i)
          /\ ticks' = [ticks EXCEPT ![i].pc = "read"]
  /\ UNCHANGED <<policy, world, runs, calls, unread, looked, budget>>

(* The first row of the lease: its name is the key, the second insert      *)
(* fails and its tick with it.                                             *)
Insert(i) ==
  /\ ticks[i].pc = "insert"
  /\ lease' = IF lease = None THEN Holder(i) ELSE lease
  /\ ticks' = [ticks EXCEPT ![i].pc = IF lease = None THEN "read" ELSE "idle"]
  /\ UNCHANGED <<policy, world, runs, calls, unread, looked, budget>>

(* A lease is three ticks long: it ends under an owner only if its tick    *)
(* stalls.                                                                 *)
LeaseExpires ==
  /\ lease # None /\ lease.valid
  /\ lease.owner \in Instances /\ ticks[lease.owner].pc # "idle"
       => budget.stalls
  /\ lease' = [lease EXCEPT !.valid = FALSE]
  /\ UNCHANGED <<policy, world, runs, ticks, calls, unread, looked, budget>>

(* A worker is killed and starts again under a new name.                   *)
WorkerCrash(i) ==
  /\ i \in budget.instances
  /\ Spend("crashes")
  /\ ticks' = [ticks EXCEPT ![i] = [pc |-> "idle", reading |-> None]]
  /\ lease' = IF lease # None /\ lease.owner = i
              THEN [lease EXCEPT !.owner = Gone] ELSE lease
  /\ UNCHANGED <<policy, world, runs, calls, unread, looked>>

-----------------------------------------------------------------------------
(* The scheduler: PatrolScheduler.tick *)

Difference(a, b) == IF a > b THEN a - b ELSE b - a

(* evaluate_patrol: state_changed, or a reading by its threshold           *)
Changed(old, new) ==
  \/ old = None
  \/ old.window # new.window \/ old.present # new.present
  \/ Difference(old.level, new.level) >= Threshold

(* Mutant: nothing is forced.                                              *)
PatrolCallsUnforced(r) == Changed(r.policy.fingerprint["patrol"], r.world)

PatrolCalls(r) ==
  \/ "patrol" \in r.policy.forced
  \/ Changed(r.policy.fingerprint["patrol"], r.world)

(* _strategy_fingerprint has the window and no readings.                   *)
StrategyChanged(r) ==
  LET old == r.policy.fingerprint["strategy"]
  IN  old = None \/ old.window # r.world.window

StrategyCalls(r) ==
  /\ "strategy" \in r.policy.due
  /\ "strategy" \in r.policy.forced \/ StrategyChanged(r)

Covered(r) ==
  {k \in r.policy.on : r.policy.enabled /\ (k = "patrol" => k \in r.policy.due)}

Calls(r) ==
  {k \in Covered(r) \ r.active :
     IF k = "patrol" THEN PatrolCalls(r) ELSE StrategyCalls(r)}

(* The fingerprints written: of a patrol that was not coalesced, skipped   *)
(* or not; of a strategy that is queued, or changed during a run.          *)
Printed(r) ==
  {k \in Covered(r) :
     IF k = "patrol" THEN k \notin r.active
     ELSE IF k \in r.active THEN StrategyChanged(r) ELSE StrategyCalls(r)}

Read(i) ==
  /\ ticks[i].pc = "read"
  /\ ticks' = [ticks EXCEPT ![i] =
       [pc |-> "write",
        reading |-> [policy |-> policy, world |-> world,
                     active |-> {k \in Scheduled : runs[k] # <<>>}]]]
  /\ UNCHANGED <<policy, world, runs, lease, calls, unread, looked, budget>>

Queued == [running |-> FALSE, saw |-> None, covers |-> FALSE]

(* Only last_checked_at and the fingerprints of the policy are written.    *)
Write(i) ==
  /\ ticks[i].pc = "write"
  /\ LET r == ticks[i].reading
     IN  /\ runs' = [k \in Kinds |->
                       IF k \in Calls(r) THEN Append(runs[k], Queued) ELSE runs[k]]
         /\ policy' = [policy EXCEPT
              !.due = @ \ (Covered(r) \cap {"patrol"}),
              !.fingerprint = [k \in Scheduled |->
                IF k \in Printed(r) THEN r.world ELSE @[k]]]
  /\ ticks' = [ticks EXCEPT ![i] = [pc |-> "idle", reading |-> None]]
  /\ UNCHANGED <<world, lease, calls, unread, looked, budget>>

-----------------------------------------------------------------------------
(* Incidents: enqueue_event_run *)

(* An incident is recorded; a run that has started has not seen it.        *)
Incident(c) ==
  /\ calls[c].pc = "idle"
  /\ calls' = [calls EXCEPT ![c] = [pc |-> "look", found |-> FALSE]]
  /\ unread' = TRUE
  /\ runs' = [k \in Kinds |->
                [n \in DOMAIN runs[k] |-> [runs[k][n] EXCEPT !.covers = FALSE]]]

DeviceIncident ==
  /\ Spend("incidents")
  /\ Incident("mqtt")
  /\ UNCHANGED <<policy, world, lease, ticks, looked>>

Active == runs["event"] # <<>>

Listens(c) ==
  policy.enabled /\ policy.events /\ (c = "pose" => policy.sedentary)

Look(c) ==
  /\ calls[c].pc = "look"
  /\ calls' = [calls EXCEPT ![c] =
       [pc |-> IF Listens(c) THEN "write" ELSE "idle", found |-> Active]]
  /\ UNCHANGED <<policy, world, runs, lease, ticks, unread, looked, budget>>

(* A run is queued, or the one found is told, if it is still there.        *)
Enqueue(c) ==
  /\ calls[c].pc = "write"
  /\ runs' = IF calls[c].found THEN runs
             ELSE [runs EXCEPT !["event"] = Append(@, Queued)]
  /\ calls' = [calls EXCEPT ![c] = [pc |-> "idle", found |-> FALSE]]
  /\ UNCHANGED <<policy, world, lease, ticks, unread, looked, budget>>

-----------------------------------------------------------------------------
(* The runs: AiRunWorker and complete or fail of the job store *)

Start(k, n) ==
  /\ n \in DOMAIN runs[k] /\ ~runs[k][n].running
  /\ runs' = [runs EXCEPT ![k][n] =
                [running |-> TRUE, saw |-> world, covers |-> TRUE]]
  /\ UNCHANGED <<policy, world, lease, ticks, calls, unread, looked, budget>>

(* last_model_run_at and last_strategy_run_at are set by a success only.   *)
Succeed(k, n) ==
  /\ n \in DOMAIN runs[k] /\ runs[k][n].running
  /\ runs' = [runs EXCEPT ![k] = RemoveAt(@, n)]
  /\ unread' = (unread /\ ~runs[k][n].covers)
  /\ IF k \in Scheduled
     THEN /\ looked' = [looked EXCEPT ![k] = runs[k][n].saw]
          /\ policy' = [policy EXCEPT !.forced = @ \ {k},
                          !.due = IF k = "strategy" THEN @ \ {k} ELSE @]
     ELSE UNCHANGED <<looked, policy>>
  /\ UNCHANGED <<world, lease, ticks, calls, budget>>

(* A run fails for good, or is tried again, also one of a lost worker.     *)
Fail(k, n) ==
  /\ n \in DOMAIN runs[k] /\ runs[k][n].running
  /\ Spend("failures")
  /\ \/ runs' = [runs EXCEPT ![k] = RemoveAt(@, n)]
     \/ runs' = [runs EXCEPT ![k][n] = Queued]
  /\ UNCHANGED <<policy, world, lease, ticks, calls, unread, looked>>

-----------------------------------------------------------------------------
(* More active runs of a kind than there are do not occur.                 *)
MaxRuns == 3

Schedule(i) == Acquire(i) \/ Insert(i) \/ Read(i) \/ Write(i)
Call(c) == Look(c) \/ Enqueue(c)
Work(k, n) == Start(k, n) \/ Succeed(k, n)

TriggersNext ==
  \/ \E level \in 0..MaxLevel : Sample(level)
  \/ WindowTurns \/ Toggle \/ LeaseExpires \/ DeviceIncident
  \/ \E k \in Scheduled : IntervalEnds(k) \/ ForceIntervalEnds(k)
  \/ \E i \in Instances : Schedule(i) \/ WorkerCrash(i)
  \/ \E c \in Callers : Call(c)
  \/ \E k \in Kinds, n \in 1..MaxRuns : Work(k, n) \/ Fail(k, n)

-----------------------------------------------------------------------------
(* Properties *)

(* The schedulers of all workers queue one patrol and one strategy run at  *)
(* a time, through crashes and at the end of a lease, unless a tick stalls *)
(* beyond its lease.                                                       *)
OneScheduledRun ==
  ~budget.stalls => \A k \in Scheduled : Len(runs[k]) <= 1

(* Callers that look at the same time queue a run each, and never more.    *)
EventRunsBounded == Len(runs["event"]) <= Cardinality(Callers)

On(k) == policy.enabled /\ k \in policy.on

(* What the properties ask for holds again and again; as the changes of a  *)
(* behaviour come to an end, it stays.                                     *)

(* A change of a state, if it stays, is looked at by a patrol without      *)
(* waiting for the force interval, if runs do not fail.                    *)
ChangeIsLookedAt ==
  []<>(\/ budget.turns > 0 \/ ~On("patrol")
       \/ looked["patrol"] # None /\ looked["patrol"].window = world.window)

(* With force intervals that end, what stays is looked at by a patrol and  *)
(* by a review of the strategy, whatever was coalesced, drifted slowly or  *)
(* failed.                                                                 *)
ForcedIsLookedAt ==
  \A k \in Scheduled : []<>(budget.forces /\ On(k) => looked[k] = world)

(* An incident is seen by a run that starts after it and succeeds, if      *)
(* patrols are on: also one that was coalesced into a run already running, *)
(* and one whose call a crash ended.                                       *)
IncidentIsSeen == []<>(budget.forces /\ On("patrol") => ~unread)
=============================================================================
