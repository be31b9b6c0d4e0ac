-------------------------- MODULE AutomationPlans --------------------------
(***************************************************************************)
(* Automation plans of one device and the strategies an AI proposes for    *)
(* them (server/app/adapters/automation_plans.py).  Every request that     *)
(* changes a plan or resolves a strategy locks the device's row first; the *)
(* automation runtime ends plans and fires rules without that lock, so a   *)
(* request may write over rows it read before the runtime committed.       *)
(*                                                                         *)
(* plans       status and current version of each plan; one system plan,   *)
(*             the others are the users'                                   *)
(* specs       the version rows of each plan                               *)
(* rules       per plan, the state rows of its current version: armed,     *)
(*             fired (last_fired_at, last_command_id) or none              *)
(* strategies  the AI's proposals                                          *)
(* enabled     the policy's switch; caps: the commands the device          *)
(*             advertised, {} while they are unknown                       *)
(* api         per client, the rows that its open transaction read, or     *)
(*             Closed; requests counts the requests sent (bound)           *)
(* runtime     the plan version the runtime read and has not committed     *)
(* refused     plans whose replacement request was answered with nothing   *)
(*             but the plan that it was to replace                         *)
(***************************************************************************)
EXTENDS Naturals, FiniteSets

CONSTANTS UserPlans, SystemPlan, Strategies, Clients,
  RuleIds,      \* rule ids of the users' plans
  Specs,        \* the plan specifications requests carry, valid ones and others
  Legacy,       \* whether the database holds version 1 of the system plan
  Capabilities, \* command sets the device may advertise
  MaxVersion,   \* bound: versions of a plan
  MaxRequests,  \* bound: requests that take the lock or change the policy;
                \* nothing else arrives after the last one either
  None

ASSUME ConstantsAssumption ==
  /\ SystemPlan \notin UserPlans /\ None \notin UserPlans \cup {SystemPlan}
  /\ MaxVersion \in Nat /\ MaxVersion >= 2 /\ MaxRequests \in Nat
  /\ Legacy \in BOOLEAN
  /\ Capabilities \subseteq SUBSET {"led.on", "led.off", "window.open", "window.close"}

VARIABLES plans, specs, rules, strategies, enabled, caps, api, runtime, refused, requests

vars == <<plans, specs, rules, strategies, enabled, caps, api, runtime, refused, requests>>

PlanIds == UserPlans \cup {SystemPlan}
Versions == 1 .. MaxVersion
SafeCommands == {"led.on", "led.off", "window.open", "window.close"}

(* SYSTEM_ENVIRONMENT_SPEC, version 2; version 1 had no rule for the air.    *)
SystemVersion == 2
SystemRule(id, command) == [id |-> id, after |-> 0, command |-> command]
SystemSpec ==
  [duration |-> 86400, clarify |-> FALSE,
   rules |-> {SystemRule("light-on", "led.on"), SystemRule("light-off", "led.off"),
              SystemRule("air-open", "window.open")}]
LegacySpec ==
  [SystemSpec EXCEPT !.rules = {r \in SystemSpec.rules : r.id # "air-open"}]
AllRuleIds == RuleIds \cup {r.id : r \in SystemSpec.rules}

Live == {"active", "paused"}                    \* ACTIVE_PLAN_STATUSES
Ended == {"completed", "cancelled", "failed", "superseded"}
PlanRow == [status: {"absent", "draft"} \cup Live \cup Ended, version: Nat]
RuleRows == [AllRuleIds -> {"none", "armed", "fired"}]

(* A strategy names the plan version it was derived from, or no plan: then  *)
(* its approval makes a new plan (kind).                                   *)
StrategyRow == [status: {"absent", "proposed", "skipped", "approved", "rejected"},
                plan: PlanIds \cup {None}, base: Nat, spec: Specs \cup {None},
                kind: {"new", "change"}]

Request == [open: {TRUE}, plans: [PlanIds -> PlanRow], rules: [PlanIds -> RuleRows]]
Closed == [open |-> FALSE, plans |-> None, rules |-> None]
Free == [plan |-> None, version |-> 0]

TypeOK ==
  /\ plans \in [PlanIds -> PlanRow]
  /\ specs \in [PlanIds -> [Versions -> Specs \cup {SystemSpec, LegacySpec, None}]]
  /\ rules \in [PlanIds -> RuleRows]
  /\ strategies \in [Strategies -> StrategyRow]
  /\ enabled \in BOOLEAN
  /\ caps \in SUBSET SafeCommands
  /\ api \in [Clients -> Request \cup {Closed}]
  /\ runtime \in [plan: PlanIds \cup {None}, version: Nat]
  /\ refused \in SUBSET UserPlans
  /\ requests \in 0 .. MaxRequests

-----------------------------------------------------------------------------
(* Specifications: a duration, open questions, and rules with an id, a      *)
(* trigger (after: seconds of a delay, 0 for the other triggers) and a      *)
(* command.                                                                *)
Commands(spec) == {r.command : r \in spec.rules}
IdsOf(spec) == {r.id : r \in spec.rules}

(* _validate_trigger, _validate_action *)
ValidRule(r) == (r.after = 0 \/ r.after \in 15 .. 86400) /\ r.command \in SafeCommands

(* validate_plan_spec: valid rules with ids of their own, delays that end   *)
(* within the plan, and a plan without rules only while questions are open. *)
Valid(spec) ==
  /\ spec.duration \in 60 .. 86400
  /\ \A r \in spec.rules : ValidRule(r)
  /\ \A r, q \in spec.rules : r.id = q.id => r = q
  /\ \A r \in spec.rules : r.after <= spec.duration
  /\ spec.rules # {} \/ spec.clarify

(* _initialize_states: one fresh row per rule.                              *)
FreshRules(spec) == [r \in AllRuleIds |-> IF r \in IdsOf(spec) THEN "armed" ELSE "none"]

(* structural_diff: the fields in which a proposal differs from its base.   *)
StructuralDiff(base, proposed) ==
  {field \in DOMAIN proposed : base[field] # proposed[field]}

Unchanged(old, new, r) == \E q \in old.rules \cap new.rules : q.id = r

(* Mutant: an approval starts every rule afresh.                            *)
CopiedRulesReset(rows, old, new) == FreshRules(new)

(* _copy_or_initialize_states: a rule that is the same in both versions     *)
(* keeps its row.                                                          *)
CopiedRules(rows, old, new) ==
  [r \in AllRuleIds |-> IF r \in IdsOf(new) /\ Unchanged(old, new, r) THEN rows[r]
                     ELSE FreshRules(new)[r]]

(* _active_user_plan: the other plan that is active or paused.              *)
ActiveUserPlan(rows, p) == {q \in UserPlans \ {p} : rows[q].status \in Live}

Questions(spec) == IF spec.clarify THEN {"clarification"} ELSE {}

(* _activation_blockers *)
Blockers(rows, p, spec) ==
     Questions(spec)
  \cup (IF spec.rules = {} THEN {"no_executable_rules"} ELSE {})
  \cup (IF enabled THEN {} ELSE {"automation_policy_disabled"})
  \cup (IF ActiveUserPlan(rows, p) = {} THEN {} ELSE {"active_plan"})
  \cup (IF Commands(spec) \subseteq caps THEN {} ELSE {"unsupported_command"})

(* What a query of an open session sees: autoflush is off, so the rows as   *)
(* they were read and not what the session has assigned since.              *)
Queried(read, assigned) == read

SpecOf(p) == specs[p][plans[p].version]

-----------------------------------------------------------------------------
Init ==
  /\ plans = [p \in PlanIds |->
       IF p = SystemPlan /\ Legacy THEN [status |-> "active", version |-> 1]
       ELSE [status |-> "absent", version |-> 0]]
  /\ specs = [p \in PlanIds |-> [v \in Versions |->
       IF p = SystemPlan /\ v = 1 /\ Legacy THEN LegacySpec ELSE None]]
  /\ rules = [p \in PlanIds |-> [r \in AllRuleIds |->
       IF p = SystemPlan /\ Legacy /\ r \in IdsOf(LegacySpec) THEN "fired" ELSE "none"]]
  /\ strategies = [s \in Strategies |->
       [status |-> "absent", plan |-> None, base |-> 0, spec |-> None, kind |-> "new"]]
  /\ enabled = TRUE /\ caps = {}
  /\ api = [c \in Clients |-> Closed]
  /\ runtime = Free /\ refused = {} /\ requests = 0

(* ensure_system_plan: creates the plan at the managed version, or brings a *)
(* plan of an older one up to it; rules of the same name keep their rows.   *)
EnsureSystemPlan ==
  /\ requests < MaxRequests
  /\ plans[SystemPlan].version < SystemVersion
  /\ plans' = [plans EXCEPT ![SystemPlan] =
       [status |-> IF @.status = "absent" THEN "active" ELSE @.status,
        version |-> SystemVersion]]
  /\ specs' = [specs EXCEPT ![SystemPlan][SystemVersion] = SystemSpec]
  /\ rules' = [rules EXCEPT ![SystemPlan] =
       [r \in AllRuleIds |-> IF r \in IdsOf(SystemSpec) /\ @[r] # "none" THEN @[r]
                          ELSE FreshRules(SystemSpec)[r]]]
  /\ UNCHANGED <<strategies, enabled, caps, api, runtime, refused, requests>>

-----------------------------------------------------------------------------
(* Requests.  _lock_device takes the device's row; the rows are read under  *)
(* the lock and the transaction commits, or raises and rolls back.          *)
Open(c) == api[c].open

(* Mutant: the device's row is not locked.                                  *)
NoLock == TRUE

LockDevice == \A d \in Clients : ~Open(d)

Begin(c) ==
  /\ requests < MaxRequests
  /\ requests' = requests + 1
  /\ LockDevice
  /\ api' = [api EXCEPT ![c] = [open |-> TRUE, plans |-> plans, rules |-> rules]]
  /\ UNCHANGED <<plans, specs, rules, strategies, enabled, caps, runtime, refused>>

Rollback(c) ==
  /\ Open(c)
  /\ api' = [api EXCEPT ![c] = Closed]
  /\ UNCHANGED <<plans, specs, rules, strategies, enabled, caps, runtime, refused, requests>>

Commit(c) == Open(c) /\ api' = [api EXCEPT ![c] = Closed]

(* create_draft: active at once when nothing blocks it.                     *)
CreatePlan(c, p, spec) ==
  /\ Commit(c)
  /\ plans[p].status = "absent" /\ Valid(spec)
  /\ plans' = [plans EXCEPT ![p] =
       [status |-> IF Blockers(api[c].plans, p, spec) = {} THEN "active" ELSE "draft",
        version |-> 1]]
  /\ specs' = [specs EXCEPT ![p][1] = spec]
  /\ rules' = [rules EXCEPT ![p] = FreshRules(spec)]
  /\ UNCHANGED <<strategies, enabled, caps, runtime, refused, requests>>

(* transition: activate.  The plan to replace is marked superseded in the   *)
(* session, then the blockers are queried.  A paused plan takes up its rows *)
(* where it left them; a draft starts with fresh ones.                      *)
Activate(c, p, replace) ==
  LET seen == api[c].plans
      other == ActiveUserPlan(seen, p)
      assigned == [q \in PlanIds |->
                     IF q \in other THEN [seen[q] EXCEPT !.status = "superseded"] ELSE seen[q]]
      blockers == Blockers(Queried(seen, assigned), p, SpecOf(p))
  IN /\ Commit(c)
     /\ seen[p].status \in {"draft", "paused"}
     /\ other # {} => replace
     /\ IF blockers = {}
        THEN /\ plans' = [q \in PlanIds |->
                            CASE q = p -> [plans[q] EXCEPT !.status = "active"]
                              [] q \in other -> [plans[q] EXCEPT !.status = "superseded"]
                              [] OTHER -> plans[q]]
             /\ rules' = IF seen[p].status = "draft"
                         THEN [rules EXCEPT ![p] = FreshRules(SpecOf(p))] ELSE rules
             /\ refused' = refused \ {p}
        ELSE /\ UNCHANGED <<plans, rules>>
             /\ refused' = IF replace /\ blockers = {"active_plan"}
                           THEN refused \cup {p} ELSE refused
     /\ UNCHANGED <<specs, strategies, enabled, caps, runtime, requests>>

(* transition: pause, resume and cancel.  The system plan has no activate   *)
(* and no cancel.                                                          *)
SetStatus(c, p, from, to) ==
  /\ Commit(c)
  /\ api[c].plans[p].status \in from
  /\ plans' = [plans EXCEPT ![p].status = to]
  /\ UNCHANGED <<specs, rules, strategies, enabled, caps, runtime, refused, requests>>

Pause(c, p) == SetStatus(c, p, {"active"}, "paused")
Resume(c, p) == SetStatus(c, p, {"paused"}, "active")
Cancel(c, p) == SetStatus(c, p, {"draft", "active", "paused"}, "cancelled")

-----------------------------------------------------------------------------
(* propose_strategy: for a plan's current version, or for a new plan.  A    *)
(* proposal that changes nothing (structural_diff is empty) is skipped.     *)
Propose(s, p, spec) ==
  /\ requests < MaxRequests
  /\ strategies[s].status = "absent" /\ Valid(spec)
  /\ p # None => plans[p].status # "absent"
  /\ strategies' = [strategies EXCEPT ![s] =
       [status |-> IF p # None /\ StructuralDiff(SpecOf(p), spec) = {}
                  THEN "skipped" ELSE "proposed",
        plan |-> p, base |-> IF p = None THEN 0 ELSE plans[p].version,
        spec |-> spec, kind |-> IF p = None THEN "new" ELSE "change"]]
  /\ UNCHANGED <<plans, specs, rules, enabled, caps, api, runtime, refused, requests>>

(* resolve_strategy *)
Reject(c, s) ==
  /\ Commit(c)
  /\ strategies[s].status = "proposed"
  /\ strategies' = [strategies EXCEPT ![s].status = "rejected"]
  /\ UNCHANGED <<plans, specs, rules, enabled, caps, runtime, refused, requests>>

(* Mutant: the base version is not compared.                                *)
AnyBase(s) == TRUE

BaseIsCurrent(s) == plans[strategies[s].plan].version = strategies[s].base

(* Approval of a change: the base must still be the current version; the    *)
(* plan's status is not looked at.                                         *)
ApproveVersion(c, s) ==
  LET p == strategies[s].plan
      next == plans[p].version + 1
  IN /\ Commit(c)
     /\ strategies[s].status = "proposed" /\ strategies[s].kind = "change"
     /\ BaseIsCurrent(s)
     /\ Valid(strategies[s].spec)
     /\ Blockers(api[c].plans, p, strategies[s].spec) = {}
     /\ next \in Versions
     /\ specs' = [specs EXCEPT ![p][next] = strategies[s].spec]
     /\ rules' = [rules EXCEPT ![p] =
                    CopiedRules(api[c].rules[p], SpecOf(p), strategies[s].spec)]
     /\ plans' = [plans EXCEPT ![p].version = next]
     /\ strategies' = [strategies EXCEPT ![s].status = "approved"]
     /\ UNCHANGED <<enabled, caps, runtime, refused, requests>>

ApproveNew(c, s, p) ==
  /\ Commit(c)
  /\ strategies[s].status = "proposed" /\ strategies[s].kind = "new"
  /\ plans[p].status = "absent" /\ Valid(strategies[s].spec)
  /\ Blockers(api[c].plans, p, strategies[s].spec) = {}
  /\ plans' = [plans EXCEPT ![p] = [status |-> "active", version |-> 1]]
  /\ specs' = [specs EXCEPT ![p][1] = strategies[s].spec]
  /\ rules' = [rules EXCEPT ![p] = FreshRules(strategies[s].spec)]
  /\ strategies' = [strategies EXCEPT ![s] = [@ EXCEPT !.status = "approved",
                                                      !.plan = p, !.base = 1]]
  /\ UNCHANGED <<enabled, caps, runtime, refused, requests>>

-----------------------------------------------------------------------------
(* The runtime, which takes no lock (AutomationRuntime has its detail): it  *)
(* reads an active plan and commits later that a rule fired or that the     *)
(* plan ended.                                                             *)
RuntimeRead(p) ==
  /\ runtime = Free
  /\ plans[p].status = "active"
  /\ runtime' = [plan |-> p, version |-> plans[p].version]
  /\ UNCHANGED <<plans, specs, rules, strategies, enabled, caps, api, refused, requests>>

(* The state row belongs to the version that was read.                      *)
RuntimeFire(r) ==
  LET p == runtime.plan
  IN /\ p # None /\ r \in IdsOf(specs[p][runtime.version])
     /\ rules' = IF plans[p].version = runtime.version /\ rules[p][r] # "none"
                 THEN [rules EXCEPT ![p][r] = "fired"] ELSE rules
     /\ runtime' = Free
     /\ UNCHANGED <<plans, specs, strategies, enabled, caps, api, refused, requests>>

Outcomes == {"completed", "failed"}

RuntimeEnd(outcome) ==
  /\ runtime.plan \in UserPlans
  /\ plans' = [plans EXCEPT ![runtime.plan].status = outcome]
  /\ runtime' = Free
  /\ UNCHANGED <<specs, rules, strategies, enabled, caps, api, refused, requests>>

(* update_policy, a request without the lock; the device's capabilities.    *)
SetPolicy ==
  /\ requests < MaxRequests
  /\ requests' = requests + 1
  /\ enabled' = ~enabled
  /\ UNCHANGED <<plans, specs, rules, strategies, caps, api, runtime, refused>>

Advertise(commands) ==
  /\ requests < MaxRequests
  /\ caps # commands /\ commands # {}
  /\ caps' = commands
  /\ UNCHANGED <<plans, specs, rules, strategies, enabled, api, runtime, refused, requests>>

Next ==
  \/ EnsureSystemPlan \/ SetPolicy
  \/ \E c \in Clients :
       \/ Begin(c) \/ Rollback(c)
       \/ \E p \in UserPlans :
            \/ \E spec \in Specs : CreatePlan(c, p, spec)
            \/ \E replace \in BOOLEAN : Activate(c, p, replace)
            \/ Cancel(c, p)
            \/ \E s \in Strategies : ApproveNew(c, s, p)
       \/ \E p \in PlanIds : Pause(c, p) \/ Resume(c, p)
       \/ \E s \in Strategies : Reject(c, s) \/ ApproveVersion(c, s)
  \/ \E s \in Strategies, p \in PlanIds \cup {None}, spec \in Specs : Propose(s, p, spec)
  \/ \E p \in UserPlans : RuntimeRead(p)
  \/ \E r \in RuleIds : RuntimeFire(r)
  \/ \E outcome \in Outcomes : RuntimeEnd(outcome)
  \/ \E commands \in Capabilities : Advertise(commands)

Spec == Init /\ [][Next]_vars

-----------------------------------------------------------------------------
(* At most one plan of the users is active or paused, although the runtime  *)
(* ends plans between the reads and the writes of a request and every       *)
(* operation decides from the rows it read (_lock_device,                   *)
(* _active_user_plan).  The partial unique index uq_active_user_plan_...    *)
(* is left out of the model: it would answer a second one with an error,    *)
(* and the property says that it is never asked to.                        *)
OneActivePlan == Cardinality({p \in UserPlans : plans[p].status \in Live}) <= 1

(* A plan that controls the device has rules and no open question, whatever *)
(* sequence of drafts, replacements, resumptions and approved versions led  *)
(* to it: resume checks no blocker, and an approval changes the             *)
(* specification of a plan that is already active.                         *)
LiveIsExecutable ==
  \A p \in UserPlans : plans[p].status \in Live =>
    SpecOf(p).rules # {} /\ ~SpecOf(p).clarify /\ Valid(SpecOf(p))

(* Each version after the first is one approved strategy that was derived   *)
(* from the version before: no approval is lost, none overwrites another.   *)
VersionsAreApproved ==
  \A p \in UserPlans, v \in Versions \ {1} :
    LET sources == {s \in Strategies : /\ strategies[s].status = "approved"
                                       /\ strategies[s].kind = "change"
                                       /\ strategies[s].plan = p
                                       /\ strategies[s].base = v - 1}
    IN IF v <= plans[p].version
       THEN \E s \in sources : sources = {s} /\ specs[p][v] = strategies[s].spec
       ELSE sources = {}

(* An ended plan stays ended, except for a request that read it before the  *)
(* runtime ended it.                                                       *)
EndedIsFinal ==
  [][\A p \in PlanIds : plans[p].status \in Ended /\ plans'[p].status \notin Ended =>
       \E c \in Clients : Open(c) /\ api[c].plans[p].status \notin Ended]_vars

(* That a rule fired is forgotten only when a draft starts, when the rule   *)
(* changed, or by an approval that read its row before the rule fired: a    *)
(* one-shot rule does not run twice because another rule was edited.        *)
FiringsAreKept ==
  [][\A p \in PlanIds, r \in AllRuleIds :
       rules[p][r] = "fired" /\ rules'[p][r] # "fired" =>
         \/ plans[p].status = "draft"
         \/ ~Unchanged(SpecOf(p), SpecOf(p)', r)
         \/ \E c \in Clients : Open(c) /\ api[c].rules[p][r] # "fired"]_vars

(* The console's button to confirm a replacement: an activation that may    *)
(* replace the active plan is not refused because of that plan.             *)
ReplacementIsGranted == refused = {}
=============================================================================
