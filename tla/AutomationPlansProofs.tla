----------------------- MODULE AutomationPlansProofs -----------------------
(***************************************************************************)
(* Proofs about AutomationPlans: types, at most one active plan of the     *)
(* users, every plan in force executable, every version approved, and no   *)
(* firing forgotten.  The argument: requests hold the device's lock one at *)
(* a time, and while one is open nobody but the runtime changes a plan of  *)
(* the users, which only ends plans; so what the request read              *)
(* over-approximates the plans in force when it writes.                    *)
(***************************************************************************)
EXTENDS AutomationPlans, TLAPS, FiniteSetTheorems

(* Fresh and copied state rows are rows.                                    *)
LEMMA RowsType ==
  /\ \A spec : FreshRules(spec) \in RuleRows
  /\ \A rows \in RuleRows : \A old, new : CopiedRules(rows, old, new) \in RuleRows
BY DEF FreshRules, CopiedRules, RuleRows

(* A resolved strategy is a strategy row.                                   *)
LEMMA ResolvedType ==
  ASSUME NEW row \in StrategyRow, NEW status \in {"rejected", "approved"}
  PROVE /\ [row EXCEPT !.status = status] \in StrategyRow
        /\ \A p \in PlanIds :
             [row EXCEPT !.status = status, !.plan = p, !.base = 1] \in StrategyRow
BY DEF StrategyRow

(* The initial state has the declared types.                                *)
LEMMA InitType == Init => TypeOK
<1> SUFFICES ASSUME Init PROVE TypeOK
  OBVIOUS
<1>1. plans \in [PlanIds -> PlanRow]
  BY DEF Init, PlanRow, Live, Ended
<1>2. specs \in [PlanIds -> [Versions -> Specs \cup {SystemSpec, LegacySpec, None}]]
  BY DEF Init
<1>3. rules \in [PlanIds -> RuleRows]
  BY DEF Init, RuleRows
<1>4. strategies \in [Strategies -> StrategyRow]
  BY DEF Init, StrategyRow
<1>5. api \in [Clients -> Request \cup {Closed}]
  BY DEF Init
<1>6. enabled \in BOOLEAN
  BY DEF Init
<1>7. caps \in SUBSET SafeCommands /\ refused \in SUBSET UserPlans
  BY DEF Init
<1>8. runtime \in [plan: PlanIds \cup {None}, version: Nat] /\ requests \in 0 .. MaxRequests
  BY ConstantsAssumption DEF Init, Free
<1>9. QED
  BY <1>1, <1>2, <1>3, <1>4, <1>5, <1>6, <1>7, <1>8 DEF TypeOK

(* A step keeps the declared types.                                         *)
LEMMA StepType == TypeOK /\ [Next]_vars => TypeOK'
<1> SUFFICES ASSUME TypeOK, [Next]_vars PROVE TypeOK'
  OBVIOUS
<1> USE ConstantsAssumption
<1>1. CASE EnsureSystemPlan
  <2>1. plans' \in [PlanIds -> PlanRow]
    BY <1>1 DEF EnsureSystemPlan, TypeOK, PlanRow, Live, Ended, SystemVersion, PlanIds
  <2>2. specs' \in [PlanIds -> [Versions -> Specs \cup {SystemSpec, LegacySpec, None}]]
    <3> DEFINE row == [specs[SystemPlan] EXCEPT ![SystemVersion] = SystemSpec]
    <3>1. row \in [Versions -> Specs \cup {SystemSpec, LegacySpec, None}]
      BY DEF TypeOK, PlanIds
    <3>2. specs' = [specs EXCEPT ![SystemPlan] = row]
      BY <1>1 DEF EnsureSystemPlan
    <3>3. QED
      BY <3>1, <3>2 DEF TypeOK
  <2>3. rules' \in [PlanIds -> RuleRows]
    BY <1>1, RowsType DEF EnsureSystemPlan, TypeOK, RuleRows, PlanIds
  <2>4. QED
    BY <1>1, <2>1, <2>2, <2>3 DEF EnsureSystemPlan, TypeOK
<1>2. CASE SetPolicy
  BY <1>2 DEF SetPolicy, TypeOK
<1>3. ASSUME NEW c \in Clients, Begin(c) PROVE TypeOK'
  <2>1. [open |-> TRUE, plans |-> plans, rules |-> rules] \in Request
    BY DEF TypeOK, Request
  <2>2. api' \in [Clients -> Request \cup {Closed}]
    BY <1>3, <2>1 DEF Begin, TypeOK
  <2>3. requests' \in 0 .. MaxRequests
    BY <1>3 DEF Begin, TypeOK
  <2>4. QED
    BY <1>3, <2>2, <2>3 DEF Begin, TypeOK
<1>4. ASSUME NEW c \in Clients, Rollback(c) PROVE TypeOK'
  BY <1>4 DEF Rollback, TypeOK
<1>5. ASSUME NEW c \in Clients, NEW p \in UserPlans, NEW spec \in Specs, CreatePlan(c, p, spec)
      PROVE TypeOK'
  <2>1. plans' \in [PlanIds -> PlanRow]
    BY <1>5 DEF CreatePlan, TypeOK, PlanRow, Live, Ended
  <2>2. specs' \in [PlanIds -> [Versions -> Specs \cup {SystemSpec, LegacySpec, None}]]
    <3> DEFINE row == [specs[p] EXCEPT ![1] = spec]
    <3>1. row \in [Versions -> Specs \cup {SystemSpec, LegacySpec, None}]
      BY DEF TypeOK, PlanIds
    <3>2. specs' = [specs EXCEPT ![p] = row]
      BY <1>5 DEF CreatePlan
    <3>3. QED
      BY <3>1, <3>2 DEF TypeOK
  <2>3. rules' \in [PlanIds -> RuleRows]
    BY <1>5, RowsType DEF CreatePlan, TypeOK
  <2>4. QED
    BY <1>5, <2>1, <2>2, <2>3 DEF CreatePlan, Commit, TypeOK
<1>6. ASSUME NEW c \in Clients, NEW p \in UserPlans, NEW replace \in BOOLEAN,
             Activate(c, p, replace)
      PROVE TypeOK'
  <2>1. plans' \in [PlanIds -> PlanRow]
    <3> DEFINE other == ActiveUserPlan(api[c].plans, p)
               next == [q \in PlanIds |->
                          CASE q = p -> [plans[q] EXCEPT !.status = "active"]
                            [] q \in other -> [plans[q] EXCEPT !.status = "superseded"]
                            [] OTHER -> plans[q]]
    <3>1. plans' = next \/ plans' = plans
      BY <1>6 DEF Activate
    <3>2. ASSUME NEW q \in PlanIds
          PROVE /\ plans[q] \in PlanRow
                /\ [plans[q] EXCEPT !.status = "active"] \in PlanRow
                /\ [plans[q] EXCEPT !.status = "superseded"] \in PlanRow
      BY DEF TypeOK, PlanRow, Live, Ended
    <3> HIDE DEF other
    <3>3. ASSUME NEW q \in PlanIds PROVE next[q] \in PlanRow
      <4>1. CASE q = p
        BY <3>2, <4>1
      <4>2. CASE q # p /\ q \in other
        BY <3>2, <4>2
      <4>3. CASE q # p /\ q \notin other
        BY <3>2, <4>3
      <4>4. QED
        BY <4>1, <4>2, <4>3
    <3>4. next \in [PlanIds -> PlanRow]
      BY <3>3
    <3>5. QED
      BY <3>1, <3>4 DEF TypeOK
  <2>2. rules' \in [PlanIds -> RuleRows]
    <3>1. rules' \in {rules, [rules EXCEPT ![p] = FreshRules(SpecOf(p))]}
      BY <1>6 DEF Activate
    <3> QED  BY <3>1, RowsType DEF TypeOK
  <2>3. refused' \in SUBSET UserPlans
    BY <1>6 DEF Activate, TypeOK
  <2>4. QED
    BY <1>6, <2>1, <2>2, <2>3 DEF Activate, Commit, TypeOK
<1>7. ASSUME NEW c \in Clients, NEW p \in PlanIds, NEW from, NEW to \in Live \cup Ended,
             SetStatus(c, p, from, to)
      PROVE TypeOK'
  <2>1. [plans[p] EXCEPT !.status = to] \in PlanRow
    BY DEF TypeOK, PlanRow
  <2>2. plans' = [plans EXCEPT ![p] = [plans[p] EXCEPT !.status = to]]
    BY <1>7 DEF SetStatus
  <2>3. plans' \in [PlanIds -> PlanRow]
    BY <2>1, <2>2 DEF TypeOK
  <2>4. QED
    BY <1>7, <2>3 DEF SetStatus, Commit, TypeOK
<1>8. ASSUME NEW s \in Strategies, NEW p \in PlanIds \cup {None}, NEW spec \in Specs,
             Propose(s, p, spec)
      PROVE TypeOK'
  <2> DEFINE row == [status |-> IF p # None /\ StructuralDiff(SpecOf(p), spec) = {}
                               THEN "skipped" ELSE "proposed",
                     plan |-> p, base |-> IF p = None THEN 0 ELSE plans[p].version,
                     spec |-> spec, kind |-> IF p = None THEN "new" ELSE "change"]
  <2>1. (IF p = None THEN 0 ELSE plans[p].version) \in Nat
    BY DEF TypeOK, PlanRow
  <2>2. row \in StrategyRow
    BY <2>1 DEF StrategyRow
  <2>3. strategies' = [strategies EXCEPT ![s] = row]
    BY <1>8 DEF Propose
  <2>4. QED
    BY <1>8, <2>2, <2>3 DEF Propose, TypeOK
<1>9. ASSUME NEW c \in Clients, NEW s \in Strategies, Reject(c, s) PROVE TypeOK'
  <2>1. [strategies[s] EXCEPT !.status = "rejected"] \in StrategyRow
    BY ResolvedType DEF TypeOK
  <2>2. strategies' = [strategies EXCEPT ![s] = [strategies[s] EXCEPT !.status = "rejected"]]
    BY <1>9 DEF Reject
  <2>3. strategies' \in [Strategies -> StrategyRow]
    BY <2>1, <2>2 DEF TypeOK
  <2>4. QED
    BY <1>9, <2>3 DEF Reject, Commit, TypeOK
<1>10. ASSUME NEW c \in Clients, NEW s \in Strategies, ApproveVersion(c, s) PROVE TypeOK'
  <2> DEFINE p == strategies[s].plan
             next == plans[p].version + 1
             row == [specs[p] EXCEPT ![next] = strategies[s].spec]
  <2>1. /\ Commit(c) /\ next \in Versions
        /\ specs' = [specs EXCEPT ![p] = row]
        /\ rules' = [rules EXCEPT ![p] =
                       CopiedRules(api[c].rules[p], SpecOf(p), strategies[s].spec)]
        /\ plans' = [plans EXCEPT ![p].version = next]
        /\ strategies' = [strategies EXCEPT ![s].status = "approved"]
        /\ UNCHANGED <<enabled, caps, runtime, refused, requests>>
    BY <1>10 DEF ApproveVersion
  <2>2. strategies[s].spec \in Specs \cup {None}
    BY DEF TypeOK, StrategyRow
  <2>3. plans' \in [PlanIds -> PlanRow]
    <3>0. next \in Nat
      BY <2>1, ConstantsAssumption DEF Versions
    <3>2. plans' = [plans EXCEPT ![p] = [plans[p] EXCEPT !.version = next]]
      BY <2>1
    <3> HIDE DEF p, next
    <3>1. p \in PlanIds => [plans[p] EXCEPT !.version = next] \in PlanRow
      BY <3>0 DEF TypeOK, PlanRow
    <3>3. QED
      BY <3>1, <3>2 DEF TypeOK
  <2>4. p \in PlanIds => row \in [Versions -> Specs \cup {SystemSpec, LegacySpec, None}]
    BY <2>2 DEF TypeOK
  <2>5. specs' \in [PlanIds -> [Versions -> Specs \cup {SystemSpec, LegacySpec, None}]]
    <3> HIDE DEF p, row
    <3>1. QED
      BY <2>1, <2>4 DEF TypeOK
  <2>6. api[c].rules \in [PlanIds -> RuleRows]
    <3>1. api[c] \in Request \cup {Closed} /\ api[c].open
      BY <2>1 DEF Commit, Open, TypeOK
    <3>2. api[c] \in Request
      BY <3>1 DEF Closed
    <3>3. QED
      BY <3>2 DEF Request
  <2>7. rules' \in [PlanIds -> RuleRows]
    BY <2>1, <2>6, RowsType DEF TypeOK
  <2>8. strategies' \in [Strategies -> StrategyRow]
    <3>1. [strategies[s] EXCEPT !.status = "approved"] \in StrategyRow
      BY ResolvedType DEF TypeOK
    <3>2. strategies' = [strategies EXCEPT ![s] = [strategies[s] EXCEPT !.status = "approved"]]
      BY <2>1
    <3>3. QED
      BY <3>1, <3>2 DEF TypeOK
  <2>9. QED
    BY <2>1, <2>3, <2>5, <2>7, <2>8 DEF Commit, TypeOK
<1>11. ASSUME NEW c \in Clients, NEW s \in Strategies, NEW p \in UserPlans, ApproveNew(c, s, p)
       PROVE TypeOK'
  <2> DEFINE row == [specs[p] EXCEPT ![1] = strategies[s].spec]
  <2>1. strategies[s].spec \in Specs \cup {None} /\ p \in PlanIds
    BY DEF TypeOK, StrategyRow, PlanIds
  <2>2. plans' \in [PlanIds -> PlanRow]
    BY <1>11 DEF ApproveNew, TypeOK, PlanRow, Live, Ended
  <2>3. row \in [Versions -> Specs \cup {SystemSpec, LegacySpec, None}]
    BY <2>1 DEF TypeOK
  <2>4. specs' = [specs EXCEPT ![p] = row]
    BY <1>11 DEF ApproveNew
  <2>5. rules' \in [PlanIds -> RuleRows]
    BY <1>11, RowsType DEF ApproveNew, TypeOK
  <2>6. strategies' \in [Strategies -> StrategyRow]
    <3> DEFINE row2 == [strategies[s] EXCEPT !.status = "approved", !.plan = p, !.base = 1]
    <3>1. row2 \in StrategyRow
      BY <2>1, ResolvedType DEF TypeOK
    <3>2. strategies' = [strategies EXCEPT ![s] = row2]
      BY <1>11 DEF ApproveNew
    <3>3. QED
      BY <3>1, <3>2 DEF TypeOK
  <2>7. QED
    BY <1>11, <2>2, <2>3, <2>4, <2>5, <2>6 DEF ApproveNew, Commit, TypeOK
<1>12. ASSUME NEW p \in UserPlans, RuntimeRead(p) PROVE TypeOK'
  BY <1>12 DEF RuntimeRead, TypeOK, PlanIds, PlanRow
<1>13. ASSUME NEW r \in AllRuleIds, RuntimeFire(r) PROVE TypeOK'
  BY <1>13 DEF RuntimeFire, TypeOK, RuleRows, Free
<1>14. ASSUME NEW outcome \in Outcomes, RuntimeEnd(outcome) PROVE TypeOK'
  BY <1>14 DEF RuntimeEnd, TypeOK, PlanRow, Ended, Outcomes, Free
<1>15. ASSUME NEW commands \in Capabilities, Advertise(commands) PROVE TypeOK'
  BY <1>15 DEF Advertise, TypeOK, SafeCommands
<1>16. CASE UNCHANGED vars
  BY <1>16 DEF vars, TypeOK
<1>17. QED
  BY <1>1, <1>2, <1>3, <1>4, <1>5, <1>6, <1>7, <1>8, <1>9, <1>10, <1>11, <1>12, <1>13,
     <1>14, <1>15, <1>16
  DEF Next, Pause, Resume, Cancel, Live, Ended, PlanIds, AllRuleIds

(* Every variable keeps its type.                                           *)
THEOREM TypeCorrect == Spec => []TypeOK
BY InitType, StepType, PTL DEF Spec

-----------------------------------------------------------------------------
(* The strengthening: one open request; among the rows it read at most one  *)
(* plan of the users is in force; and a plan in force now was in force when *)
(* it read.                                                                *)
InForce(rows, p) == rows[p].status \in Live

LockInv ==
  /\ \A c, d \in Clients : Open(c) /\ Open(d) => c = d
  /\ \A p, q \in UserPlans : InForce(plans, p) /\ InForce(plans, q) => p = q
  /\ \A c \in Clients : Open(c) =>
       /\ \A p, q \in UserPlans :
            InForce(api[c].plans, p) /\ InForce(api[c].plans, q) => p = q
       /\ \A p \in UserPlans : InForce(plans, p) => InForce(api[c].plans, p)

(* The pairwise form says what the cardinality says.                        *)
LEMMA AtMostOne ==
  (\A p, q \in UserPlans : InForce(plans, p) /\ InForce(plans, q) => p = q) => OneActivePlan
<1> DEFINE live == {p \in UserPlans : plans[p].status \in Live}
<1> SUFFICES ASSUME \A p, q \in UserPlans : InForce(plans, p) /\ InForce(plans, q) => p = q
             PROVE Cardinality(live) <= 1
  BY DEF OneActivePlan
<1>1. CASE live = {}
  BY <1>1, FS_EmptySet
<1>2. CASE live # {}
  <2>1. PICK p \in live : TRUE
    BY <1>2
  <2>2. live = {p}
    BY <2>1 DEF InForce
  <2>3. Cardinality(live) = 1
    BY <2>2, FS_Singleton, Zenon
  <2>4. QED
    BY <2>3, SMT
<1>3. QED
  BY <1>1, <1>2

(* A step that ends the request of c and brings no plan but p in force,     *)
(* p being the only plan that c saw in force, keeps LockInv.                *)
LEMMA CommitKeeps ==
  ASSUME LockInv, TypeOK, NEW c \in Clients, Commit(c), NEW p \in UserPlans,
         \A q \in UserPlans : InForce(plans, q)' => q = p \/ InForce(plans, q),
         InForce(plans, p)' =>
           \A q \in UserPlans \ {p} : ~InForce(api[c].plans, q)
  PROVE LockInv'
<1>1. \A d \in Clients : ~Open(d)'
  BY DEF LockInv, Commit, Open, Closed, TypeOK
<1>2. \A q \in UserPlans \ {p} : InForce(plans, p)' => ~InForce(plans, q)'
  BY DEF LockInv, Commit
<1>3. ASSUME NEW q \in UserPlans, NEW r \in UserPlans, InForce(plans, q)', InForce(plans, r)'
      PROVE q = r
  BY <1>2, <1>3 DEF LockInv
<1>4. QED
  BY <1>1, <1>3 DEF LockInv

(* Steps that neither bring a plan in force nor open a request keep it.     *)
LEMMA QuietKeeps ==
  ASSUME LockInv, TypeOK,
         \A q \in UserPlans : InForce(plans, q)' => InForce(plans, q),
         \A d \in Clients : Open(d)' => Open(d) /\ api'[d] = api[d]
  PROVE LockInv'
BY DEF LockInv, InForce, Open

(* No blocker: nobody else is in force and the specification is executable. *)
LEMMA NoBlocker ==
  ASSUME NEW rows, NEW p, NEW spec, Blockers(rows, p, spec) = {}
  PROVE /\ ActiveUserPlan(rows, p) = {}
        /\ spec.rules # {} /\ ~spec.clarify
<1>1. ActiveUserPlan(rows, p) = {}
  BY DEF Blockers
<1>2. spec.rules # {}
  BY DEF Blockers
<1>3. ~spec.clarify
  BY DEF Blockers, Questions
<1>4. QED
  BY <1>1, <1>2, <1>3

LEMMA NobodyElse ==
  ASSUME NEW rows, NEW p, ActiveUserPlan(rows, p) = {}
  PROVE \A q \in UserPlans \ {p} : ~InForce(rows, q)
BY DEF ActiveUserPlan, InForce

(* LockInv is inductive.                                                    *)
LEMMA LockStep == LockInv /\ TypeOK /\ [Next]_vars => LockInv'
<1> SUFFICES ASSUME LockInv, TypeOK, [Next]_vars PROVE LockInv'
  OBVIOUS
<1> USE ConstantsAssumption
<1>1. CASE EnsureSystemPlan
  <2>1. \A q \in UserPlans : plans'[q] = plans[q]
    BY <1>1 DEF EnsureSystemPlan, TypeOK, PlanIds
  <2>2. api' = api
    BY <1>1 DEF EnsureSystemPlan
  <2>3. QED
    BY <2>1, <2>2, QuietKeeps DEF InForce, Open
<1>2. CASE SetPolicy
  BY <1>2, QuietKeeps DEF SetPolicy, InForce, Open
<1>3. ASSUME NEW c \in Clients, Begin(c) PROVE LockInv'
  <2>1. /\ \A d \in Clients : Open(d)' => d = c
        /\ plans' = plans /\ api'[c].plans = plans
    BY <1>3 DEF Begin, LockDevice, Open, TypeOK
  <2>2. QED
    BY <2>1 DEF LockInv, InForce
<1>4. ASSUME NEW c \in Clients, Rollback(c) PROVE LockInv'
  <2>1. plans' = plans /\ \A d \in Clients : Open(d)' => Open(d) /\ api'[d] = api[d]
    BY <1>4 DEF Rollback, Open, Closed, TypeOK
  <2>2. QED
    BY <2>1, QuietKeeps DEF InForce
<1>5. ASSUME NEW c \in Clients, NEW p \in UserPlans, NEW spec \in Specs, CreatePlan(c, p, spec)
      PROVE LockInv'
  <2>1. Commit(c) /\ \A q \in UserPlans \ {p} : plans'[q] = plans[q]
    BY <1>5 DEF CreatePlan, TypeOK, PlanIds
  <2>2. InForce(plans, p)' => Blockers(api[c].plans, p, spec) = {}
    BY <1>5 DEF CreatePlan, TypeOK, PlanIds, InForce, Live
  <2>3. InForce(plans, p)' => \A q \in UserPlans \ {p} : ~InForce(api[c].plans, q)
    BY <2>2, NoBlocker, NobodyElse
  <2>4. \A q \in UserPlans : InForce(plans, q)' => q = p \/ InForce(plans, q)
    BY <2>1 DEF InForce
  <2>5. QED
    BY <2>1, <2>3, <2>4, CommitKeeps
<1>6. ASSUME NEW c \in Clients, NEW p \in UserPlans, NEW replace \in BOOLEAN,
             Activate(c, p, replace)
      PROVE LockInv'
  <2> DEFINE blockers == Blockers(api[c].plans, p, SpecOf(p))
  <2>1. Commit(c)
    BY <1>6 DEF Activate
  <2>2. CASE blockers = {}
    <3>1. ActiveUserPlan(api[c].plans, p) = {}
      BY <2>2, NoBlocker
    <3>2. \A q \in UserPlans \ {p} : plans'[q] = plans[q]
      BY <1>6, <2>2, <3>1 DEF Activate, Queried, TypeOK, PlanIds
    <3>3. \A q \in UserPlans : InForce(plans, q)' => q = p \/ InForce(plans, q)
      BY <3>2 DEF InForce
    <3>4. QED
      BY <2>1, <3>1, <3>3, NobodyElse, CommitKeeps
  <2>3. CASE blockers # {}
    <3>1. plans' = plans
      BY <1>6, <2>3 DEF Activate, Queried
    <3>2. \A d \in Clients : Open(d)' => Open(d) /\ api'[d] = api[d]
      BY <2>1 DEF Commit, Open, Closed, TypeOK
    <3>3. QED
      BY <3>1, <3>2, QuietKeeps DEF InForce
  <2>4. QED
    BY <2>2, <2>3
<1>7. ASSUME NEW c \in Clients, NEW p \in PlanIds, NEW from, NEW to,
             SetStatus(c, p, from, to), from \subseteq Live \/ to \notin Live
      PROVE LockInv'
  <2>1. Commit(c) /\ \A q \in UserPlans : q # p => plans'[q] = plans[q]
    BY <1>7 DEF SetStatus, TypeOK, PlanIds
  <2>2. CASE p \in UserPlans
    <3>1. InForce(plans, p)' => \A q \in UserPlans \ {p} : ~InForce(api[c].plans, q)
      <4>1. CASE from \subseteq Live
        <5>1. InForce(api[c].plans, p) /\ Open(c)
          BY <1>7, <4>1 DEF SetStatus, Commit, InForce
        <5>2. QED
          BY <2>2, <5>1 DEF LockInv
      <4>2. CASE to \notin Live
        BY <1>7, <4>2 DEF SetStatus, TypeOK, InForce
      <4>3. QED
        BY <1>7, <4>1, <4>2
    <3>2. \A q \in UserPlans : InForce(plans, q)' => q = p \/ InForce(plans, q)
      BY <2>1 DEF InForce
    <3>3. QED
      BY <2>1, <2>2, <3>1, <3>2, CommitKeeps
  <2>3. CASE p \notin UserPlans
    <3>1. \A q \in UserPlans : InForce(plans, q)' => InForce(plans, q)
      BY <2>1, <2>3 DEF InForce
    <3>2. \A d \in Clients : Open(d)' => Open(d) /\ api'[d] = api[d]
      BY <2>1 DEF Commit, Open, Closed, TypeOK
    <3>3. QED
      BY <3>1, <3>2, QuietKeeps
  <2>4. QED
    BY <2>2, <2>3
<1>8. ASSUME NEW s \in Strategies, NEW p \in PlanIds \cup {None}, NEW spec \in Specs,
             Propose(s, p, spec)
      PROVE LockInv'
  BY <1>8, QuietKeeps DEF Propose, InForce, Open
<1>9. ASSUME NEW c \in Clients, NEW s \in Strategies, Reject(c, s) PROVE LockInv'
  <2>1. plans' = plans /\ \A d \in Clients : Open(d)' => Open(d) /\ api'[d] = api[d]
    BY <1>9 DEF Reject, Commit, Open, Closed, TypeOK
  <2>2. QED
    BY <2>1, QuietKeeps DEF InForce
<1>10. ASSUME NEW c \in Clients, NEW s \in Strategies, ApproveVersion(c, s) PROVE LockInv'
  <2>1. /\ Commit(c)
        /\ plans' = [plans EXCEPT ![strategies[s].plan].version =
                                    plans[strategies[s].plan].version + 1]
    BY <1>10 DEF ApproveVersion
  <2>2. \A q \in UserPlans : plans'[q].status = plans[q].status
    BY <2>1 DEF TypeOK, PlanIds, PlanRow
  <2>3. \A d \in Clients : Open(d)' => Open(d) /\ api'[d] = api[d]
    BY <2>1 DEF Commit, Open, Closed, TypeOK
  <2>4. QED
    BY <2>2, <2>3, QuietKeeps DEF InForce
<1>11. ASSUME NEW c \in Clients, NEW s \in Strategies, NEW p \in UserPlans, ApproveNew(c, s, p)
       PROVE LockInv'
  <2>1. Commit(c) /\ \A q \in UserPlans \ {p} : plans'[q] = plans[q]
    BY <1>11 DEF ApproveNew, TypeOK, PlanIds
  <2>2. \A q \in UserPlans \ {p} : ~InForce(api[c].plans, q)
    BY <1>11, NoBlocker, NobodyElse DEF ApproveNew
  <2>3. \A q \in UserPlans : InForce(plans, q)' => q = p \/ InForce(plans, q)
    BY <2>1 DEF InForce
  <2>4. QED
    BY <2>1, <2>2, <2>3, CommitKeeps
<1>12. ASSUME NEW p \in UserPlans, RuntimeRead(p) PROVE LockInv'
  BY <1>12, QuietKeeps DEF RuntimeRead, InForce, Open
<1>13. ASSUME NEW r \in RuleIds, RuntimeFire(r) PROVE LockInv'
  BY <1>13, QuietKeeps DEF RuntimeFire, InForce, Open
<1>14. ASSUME NEW outcome \in Outcomes, RuntimeEnd(outcome) PROVE LockInv'
  <2>1. \A q \in UserPlans : InForce(plans, q)' => InForce(plans, q)
    BY <1>14 DEF RuntimeEnd, TypeOK, PlanIds, InForce, Outcomes, Live
  <2>2. api' = api
    BY <1>14 DEF RuntimeEnd
  <2>3. QED
    BY <2>1, <2>2, QuietKeeps DEF Open
<1>15. ASSUME NEW commands \in Capabilities, Advertise(commands) PROVE LockInv'
  BY <1>15, QuietKeeps DEF Advertise, InForce, Open
<1>16. CASE UNCHANGED vars
  BY <1>16, QuietKeeps DEF vars, InForce, Open
<1>17. QED
  BY <1>1, <1>2, <1>3, <1>4, <1>5, <1>6, <1>7, <1>8, <1>9, <1>10, <1>11, <1>12, <1>13,
     <1>14, <1>15, <1>16
  DEF Next, Pause, Resume, Cancel, Live, PlanIds

(* At most one plan of the users is active or paused, for any number of     *)
(* plans, requests and strategies.                                         *)
THEOREM OnePlanInForce == Spec => []OneActivePlan
<1>1. Init => LockInv
  BY DEF Init, LockInv, Open, Closed, InForce, Live, PlanIds
<1>2. LockInv => OneActivePlan
  BY AtMostOne DEF LockInv
<1>3. QED
  BY <1>1, <1>2, LockStep, TypeCorrect, PTL DEF Spec

-----------------------------------------------------------------------------
(* What a step does to a plan.                                              *)

Runnable(spec) == spec.rules # {} /\ ~spec.clarify

(* Nothing changed, but the runtime may have fired a rule of the plan.      *)
Kept(p) ==
  /\ plans'[p] = plans[p] /\ specs'[p] = specs[p]
  /\ \A r \in AllRuleIds :
       rules'[p][r] = rules[p][r] \/ (rules[p][r] # "none" /\ rules'[p][r] = "fired")

(* The managed plan is created or brought up to date.                       *)
Managed(p) ==
  /\ p = SystemPlan
  /\ plans'[p].status = IF plans[p].status = "absent" THEN "active" ELSE plans[p].status
  /\ plans'[p].version = SystemVersion /\ specs'[p][SystemVersion] = SystemSpec
  /\ \A r \in IdsOf(SystemSpec) : rules[p][r] = "fired" => rules'[p][r] = "fired"

(* A user's plan is created, by a draft or by an approved strategy.         *)
Made(p) ==
  /\ p \in UserPlans /\ plans[p].status = "absent"
  /\ plans'[p].status \in {"active", "draft"} /\ plans'[p].version = 1
  /\ \A v \in Versions \ {1} : specs'[p][v] = specs[p][v]
  /\ Valid(SpecOf(p)')
  /\ plans'[p].status = "active" => Runnable(SpecOf(p)')

(* A request moves a plan that it read as a draft, active or paused.        *)
Moved(c, p) ==
  /\ Commit(c) /\ api[c].plans[p].status \in {"draft"} \cup Live
  /\ plans'[p].status \in Live \cup Ended /\ plans'[p].version = plans[p].version
  /\ specs'[p] = specs[p]
  /\ rules'[p] = rules[p] \/ api[c].plans[p].status = "draft"
  /\ plans'[p].status \in Live /\ api[c].plans[p].status \notin Live => Runnable(SpecOf(p))

RuntimeEnded(p) ==
  /\ runtime.plan = p /\ plans'[p].version = plans[p].version
  /\ plans'[p].status \in Outcomes
  /\ specs'[p] = specs[p] /\ rules'[p] = rules[p]

(* A strategy becomes the next version of its plan.                         *)
Revised(c, s, p) ==
  LET next == plans[p].version + 1
  IN /\ Commit(c)
     /\ strategies[s].status = "proposed" /\ strategies[s].kind = "change"
     /\ strategies[s].plan = p /\ strategies[s].base = plans[p].version
     /\ strategies' = [strategies EXCEPT ![s].status = "approved"]
     /\ next \in Versions
     /\ plans'[p].status = plans[p].status /\ plans'[p].version = next
     /\ specs'[p][next] = strategies[s].spec
     /\ \A v \in Versions \ {next} : specs'[p][v] = specs[p][v]
     /\ Valid(strategies[s].spec) /\ Runnable(strategies[s].spec)
     /\ \A r \in AllRuleIds :
          Unchanged(SpecOf(p), strategies[s].spec, r) => rules'[p][r] = api[c].rules[p][r]

(* Its cases.                                                               *)
Change(p) ==
  \/ Kept(p) \/ Managed(p) \/ Made(p) \/ RuntimeEnded(p)
  \/ \E c \in Clients : Moved(c, p)
  \/ \E c \in Clients, s \in Strategies : Revised(c, s, p)

LEMMA ApprovedPlan ==
  ASSUME TypeOK, NEW c \in Clients, NEW s \in Strategies, ApproveVersion(c, s),
         NEW p \in PlanIds, strategies[s].plan = p
  PROVE  Revised(c, s, p)
<1> DEFINE next == plans[p].version + 1
           spec == strategies[s].spec
<1>0. /\ plans \in [PlanIds -> PlanRow] /\ rules \in [PlanIds -> RuleRows]
      /\ specs \in [PlanIds -> [Versions -> Specs \cup {SystemSpec, LegacySpec, None}]]
  BY DEF TypeOK
<1>1. /\ Commit(c) /\ next \in Versions
      /\ strategies[s].status = "proposed" /\ strategies[s].kind = "change"
      /\ strategies[s].base = plans[p].version
      /\ strategies' = [strategies EXCEPT ![s].status = "approved"]
      /\ Valid(spec) /\ Blockers(api[c].plans, p, spec) = {}
      /\ specs' = [specs EXCEPT ![p][next] = spec]
      /\ plans' = [plans EXCEPT ![p].version = next]
      /\ rules' = [rules EXCEPT ![p] = CopiedRules(api[c].rules[p], SpecOf(p), spec)]
  BY DEF ApproveVersion, BaseIsCurrent
<1> HIDE DEF next, spec
<1>2. plans'[p].status = plans[p].status /\ plans'[p].version = next
  BY <1>0, <1>1 DEF PlanRow
<1>3. specs'[p][next] = spec /\ \A v \in Versions \ {next} : specs'[p][v] = specs[p][v]
  BY <1>0, <1>1
<1>4. \A r \in AllRuleIds :
        Unchanged(SpecOf(p), spec, r) => rules'[p][r] = api[c].rules[p][r]
  <2>1. \A r : Unchanged(SpecOf(p), spec, r) => r \in IdsOf(spec)
    BY DEF Unchanged, IdsOf
  <2>2. rules'[p] = CopiedRules(api[c].rules[p], SpecOf(p), spec)
    BY <1>0, <1>1
  <2> QED  BY <2>1, <2>2 DEF CopiedRules
<1>5. Runnable(spec)
  BY <1>1, NoBlocker DEF Runnable
<1> QED  BY <1>1, <1>2, <1>3, <1>4, <1>5 DEF Revised, next, spec

LEMMA PlanStep ==
  ASSUME TypeOK, LockInv, [Next]_vars, NEW p \in PlanIds
  PROVE  Change(p)
<1> USE ConstantsAssumption
<1>0. /\ plans \in [PlanIds -> PlanRow] /\ rules \in [PlanIds -> RuleRows]
      /\ specs \in [PlanIds -> [Versions -> Specs \cup {SystemSpec, LegacySpec, None}]]
      /\ UserPlans \subseteq PlanIds /\ SystemPlan \in PlanIds
      /\ 1 \in Versions /\ SystemVersion \in Versions
  BY DEF TypeOK, PlanIds, Versions, SystemVersion
<1>1. ASSUME plans' = plans, specs' = specs, rules' = rules
      PROVE  Change(p)
  BY <1>1 DEF Kept, Change
<1>2. ASSUME plans'[p] = plans[p], specs'[p] = specs[p], rules'[p] = rules[p]
      PROVE  Change(p)
  BY <1>2 DEF Kept, Change
<1>3. CASE EnsureSystemPlan
  <2>1. CASE p = SystemPlan
    <3>1. /\ plans'[p].status = IF plans[p].status = "absent" THEN "active" ELSE plans[p].status
          /\ plans'[p].version = SystemVersion
      BY <1>0, <1>3, <2>1 DEF EnsureSystemPlan
    <3>2. specs'[p][SystemVersion] = SystemSpec
      BY <1>0, <1>3, <2>1 DEF EnsureSystemPlan
    <3>3. \A r \in IdsOf(SystemSpec) : rules[p][r] = "fired" => rules'[p][r] = "fired"
      <4>1. IdsOf(SystemSpec) \subseteq AllRuleIds
        BY DEF IdsOf, AllRuleIds
      <4> QED  BY <1>0, <1>3, <2>1, <4>1 DEF EnsureSystemPlan
    <3> QED  BY <2>1, <3>1, <3>2, <3>3 DEF Managed, Change
  <2>2. CASE p # SystemPlan
    BY <1>0, <1>2, <1>3, <2>2 DEF EnsureSystemPlan
  <2> QED  BY <2>1, <2>2
<1>4. ASSUME NEW c \in Clients, NEW q \in UserPlans, NEW spec, NEW status \in {"active", "draft"},
             plans[q].status = "absent", Valid(spec),
             status = "active" => Blockers(api[c].plans, q, spec) = {},
             plans' = [plans EXCEPT ![q] = [status |-> status, version |-> 1]],
             specs' = [specs EXCEPT ![q][1] = spec],
             rules' = [rules EXCEPT ![q] = FreshRules(spec)]
      PROVE  Change(p)
  <2>1. CASE p = q
    <3>1. /\ plans'[p].status = status /\ plans'[p].version = 1
          /\ specs'[p][1] = spec /\ \A v \in Versions \ {1} : specs'[p][v] = specs[p][v]
      BY <1>0, <1>4, <2>1
    <3>2. SpecOf(p)' = spec
      BY <3>1 DEF SpecOf
    <3>3. status = "active" => Runnable(spec)
      BY <1>4, NoBlocker DEF Runnable
    <3> QED  BY <1>4, <2>1, <3>1, <3>2, <3>3 DEF Made, Change
  <2>2. CASE p # q
    BY <1>0, <1>2, <1>4, <2>2
  <2> QED  BY <2>1, <2>2
<1>5. ASSUME NEW c \in Clients, NEW q \in UserPlans, NEW spec \in Specs, CreatePlan(c, q, spec)
      PROVE  Change(p)
  <2>1. PICK status \in {"active", "draft"} :
          status = IF Blockers(api[c].plans, q, spec) = {} THEN "active" ELSE "draft"
    OBVIOUS
  <2>2. status = "active" => Blockers(api[c].plans, q, spec) = {}
    BY <2>1
  <2> QED  BY <1>4, <1>5, <2>1, <2>2 DEF CreatePlan
<1>6. ASSUME NEW c \in Clients, NEW q \in UserPlans, NEW replace \in BOOLEAN,
             Activate(c, q, replace)
      PROVE  Change(p)
  <2>1. CASE Blockers(api[c].plans, q, SpecOf(q)) = {}
    <3>1. ActiveUserPlan(api[c].plans, q) = {} /\ Runnable(SpecOf(q))
      BY <2>1, NoBlocker DEF Runnable
    <3>2. /\ specs' = specs
          /\ \A r \in PlanIds \ {q} : plans'[r] = plans[r] /\ rules'[r] = rules[r]
          /\ plans'[q] = [plans[q] EXCEPT !.status = "active"]
          /\ Commit(c)
          /\ api[c].plans[q].status \in {"draft", "paused"}
          /\ rules' = rules \/ api[c].plans[q].status = "draft"
      BY <1>0, <1>6, <2>1, <3>1 DEF Activate, Queried
    <3>3. plans'[q].status = "active" /\ plans'[q].version = plans[q].version
      BY <1>0, <3>2 DEF PlanRow
    <3>4. CASE p = q
      BY <3>1, <3>2, <3>3, <3>4 DEF Moved, Live, Change
    <3>5. CASE p # q
      BY <1>2, <3>2, <3>5
    <3> QED  BY <3>4, <3>5
  <2>2. CASE Blockers(api[c].plans, q, SpecOf(q)) # {}
    BY <1>1, <1>6, <2>2 DEF Activate, Queried
  <2> QED  BY <2>1, <2>2
<1>7. ASSUME NEW c \in Clients, NEW q \in PlanIds, NEW from, NEW to \in Live \cup Ended,
             SetStatus(c, q, from, to), from \subseteq {"draft"} \cup Live,
             to \in Live => from \subseteq Live
      PROVE  Change(p)
  <2>1. /\ Commit(c) /\ api[c].plans[q].status \in from
        /\ plans' = [plans EXCEPT ![q].status = to]
        /\ specs' = specs /\ rules' = rules
    BY <1>7 DEF SetStatus
  <2>2. plans'[q].status = to /\ plans'[q].version = plans[q].version
    BY <1>0, <2>1 DEF PlanRow
  <2>3. CASE p = q
    BY <1>7, <2>1, <2>2, <2>3 DEF Moved, Change
  <2>4. CASE p # q
    BY <1>0, <1>2, <2>1, <2>4
  <2> QED  BY <2>3, <2>4
<1>71. ASSUME NEW c \in Clients, NEW q \in PlanIds, Pause(c, q) \/ Resume(c, q)
       PROVE  Change(p)
  <2>1. SetStatus(c, q, {"active"}, "paused") \/ SetStatus(c, q, {"paused"}, "active")
    BY <1>71 DEF Pause, Resume
  <2> QED  BY <1>7, <2>1 DEF Live
<1>72. ASSUME NEW c \in Clients, NEW q \in UserPlans, Cancel(c, q)
       PROVE  Change(p)
  <2>1. SetStatus(c, q, {"draft", "active", "paused"}, "cancelled")
    BY <1>72 DEF Cancel
  <2> QED  BY <1>0, <1>7, <2>1 DEF Live, Ended
<1>8. ASSUME NEW c \in Clients, NEW s \in Strategies, ApproveVersion(c, s)
      PROVE  Change(p)
  <2> DEFINE spec == strategies[s].spec
  <2>1. CASE strategies[s].plan = p
    BY <1>8, <2>1, ApprovedPlan DEF Change
  <2>2. CASE strategies[s].plan # p
    <3>1. plans'[p] = plans[p] /\ rules'[p] = rules[p]
      BY <1>0, <1>8, <2>2 DEF ApproveVersion
    <3>2. specs'[p] = specs[p]
      <4>1. PICK q, v : specs' = [specs EXCEPT ![q] = [specs[q] EXCEPT ![v] = spec]] /\ q # p
        BY <1>8, <2>2 DEF ApproveVersion
      <4> QED  BY <1>0, <4>1
    <3> QED  BY <1>2, <3>1, <3>2
  <2> QED  BY <2>1, <2>2
<1>9. ASSUME NEW c \in Clients, NEW s \in Strategies, NEW q \in UserPlans, ApproveNew(c, s, q)
      PROVE  Change(p)
  <2> DEFINE spec == strategies[s].spec
  <2>1. /\ plans[q].status = "absent" /\ Valid(spec)
        /\ Blockers(api[c].plans, q, spec) = {}
        /\ plans' = [plans EXCEPT ![q] = [status |-> "active", version |-> 1]]
        /\ specs' = [specs EXCEPT ![q][1] = spec]
        /\ rules' = [rules EXCEPT ![q] = FreshRules(spec)]
    BY <1>9 DEF ApproveNew
  <2> HIDE DEF spec
  <2> QED  BY <1>4, <2>1
<1>10. ASSUME NEW r \in RuleIds, RuntimeFire(r)
       PROVE  Change(p)
  <2>1. plans' = plans /\ specs' = specs
    BY <1>10 DEF RuntimeFire
  <2>2. \A q \in AllRuleIds : \/ rules'[p][q] = rules[p][q]
                              \/ rules[p][q] # "none" /\ rules'[p][q] = "fired"
    BY <1>0, <1>10 DEF RuntimeFire, RuleRows
  <2> QED  BY <2>1, <2>2 DEF Kept, Change
<1>11. ASSUME NEW outcome \in Outcomes, RuntimeEnd(outcome)
       PROVE  Change(p)
  <2>1. CASE runtime.plan = p
    <3>1. /\ plans'[p].status = outcome /\ plans'[p].version = plans[p].version
          /\ specs' = specs /\ rules' = rules
      BY <1>0, <1>11, <2>1 DEF RuntimeEnd, PlanRow
    <3> QED  BY <2>1, <3>1 DEF RuntimeEnded, Change
  <2>2. CASE runtime.plan # p
    BY <1>0, <1>2, <1>11, <2>2 DEF RuntimeEnd
  <2> QED  BY <2>1, <2>2
<1>12. ASSUME \/ SetPolicy \/ UNCHANGED vars
              \/ \E c \in Clients : Begin(c) \/ Rollback(c) \/ \E s \in Strategies : Reject(c, s)
              \/ \E s \in Strategies, q \in PlanIds \cup {None}, spec \in Specs : Propose(s, q, spec)
              \/ \E q \in UserPlans : RuntimeRead(q)
              \/ \E commands \in Capabilities : Advertise(commands)
       PROVE  plans' = plans /\ specs' = specs /\ rules' = rules
  BY <1>12 DEF SetPolicy, Begin, Rollback, Reject, Propose, RuntimeRead, Advertise, vars
<1> QED
  BY <1>1, <1>3, <1>5, <1>6, <1>71, <1>72, <1>8, <1>9, <1>10, <1>11, <1>12 DEF Next

-----------------------------------------------------------------------------
(* What those who read plans know of them later: a request, while its       *)
(* transaction is open, and the runtime.                                   *)
ReaderInv ==
  /\ \A c \in Clients : Open(c) =>
       \A p \in PlanIds :
         /\ api[c].plans[p].status # "absent" => plans[p].status # "absent"
         /\ api[c].plans[p].status = "draft" => plans[p].status = "draft"
         /\ p \in UserPlans /\ api[c].plans[p].status \in Live => Runnable(SpecOf(p))
  /\ runtime.plan # None =>
       runtime.plan \in UserPlans /\ plans[runtime.plan].status \notin {"absent", "draft"}

(* A plan that was not created has no version and no rules; the current     *)
(* version of a plan is valid, and can run while the plan is in force.     *)
PlanInv(p) ==
  /\ plans[p].status = "absent" =>
       plans[p].version = 0 /\ \A r \in AllRuleIds : rules[p][r] = "none"
  /\ plans[p].status # "absent" => plans[p].version >= 1
  /\ p \in UserPlans /\ plans[p].status # "absent" => Valid(SpecOf(p))
  /\ p \in UserPlans /\ plans[p].status \in Live => Runnable(SpecOf(p))

(* A proposed change is one of a plan that exists.                          *)
StrategyInv(s) ==
  strategies[s].status # "absent" /\ strategies[s].kind = "change" =>
    strategies[s].plan \in PlanIds /\ strategies[s].base >= 1

PlansInv ==
  /\ TypeOK
  /\ LockInv
  /\ ReaderInv
  /\ \A p \in PlanIds : PlanInv(p)
  /\ \A s \in Strategies : StrategyInv(s)

(* Transactions open and close one by one.                                 *)
LEMMA ApiStep ==
  ASSUME TypeOK, [Next]_vars
  PROVE  \/ api' = api
         \/ \E c \in Clients : Begin(c)
         \/ \E c \in Clients : Commit(c)
<1>1. ASSUME NEW c \in Clients, Rollback(c) PROVE Commit(c)
  BY <1>1 DEF Rollback, Commit
<1>2. ASSUME NEW c \in Clients,
             \/ \E p \in UserPlans :
                  \/ \E spec \in Specs : CreatePlan(c, p, spec)
                  \/ \E replace \in BOOLEAN : Activate(c, p, replace)
                  \/ Cancel(c, p)
                  \/ \E s \in Strategies : ApproveNew(c, s, p)
             \/ \E p \in PlanIds : Pause(c, p) \/ Resume(c, p)
             \/ \E s \in Strategies : Reject(c, s) \/ ApproveVersion(c, s)
      PROVE  Commit(c)
  BY <1>2 DEF CreatePlan, Activate, Cancel, ApproveNew, Pause, Resume, SetStatus, Reject,
     ApproveVersion
<1>3. ASSUME \/ EnsureSystemPlan \/ SetPolicy \/ UNCHANGED vars
             \/ \E s \in Strategies, p \in PlanIds \cup {None}, spec \in Specs : Propose(s, p, spec)
             \/ \E p \in UserPlans : RuntimeRead(p)
             \/ \E r \in RuleIds : RuntimeFire(r)
             \/ \E outcome \in Outcomes : RuntimeEnd(outcome)
             \/ \E commands \in Capabilities : Advertise(commands)
      PROVE  api' = api
  BY <1>3 DEF EnsureSystemPlan, SetPolicy, Propose, RuntimeRead, RuntimeFire, RuntimeEnd,
     Advertise, vars
<1> QED  BY <1>1, <1>2, <1>3 DEF Next

(* Who still has a transaction open opened it now, or sees no commit.       *)
LEMMA StillOpen ==
  ASSUME TypeOK, LockInv, [Next]_vars, NEW d \in Clients, Open(d)'
  PROVE  \/ /\ Open(d) /\ api'[d] = api[d]
            /\ \A c \in Clients : ~Commit(c)
         \/ plans' = plans /\ specs' = specs /\ rules' = rules /\ api'[d].plans = plans
            /\ api'[d].rules = rules
<1>1. \A c \in Clients : ~(Commit(c) /\ c = d)
  BY DEF Commit, Open, Closed, TypeOK
<1>2. Open(d) => \A c \in Clients : ~Commit(c)
  BY <1>1 DEF LockInv, Commit
<1>3. CASE api' = api
  BY <1>2, <1>3 DEF Open
<1>4. ASSUME NEW c \in Clients, Begin(c)
      PROVE  d = c /\ plans' = plans /\ specs' = specs /\ rules' = rules
             /\ api'[d].plans = plans /\ api'[d].rules = rules
  BY <1>4 DEF Begin, LockDevice, Open, TypeOK
<1>5. ASSUME NEW c \in Clients, Commit(c)
      PROVE  Open(d) /\ api'[d] = api[d]
  BY <1>1, <1>5 DEF Commit, Open, TypeOK
<1> QED  BY <1>2, <1>3, <1>4, <1>5, ApiStep

(* A plan that exists keeps existing.                                       *)
LEMMA PlanPreserved ==
  ASSUME PlansInv, [Next]_vars, NEW p \in PlanIds
  PROVE  PlanInv(p)'
<1>0. /\ Change(p) /\ PlanInv(p) /\ ReaderInv /\ plans[p] \in PlanRow
      /\ SystemPlan \notin UserPlans /\ None \notin PlanIds
  BY PlanStep, ConstantsAssumption DEF PlansInv, TypeOK, PlanIds
<1>1. CASE Kept(p)
  BY <1>0, <1>1 DEF Kept, PlanInv, SpecOf
<1>2. CASE Managed(p)
  BY <1>0, <1>2 DEF Managed, PlanInv, SystemVersion
<1>3. CASE Made(p)
  BY <1>0, <1>3 DEF Made, PlanInv, SpecOf, Live
<1>4. ASSUME NEW c \in Clients, Moved(c, p) PROVE PlanInv(p)'
  <2>1. /\ plans[p].status # "absent"
        /\ p \in UserPlans /\ api[c].plans[p].status \in Live => Runnable(SpecOf(p))
    BY <1>0, <1>4 DEF ReaderInv, Moved, Commit, Live
  <2>2. SpecOf(p)' = SpecOf(p) /\ plans'[p].version = plans[p].version
    BY <1>4 DEF Moved, SpecOf
  <2>3. plans'[p].status # "absent" /\ (plans'[p].status \in Live => Runnable(SpecOf(p)) \/ p \notin UserPlans)
    BY <1>4, <2>1 DEF Moved, Live, Ended
  <2> QED  BY <1>0, <2>1, <2>2, <2>3 DEF PlanInv
<1>5. CASE RuntimeEnded(p)
  <2>1. plans[p].status # "absent" /\ plans'[p].status \notin Live \cup {"absent"}
    BY <1>0, <1>5 DEF RuntimeEnded, ReaderInv, Outcomes, Live
  <2> QED  BY <1>0, <1>5, <2>1 DEF RuntimeEnded, PlanInv, SpecOf
<1>6. ASSUME NEW c \in Clients, NEW s \in Strategies, Revised(c, s, p) PROVE PlanInv(p)'
  <2>1. plans[p].status # "absent" /\ plans'[p].status = plans[p].status
    BY <1>0, <1>6 DEF Revised, PlansInv, StrategyInv, PlanInv
  <2>2. plans'[p].version = plans[p].version + 1 /\ plans[p].version \in Nat
    BY <1>0, <1>6 DEF Revised, PlanRow
  <2>3. SpecOf(p)' = strategies[s].spec
    BY <1>6, <2>2 DEF Revised, SpecOf
  <2> QED  BY <1>6, <2>1, <2>2, <2>3 DEF Revised, PlanInv
<1> QED  BY <1>0, <1>1, <1>2, <1>3, <1>4, <1>5, <1>6 DEF Change

LEMMA ReaderPreserved ==
  ASSUME PlansInv, [Next]_vars
  PROVE  ReaderInv'
<1>0. /\ TypeOK /\ LockInv /\ ReaderInv
      /\ \A p \in PlanIds : Change(p) /\ PlanInv(p)
      /\ SystemPlan \notin UserPlans /\ UserPlans \subseteq PlanIds
  BY PlanStep, ConstantsAssumption DEF PlansInv, PlanIds
<1>1. ASSUME NEW c \in Clients, Open(c)', NEW p \in PlanIds
      PROVE  /\ api'[c].plans[p].status # "absent" => plans'[p].status # "absent"
             /\ api'[c].plans[p].status = "draft" => plans'[p].status = "draft"
             /\ p \in UserPlans /\ api'[c].plans[p].status \in Live => Runnable(SpecOf(p)')
  <2>1. CASE plans' = plans /\ specs' = specs /\ api'[c].plans = plans
    BY <1>0, <2>1 DEF PlanInv, SpecOf
  <2>2. CASE Open(c) /\ api'[c] = api[c] /\ \A d \in Clients : ~Commit(d)
    <3>1. Kept(p) \/ Managed(p) \/ Made(p) \/ RuntimeEnded(p)
      BY <1>0, <2>2 DEF Change, Moved, Revised
    <3>2. /\ api[c].plans[p].status # "absent" => plans[p].status # "absent"
          /\ api[c].plans[p].status = "draft" => plans[p].status = "draft"
          /\ p \in UserPlans /\ api[c].plans[p].status \in Live => Runnable(SpecOf(p))
      BY <1>0, <2>2 DEF ReaderInv
    <3>3. CASE Kept(p)
      BY <2>2, <3>2, <3>3 DEF Kept, SpecOf
    <3>4. CASE Managed(p)
      BY <1>0, <2>2, <3>2, <3>4 DEF Managed
    <3>5. CASE Made(p)
      BY <2>2, <3>2, <3>5 DEF Made, Live
    <3>6. CASE RuntimeEnded(p)
      <4>1. plans[p].status \notin {"absent", "draft"}
        BY <1>0, <3>6, ConstantsAssumption DEF RuntimeEnded, ReaderInv, PlanIds
      <4> QED  BY <2>2, <3>2, <3>6, <4>1 DEF RuntimeEnded, Outcomes, SpecOf
    <3> QED  BY <3>1, <3>3, <3>4, <3>5, <3>6
  <2> QED  BY <1>0, <1>1, <2>1, <2>2, StillOpen
<1>2. ASSUME NEW p \in UserPlans, plans[p].status \notin {"absent", "draft"}
      PROVE  plans'[p].status \notin {"absent", "draft"}
  <2>1. Change(p)
    BY <1>0
  <2> QED
    BY <1>0, <1>2, <2>1 DEF Change, Kept, Managed, Made, Moved, RuntimeEnded, Revised, Live,
       Ended, Outcomes
<1>3. ASSUME runtime' = runtime \/ runtime' = Free \/ \E p \in UserPlans : RuntimeRead(p)
      PROVE  runtime'.plan # None =>
               runtime'.plan \in UserPlans /\ plans'[runtime'.plan].status \notin {"absent", "draft"}
  <2>1. CASE runtime' = runtime
    BY <1>0, <1>2, <2>1 DEF ReaderInv
  <2>2. CASE runtime' = Free
    BY <2>2 DEF Free
  <2>3. ASSUME NEW p \in UserPlans, RuntimeRead(p)
        PROVE  runtime'.plan = p /\ plans[p].status = "active"
    BY <2>3 DEF RuntimeRead
  <2> QED  BY <1>2, <1>3, <2>1, <2>2, <2>3
<1>4. runtime' = runtime \/ runtime' = Free \/ \E p \in UserPlans : RuntimeRead(p)
  <2>1. ASSUME NEW c \in Clients,
             \/ Begin(c) \/ Rollback(c)
             \/ \E p \in UserPlans :
                  \/ \E spec \in Specs : CreatePlan(c, p, spec)
                  \/ \E replace \in BOOLEAN : Activate(c, p, replace)
                  \/ Cancel(c, p)
                  \/ \E s \in Strategies : ApproveNew(c, s, p)
             \/ \E p \in PlanIds : Pause(c, p) \/ Resume(c, p)
             \/ \E s \in Strategies : Reject(c, s) \/ ApproveVersion(c, s)
        PROVE  runtime' = runtime
    BY <2>1 DEF Begin, Rollback, CreatePlan, Activate, Cancel, ApproveNew, Pause, Resume,
       SetStatus, Reject, ApproveVersion
  <2>2. ASSUME \/ EnsureSystemPlan \/ SetPolicy \/ UNCHANGED vars
               \/ \E s \in Strategies, p \in PlanIds \cup {None}, spec \in Specs : Propose(s, p, spec)
               \/ \E commands \in Capabilities : Advertise(commands)
        PROVE  runtime' = runtime
    BY <2>2 DEF EnsureSystemPlan, SetPolicy, Propose, Advertise, vars
  <2>3. ASSUME \/ \E r \in RuleIds : RuntimeFire(r)
               \/ \E outcome \in Outcomes : RuntimeEnd(outcome)
        PROVE  runtime' = Free
    BY <2>3 DEF RuntimeFire, RuntimeEnd
  <2> QED  BY <2>1, <2>2, <2>3 DEF Next
<1> QED  BY <1>1, <1>3, <1>4 DEF ReaderInv

-----------------------------------------------------------------------------
(* What a step does to a strategy.                                         *)
LEMMA StrategyStep ==
  ASSUME TypeOK, [Next]_vars, NEW s \in Strategies
  PROVE  \/ strategies'[s] = strategies[s]
         \/ /\ strategies[s].status = "absent"
            /\ strategies'[s].status # "approved"
            /\ strategies'[s].kind = "change" =>
                 /\ strategies'[s].plan \in PlanIds
                 /\ plans[strategies'[s].plan].status # "absent"
                 /\ strategies'[s].base = plans[strategies'[s].plan].version
         \/ /\ strategies[s].status = "proposed" /\ strategies'[s].status = "rejected"
            /\ strategies'[s].kind = strategies[s].kind
            /\ strategies'[s].plan = strategies[s].plan
            /\ strategies'[s].base = strategies[s].base
         \/ strategies[s].kind = "new" /\ strategies'[s].kind = "new"
         \/ \E c \in Clients : ApproveVersion(c, s)
<1> DEFINE Same == strategies'[s] = strategies[s]
<1>0. strategies \in [Strategies -> StrategyRow] /\ strategies[s] \in StrategyRow
  BY DEF TypeOK
<1>1. ASSUME NEW t \in Strategies, NEW p \in PlanIds \cup {None}, NEW spec \in Specs,
             Propose(t, p, spec)
      PROVE  \/ Same
             \/ /\ strategies[s].status = "absent"
                /\ strategies'[s].status # "approved"
                /\ strategies'[s].kind = "change" =>
                     /\ strategies'[s].plan \in PlanIds
                     /\ plans[strategies'[s].plan].status # "absent"
                     /\ strategies'[s].base = plans[strategies'[s].plan].version
  <2>1. CASE s = t
    BY <1>0, <1>1, <2>1 DEF Propose
  <2>2. CASE s # t
    BY <1>0, <1>1, <2>2 DEF Propose
  <2> QED  BY <2>1, <2>2
<1>2. ASSUME NEW c \in Clients, NEW t \in Strategies, Reject(c, t)
      PROVE  \/ Same
             \/ /\ strategies[s].status = "proposed" /\ strategies'[s].status = "rejected"
                /\ strategies'[s].kind = strategies[s].kind
                /\ strategies'[s].plan = strategies[s].plan
                /\ strategies'[s].base = strategies[s].base
  BY <1>0, <1>2 DEF Reject, StrategyRow
<1>3. ASSUME NEW c \in Clients, NEW t \in Strategies, NEW p \in UserPlans, ApproveNew(c, t, p)
      PROVE  Same \/ (strategies[s].kind = "new" /\ strategies'[s].kind = "new")
  <2>1. CASE s = t
    <3>1. strategies'[s] = [strategies[s] EXCEPT !.status = "approved", !.plan = p, !.base = 1]
      BY <1>0, <1>3, <2>1 DEF ApproveNew
    <3> QED  BY <1>0, <1>3, <2>1, <3>1 DEF ApproveNew, StrategyRow
  <2>2. CASE s # t
    BY <1>0, <1>3, <2>2 DEF ApproveNew
  <2> QED  BY <2>1, <2>2
<1>4. ASSUME NEW c \in Clients, NEW t \in Strategies, ApproveVersion(c, t)
      PROVE  Same \/ ApproveVersion(c, s)
  <2>1. s # t => strategies'[s] = strategies[s]
    BY <1>0, <1>4 DEF ApproveVersion
  <2> QED  BY <1>4, <2>1
<1>5. ASSUME \/ EnsureSystemPlan \/ SetPolicy \/ UNCHANGED vars
             \/ \E c \in Clients :
                  \/ Begin(c) \/ Rollback(c)
                  \/ \E p \in UserPlans :
                       \/ \E spec \in Specs : CreatePlan(c, p, spec)
                       \/ \E replace \in BOOLEAN : Activate(c, p, replace)
                       \/ Cancel(c, p)
                  \/ \E p \in PlanIds : Pause(c, p) \/ Resume(c, p)
             \/ \E p \in UserPlans : RuntimeRead(p)
             \/ \E r \in RuleIds : RuntimeFire(r)
             \/ \E outcome \in Outcomes : RuntimeEnd(outcome)
             \/ \E commands \in Capabilities : Advertise(commands)
      PROVE  Same
  <2>1. EnsureSystemPlan => Same
    BY DEF EnsureSystemPlan
  <2>2. SetPolicy \/ UNCHANGED vars => Same
    BY DEF SetPolicy, vars
  <2>3. \A c \in Clients : Begin(c) \/ Rollback(c) => Same
    BY DEF Begin, Rollback
  <2>4. \A c \in Clients, p \in UserPlans, spec \in Specs : CreatePlan(c, p, spec) => Same
    BY DEF CreatePlan
  <2>5. \A c \in Clients, p \in UserPlans, replace \in BOOLEAN : Activate(c, p, replace) => Same
    BY DEF Activate
  <2>6. \A c, p, from, to : SetStatus(c, p, from, to) => Same
    BY DEF SetStatus
  <2>7. \A c, p : Cancel(c, p) \/ Pause(c, p) \/ Resume(c, p) => Same
    BY <2>6 DEF Cancel, Pause, Resume
  <2>8. \A p \in UserPlans : RuntimeRead(p) => Same
    BY DEF RuntimeRead
  <2>9. \A r \in RuleIds : RuntimeFire(r) => Same
    BY DEF RuntimeFire
  <2>10. \A outcome \in Outcomes : RuntimeEnd(outcome) => Same
    BY DEF RuntimeEnd
  <2>11. \A commands \in Capabilities : Advertise(commands) => Same
    BY DEF Advertise
  <2> HIDE DEF Same
  <2> QED  BY <1>5, <2>1, <2>2, <2>3, <2>4, <2>5, <2>7, <2>8, <2>9, <2>10, <2>11
<1> QED  BY <1>1, <1>2, <1>3, <1>4, <1>5 DEF Next

LEMMA StrategyPreserved ==
  ASSUME PlansInv, [Next]_vars, NEW s \in Strategies
  PROVE  StrategyInv(s)'
<1>0. /\ TypeOK /\ StrategyInv(s) /\ \A p \in PlanIds : PlanInv(p)
      /\ strategies \in [Strategies -> StrategyRow] /\ strategies[s] \in StrategyRow
  BY DEF PlansInv, TypeOK
<1>1. ASSUME NEW c \in Clients, ApproveVersion(c, s) PROVE StrategyInv(s)'
  <2>1. /\ strategies[s].status = "proposed" /\ strategies'[s].kind = strategies[s].kind
        /\ strategies'[s].plan = strategies[s].plan /\ strategies'[s].base = strategies[s].base
    BY <1>0, <1>1 DEF ApproveVersion, StrategyRow
  <2> QED  BY <1>0, <2>1 DEF StrategyInv
<1> QED  BY <1>0, <1>1, StrategyStep DEF StrategyInv, PlanInv

LEMMA InitPlans == Init => PlansInv
<1> SUFFICES ASSUME Init PROVE PlansInv
  OBVIOUS
<1>1. TypeOK
  BY InitType
<1>2. LockInv /\ ReaderInv
  BY DEF Init, LockInv, ReaderInv, Open, Closed, InForce, Live, PlanIds, Free
<1>3. \A p \in PlanIds : PlanInv(p)
  BY ConstantsAssumption DEF Init, PlanInv, PlanIds, Live
<1>4. \A s \in Strategies : StrategyInv(s)
  BY DEF Init, StrategyInv
<1> QED  BY <1>1, <1>2, <1>3, <1>4 DEF PlansInv

LEMMA PlansInductive == PlansInv /\ [Next]_vars => PlansInv'
BY StepType, LockStep, ReaderPreserved, PlanPreserved, StrategyPreserved DEF PlansInv, PlanIds

(* A plan that controls the device can run and is valid, although resume    *)
(* checks no blocker and an approval replaces the specification of a plan   *)
(* that is in force.                                                       *)
THEOREM PlansInForceCanRun == Spec => []LiveIsExecutable
<1>1. PlansInv => LiveIsExecutable
  BY DEF PlansInv, PlanInv, LiveIsExecutable, Runnable, Live, PlanIds
<1> QED  BY <1>1, InitPlans, PlansInductive, PTL DEF Spec

-----------------------------------------------------------------------------
(* The approved strategies behind a version of a plan.                      *)
Sources(p, v) == {s \in Strategies : /\ strategies[s].status = "approved"
                                     /\ strategies[s].kind = "change"
                                     /\ strategies[s].plan = p
                                     /\ strategies[s].base = v - 1}

VersionOK(p, v) ==
  IF v <= plans[p].version
  THEN \E s \in Sources(p, v) : Sources(p, v) = {s} /\ specs[p][v] = strategies[s].spec
  ELSE Sources(p, v) = {}

LEMMA VersionsOK ==
  VersionsAreApproved <=> \A p \in UserPlans, v \in Versions \ {1} : VersionOK(p, v)
BY DEF VersionsAreApproved, VersionOK, Sources

LEMMA VersionPreserved ==
  ASSUME PlansInv, [Next]_vars, NEW p \in UserPlans, NEW v \in Versions \ {1},
         VersionOK(p, v)
  PROVE  VersionOK(p, v)'
<1>0. /\ TypeOK /\ LockInv /\ PlanInv(p) /\ plans[p] \in PlanRow /\ p \in PlanIds
      /\ strategies \in [Strategies -> StrategyRow]
      /\ SystemPlan # p /\ v \in Nat /\ v # 1 /\ v > 0
  BY ConstantsAssumption DEF PlansInv, TypeOK, PlanIds, Versions
<1>1. ASSUME NEW c \in Clients, NEW s \in Strategies, Revised(c, s, p)
      PROVE  VersionOK(p, v)'
  <2> DEFINE next == plans[p].version + 1
  <2>1. /\ strategies[s].status = "proposed" /\ strategies[s].kind = "change"
        /\ strategies[s].plan = p /\ strategies[s].base = plans[p].version
        /\ strategies' = [strategies EXCEPT ![s] = [strategies[s] EXCEPT !.status = "approved"]]
        /\ plans'[p].version = next /\ specs'[p][next] = strategies[s].spec
        /\ v # next => specs'[p][v] = specs[p][v]
    BY <1>1 DEF Revised
  <2>2. /\ strategies'[s].status = "approved" /\ strategies'[s].kind = "change"
        /\ strategies'[s].plan = p /\ strategies'[s].base = plans[p].version
        /\ strategies'[s].spec = strategies[s].spec
        /\ \A t \in Strategies \ {s} : strategies'[t] = strategies[t]
    BY <1>0, <2>1 DEF StrategyRow
  <2>3. plans[p].version \in Nat
    BY <1>0 DEF PlanRow
  <2> HIDE DEF next
  <2>4. CASE v = next
    <3>1. Sources(p, v) = {}
      BY <2>3, <2>4 DEF VersionOK, next
    <3>2. Sources(p, v)' = {s}
      BY <2>2, <2>3, <2>4, <3>1 DEF Sources, next
    <3> QED  BY <2>1, <2>2, <2>3, <2>4, <3>2 DEF VersionOK, next
  <2>5. CASE v # next
    <3>1. s \notin Sources(p, v) /\ s \notin Sources(p, v)'
      BY <1>0, <2>1, <2>2, <2>3, <2>5 DEF Sources, next
    <3>2. Sources(p, v)' = Sources(p, v)
      BY <2>2, <3>1 DEF Sources
    <3>3. \A t \in Sources(p, v) : strategies'[t] = strategies[t]
      BY <2>2, <3>1 DEF Sources
    <3> QED  BY <1>0, <2>1, <2>3, <2>5, <3>2, <3>3 DEF VersionOK, next
  <2> QED  BY <2>4, <2>5
<1>2. ASSUME \A c \in Clients, s \in Strategies : ~Revised(c, s, p)
      PROVE  VersionOK(p, v)'
  <2>1. ASSUME NEW s \in Strategies
        PROVE  /\ (s \in Sources(p, v)') <=> (s \in Sources(p, v))
               /\ s \in Sources(p, v) => strategies'[s] = strategies[s]
    <3>1. ASSUME NEW c \in Clients, ApproveVersion(c, s)
          PROVE  s \notin Sources(p, v) /\ s \notin Sources(p, v)'
      <4>1. strategies[s].plan # p /\ strategies[s].status # "approved"
        BY <1>0, <1>2, <3>1, ApprovedPlan DEF ApproveVersion
      <4>2. strategies'[s].plan = strategies[s].plan
        BY <1>0, <3>1 DEF ApproveVersion, StrategyRow
      <4> QED  BY <4>1, <4>2 DEF Sources
    <3> QED  BY <1>0, <3>1, StrategyStep DEF Sources
  <2>2. Sources(p, v)' = Sources(p, v)
    BY <2>1 DEF Sources
  <2>3. Kept(p) \/ Made(p) \/ RuntimeEnded(p) \/ \E c \in Clients : Moved(c, p)
    BY <1>0, <1>2, PlanStep DEF Change, Managed
  <2>4. CASE plans'[p].version = plans[p].version /\ specs'[p] = specs[p]
    <3>1. \A s \in Sources(p, v) : strategies'[s] = strategies[s]
      BY <2>1 DEF Sources
    <3> QED  BY <2>2, <2>4, <3>1 DEF VersionOK
  <2>5. CASE Made(p)
    <3>1. plans[p].version = 0 /\ plans'[p].version = 1
      BY <1>0, <2>5 DEF Made, PlanInv
    <3> QED  BY <1>0, <2>2, <3>1 DEF VersionOK
  <2> QED  BY <2>3, <2>4, <2>5 DEF Kept, RuntimeEnded, Moved
<1> QED  BY <1>1, <1>2

(* Each version of a plan after its first is one approved strategy, derived *)
(* from the version before it: no approval is lost or overwrites another.   *)
THEOREM ApprovalsAreVersions == Spec => []VersionsAreApproved
<1>1. Init => VersionsAreApproved
  <2> SUFFICES ASSUME Init, NEW p \in UserPlans, NEW v \in Versions \ {1}
               PROVE  VersionOK(p, v)
    BY VersionsOK
  <2>1. plans[p].version = 0 /\ v > 0 /\ v \in Nat
    BY ConstantsAssumption DEF Init, PlanIds, Versions
  <2>2. Sources(p, v) = {}
    BY DEF Init, Sources
  <2> QED  BY <2>1, <2>2 DEF VersionOK
<1>2. PlansInv /\ VersionsAreApproved /\ [Next]_vars => VersionsAreApproved'
  <2>1. VersionsAreApproved' <=> \A p \in UserPlans, v \in Versions \ {1} : VersionOK(p, v)'
    BY DEF VersionsAreApproved, VersionOK, Sources
  <2> QED  BY <2>1, VersionsOK, VersionPreserved
<1> QED  BY <1>1, <1>2, InitPlans, PlansInductive, PTL DEF Spec

-----------------------------------------------------------------------------
(* That a rule fired is forgotten only when its plan starts from a draft,   *)
(* when the rule changed, or by an approval that read the rows before it    *)
(* fired.                                                                  *)
THEOREM FiringsStand == Spec => FiringsAreKept
<1>1. ASSUME PlansInv, [Next]_vars, NEW p \in PlanIds, NEW r \in AllRuleIds,
             rules[p][r] = "fired", rules'[p][r] # "fired"
      PROVE  \/ plans[p].status = "draft"
             \/ ~Unchanged(SpecOf(p), SpecOf(p)', r)
             \/ \E c \in Clients : Open(c) /\ api[c].rules[p][r] # "fired"
  <2>0. Change(p) /\ PlanInv(p) /\ ReaderInv
    BY <1>1, PlanStep DEF PlansInv
  <2>1. ~Kept(p) /\ ~Made(p) /\ ~RuntimeEnded(p)
    BY <1>1, <2>0 DEF Kept, Made, RuntimeEnded, PlanInv
  <2>2. ASSUME Managed(p)
        PROVE  ~Unchanged(SpecOf(p), SpecOf(p)', r)
    <3>1. SpecOf(p)' = SystemSpec
      BY <2>2 DEF Managed, SpecOf
    <3>2. r \notin IdsOf(SystemSpec)
      BY <1>1, <2>2 DEF Managed
    <3> QED  BY <3>1, <3>2 DEF Unchanged, IdsOf
  <2>3. ASSUME NEW c \in Clients, Moved(c, p)
        PROVE  plans[p].status = "draft"
    BY <1>1, <2>0, <2>3 DEF Moved, ReaderInv, Commit
  <2>4. ASSUME NEW c \in Clients, NEW s \in Strategies, Revised(c, s, p)
        PROVE  \/ ~Unchanged(SpecOf(p), SpecOf(p)', r)
               \/ Open(c) /\ api[c].rules[p][r] # "fired"
    <3>1. SpecOf(p)' = strategies[s].spec
      BY <2>4 DEF Revised, SpecOf
    <3> QED  BY <1>1, <2>4, <3>1 DEF Revised, Commit
  <2> QED  BY <2>0, <2>1, <2>2, <2>3, <2>4 DEF Change
<1>2. PlansInv /\ [Next]_vars =>
        \A p \in PlanIds, r \in AllRuleIds :
          rules[p][r] = "fired" /\ rules'[p][r] # "fired" =>
            \/ plans[p].status = "draft"
            \/ ~Unchanged(SpecOf(p), SpecOf(p)', r)
            \/ \E c \in Clients : Open(c) /\ api[c].rules[p][r] # "fired"
  BY <1>1
<1> QED  BY <1>2, InitPlans, PlansInductive, PTL DEF Spec, FiringsAreKept
=============================================================================
