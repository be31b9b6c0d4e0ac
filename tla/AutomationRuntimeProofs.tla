----------------------- MODULE AutomationRuntimeProofs -----------------------
(***************************************************************************)
(* Theorems about the automation runtime, for any rules, observations,     *)
(* requests and crashes: a delay rule sends at most one command, and a     *)
(* rule has one command on its way.                                        *)
(***************************************************************************)
EXTENDS AutomationRuntime, FiniteSetTheorems, WellFoundedInduction, TLAPS

(* Where an evaluation is that executes candidates.                        *)
Executing == {"guard", "create", "record"}

Evaluation ==
  [at : Holding \cup {"idle", "wait", "executed", "failed"}, conditions : BOOLEAN,
   view : SUBSET Plans, read : [Actuators -> Claim] \cup {None}, todo : SUBSET Candidate,
   cand : Candidate \cup {None}, cmd : CommandIds \cup {None}]

TypeInv == TypeOK /\ ev \in [Tasks -> Evaluation]

Shape(e) ==
  /\ e.at \in Executing => e.cand \in Candidate
  /\ e.at \notin Executing => e.todo = {} /\ e.cand = None
  /\ e.at \in {"executed", "failed"} => e.cmd \in CommandIds
  /\ e.at \notin {"record", "executed", "failed"} => e.cmd = None

(* One evaluation holds the lock; only it has candidates.                  *)
LockInv ==
  /\ \A t, u \in Tasks : ev[t].at \in Holding /\ ev[u].at \in Holding => t = u
  /\ \A t \in Tasks : Shape(ev[t])

Disjoint(todo) == \A k, l \in todo : k.rules \cap l.rules # {} => k = l

(* A rule is in one candidate.                                             *)
Apart(e) ==
  /\ Disjoint(e.todo)
  /\ e.at \in Executing => \A k \in e.todo : k.rules \cap e.cand.rules = {}

CandInv == \A t \in Tasks : Apart(ev[t])

(* The rule waits in a candidate; its candidate is being recorded.         *)
Unsent(r) ==
  \E t \in Tasks : \/ \E k \in ev[t].todo : r \in k.rules
                   \/ ev[t].at \in {"guard", "create"} /\ r \in ev[t].cand.rules

Recording(r) == \E t \in Tasks : ev[t].at = "record" /\ r \in ev[t].cand.rules

CommandsOf(r) == {c \in CommandIds : r \in cmds[c].key.rules}

(* A delay whose timer has not fired has no command, nor has one that      *)
(* still waits to be sent.                                                 *)
DelayInv ==
  \A r \in spec : r.kind = "delay" =>
    /\ rows[r].next # "none" => ~Unsent(r)
    /\ rows[r].next # "none" \/ Unsent(r) => CommandsOf(r) = {}
    /\ \A c, d \in CommandsOf(r) : c = d

(* A command that is named exists, what is recorded is of the candidate's  *)
(* rules, and a rule with a candidate does not wait for a command.         *)
NameInv ==
  /\ \A c \in CommandIds : cmds[c].status = "free" => cmds[c] = Free
  /\ \A r \in RulesInForce :
       /\ rows[r].cmd # None => cmds[rows[r].cmd].status # "free"
       /\ Unsent(r) \/ Recording(r) => ~OnItsWay(rows[r].cmd)
  /\ \A t \in Tasks : ev[t].cmd # None =>
       /\ cmds[ev[t].cmd].status # "free"
       /\ ev[t].at = "record" => cmds[ev[t].cmd].key.rules = ev[t].cand.rules
       /\ ev[t].at \in {"executed", "failed"} => cmds[ev[t].cmd].status # "open"

(* The handler is about to tell the rule how the command it names ended.   *)
Answered(r) ==
  \E t \in Tasks : ev[t].at \in {"executed", "failed"} /\ ev[t].cmd = rows[r].cmd

(* Retries are spent one at a time: a condition that has a candidate or    *)
(* waits for its command has some left, and one that is about to be told   *)
(* of its command has spent them at most, and one more for each earlier    *)
(* answer that came again.                                                 *)
RetryOK(r) ==
  IF IsCondition(r)
  THEN /\ rows[r].retry <= MaxRetries + 1 + repeats
       /\ Answered(r) => rows[r].retry <= MaxRetries + repeats
       /\ OnItsWay(rows[r].cmd) \/ Unsent(r) \/ Recording(r) => rows[r].retry <= MaxRetries
  ELSE rows[r].retry = 0

RetryInv ==
  /\ \A r \in RulesInForce : RetryOK(r)
  /\ \A t \in Tasks : ev[t].at \in {"executed", "failed"} => t = "mqtt"

(* The open commands that neither the rule's row nor the evaluation that   *)
(* is to record them names: each was lost in a crash.                      *)
Unnamed(r) ==
  {c \in OpenCommands(r) : /\ c # rows[r].cmd
                           /\ \A t \in Tasks : ev[t].at = "record" => ev[t].cmd # c}

LostInv == \A r \in RulesInForce : Cardinality(Unnamed(r)) <= crashes

-----------------------------------------------------------------------------
(* Numbers and sets *)

LEMMA LeastNatural ==
  ASSUME NEW S \in SUBSET Nat, S # {}
  PROVE  \E m \in S : \A k \in S : m <= k
<1>1. PICK m \in S : \A k \in S : ~(<<k, m>> \in OpToRel(<, Nat))
  BY WFMin, NatLessThanWellFounded
<1>2. \A k \in S : ~(k < m)
  BY <1>1 DEF OpToRel
<1> QED  BY <1>2

LEMMA MinIs ==
  ASSUME NEW S \in SUBSET Nat, S # {}
  PROVE  Min(S) \in S /\ \A k \in S : Min(S) <= k
BY LeastNatural DEF Min

LEMMA MaxIs ==
  ASSUME NEW n \in Nat, NEW S \in SUBSET (0 .. n), S # {}
  PROVE  Max(S) \in S /\ \A k \in S : k <= Max(S)
<1> DEFINE M == {n - k : k \in S}
<1>1. PICK m \in M : \A k \in M : m <= k
  <2>1. \A k \in S : n - k \in Nat
    OBVIOUS
  <2>2. M \in SUBSET Nat /\ M # {}
    BY <2>1
  <2> HIDE DEF M
  <2> QED  BY <2>2, LeastNatural
<1>2. PICK x \in S : m = n - x
  OBVIOUS
<1>3. \A k \in S : x >= k
  BY <1>1, <1>2
<1> QED  BY <1>3 DEF Max

(* The commands are finitely many.                                         *)
LEMMA FiniteCommands ==
  \A S \in SUBSET CommandIds :
    IsFiniteSet(S) /\ Cardinality(S) \in Nat
<1>1. IsFiniteSet(CommandIds)
  BY FS_Interval, ConstantsAssumption DEF CommandIds
<1> QED  BY <1>1, FS_Subset, FS_CardinalityType

(* A set that loses members, or gains one, has at most that many.          *)
LEMMA AtMost ==
  ASSUME NEW S \in SUBSET CommandIds, NEW T \in SUBSET CommandIds
  PROVE  /\ T \subseteq S => Cardinality(T) <= Cardinality(S)
         /\ \A c \in CommandIds : T \subseteq S \cup {c} => Cardinality(T) <= Cardinality(S) + 1
         /\ (\A c, d \in S : c = d) => Cardinality(S) <= 1
<1>1. T \subseteq S => Cardinality(T) <= Cardinality(S)
  BY FiniteCommands, FS_Subset
<1>2. ASSUME NEW c \in CommandIds, T \subseteq S \cup {c}
      PROVE  Cardinality(T) <= Cardinality(S) + 1
  <2>1. /\ IsFiniteSet(S \cup {c})
        /\ Cardinality(S \cup {c}) <= Cardinality(S) + 1
    BY FiniteCommands, FS_AddElement
  <2>2. Cardinality(T) <= Cardinality(S \cup {c})
    BY <1>2, <2>1, FS_Subset
  <2> QED  BY <2>1, <2>2, FiniteCommands
<1>3. ASSUME \A c, d \in S : c = d
      PROVE  Cardinality(S) <= 1
  <2>1. CASE S = {}
    BY <2>1, FS_EmptySet
  <2>2. CASE S # {}
    <3>1. PICK c \in S : S = {c}
      BY <1>3, <2>2
    <3> QED  BY <3>1, FS_Singleton
  <2> QED  BY <2>1, <2>2
<1> QED  BY <1>1, <1>2, <1>3

-----------------------------------------------------------------------------
(* Rows, evaluations, claims and candidates *)

LEMMA ColumnUpdates ==
  ASSUME NEW row \in Row
  PROVE  /\ \A b \in BOOLEAN : [row EXCEPT !.seen = b] \in Row
         /\ \A n \in {"none", "future", "due", "late"} : [row EXCEPT !.next = n] \in Row
         /\ \A d \in {"none", "firing", "submitted"} \cup DelayEnds : [row EXCEPT !.delay = d] \in Row
         /\ \A c \in CommandIds \cup {None} : [row EXCEPT !.cmd = c] \in Row
         /\ \A n \in Nat : [row EXCEPT !.retry = n] \in Row
         /\ \A k \in Controls : [row EXCEPT !.seen = TRUE, !.key = k] \in Row
         /\ \A n \in Nat, l \in {"unknown", "false", "pending", "true"} :
              [row EXCEPT !.stable = n, !.last = l] \in Row
<1>1. \A b \in BOOLEAN : [row EXCEPT !.seen = b] \in Row
  BY Zenon DEF Row
<1>2. \A n \in {"none", "future", "due", "late"} : [row EXCEPT !.next = n] \in Row
  BY DEF Row
<1>3. \A d \in {"none", "firing", "submitted"} \cup DelayEnds : [row EXCEPT !.delay = d] \in Row
  BY DEF Row
<1>4. \A c \in CommandIds \cup {None} : [row EXCEPT !.cmd = c] \in Row
  BY DEF Row
<1>5. \A n \in Nat : [row EXCEPT !.retry = n] \in Row
  BY DEF Row
<1>6. \A k \in Controls : [row EXCEPT !.seen = TRUE, !.key = k] \in Row
  BY DEF Row
<1>7. \A n \in Nat, l \in {"unknown", "false", "pending", "true"} :
        [row EXCEPT !.stable = n, !.last = l] \in Row
  BY DEF Row
<1> QED  BY <1>1, <1>2, <1>3, <1>4, <1>5, <1>6, <1>7

(* Writing a column leaves the others.                                     *)
LEMMA Columns ==
  ASSUME NEW row \in Row, NEW x
  PROVE  /\ LET new == [row EXCEPT !.seen = x]
            IN  new.cmd = row.cmd /\ new.retry = row.retry /\ new.next = row.next
         /\ LET new == [row EXCEPT !.next = x]
            IN  new.cmd = row.cmd /\ new.retry = row.retry /\ new.next = x
         /\ LET new == [row EXCEPT !.delay = x]
            IN  new.cmd = row.cmd /\ new.retry = row.retry /\ new.next = row.next
         /\ LET new == [row EXCEPT !.cmd = x]
            IN  new.cmd = x /\ new.retry = row.retry /\ new.next = row.next
         /\ LET new == [row EXCEPT !.retry = x]
            IN  new.cmd = row.cmd /\ new.retry = x /\ new.next = row.next
         /\ LET new == [row EXCEPT !.seen = TRUE, !.key = x]
            IN  new.cmd = row.cmd /\ new.retry = row.retry /\ new.next = row.next
         /\ \A l : LET new == [row EXCEPT !.stable = x, !.last = l]
                  IN  new.cmd = row.cmd /\ new.retry = row.retry /\ new.next = row.next
BY DEF Row

(* A condition's sample leaves its command and clears or keeps its         *)
(* retries.                                                                *)
LEMMA SampledDoes ==
  ASSUME NEW r \in Rules, NEW row \in Row, NEW matches, obs \in Observations
  PROVE  LET new == Sampled(r, row, matches)
         IN  /\ new \in Row /\ new.cmd = row.cmd /\ new.next = row.next
             /\ new.retry \in {row.retry, 0}
<1> DEFINE fresh == ~row.seen
           kept == IF fresh /\ row.key \notin {None, ControlOf(obs)} THEN Cleared(row) ELSE row
           marked == IF fresh THEN [kept EXCEPT !.seen = TRUE, !.key = ControlOf(obs)] ELSE kept
           stable == IF ~fresh THEN row.stable
                     ELSE IF r.plan = "system" /\ row.last = "unknown" THEN r.samples
                     ELSE Min({row.stable + 1, r.samples})
           Good(new) == /\ new \in Row /\ new.cmd = row.cmd /\ new.next = row.next
                        /\ new.retry \in {row.retry, 0}
<1>1. r.samples \in Nat /\ MaxRetries \in Nat
  BY ConstantsAssumption
<1>2. stable \in Nat
  <2>1. row.stable \in Nat /\ {row.stable + 1, r.samples} \in SUBSET Nat
    BY <1>1 DEF Row
  <2>2. Min({row.stable + 1, r.samples}) \in Nat
    BY <2>1, MinIs
  <2> QED  BY <1>1, <2>1, <2>2
<1>3. Good(row)
  OBVIOUS
<1>4. ASSUME NEW old \in Row, Good(old) PROVE Good(Cleared(old))
  <2>1. 0 \in Nat
    BY <1>1
  <2>2. [old EXCEPT !.retry = 0] \in Row
    BY <2>1, ColumnUpdates
  <2>3. LET new == [old EXCEPT !.retry = 0]
        IN  new.cmd = old.cmd /\ new.retry = 0 /\ new.next = old.next
    BY Columns
  <2> QED  BY <1>4, <2>2, <2>3 DEF Cleared
<1>5. Good(kept)
  BY <1>3, <1>4
<1>6. ControlOf(obs) \in Controls
  BY DEF Controls
<1>7. Good(marked)
  <2> HIDE DEF kept
  <2>1. PICK k \in Controls : k = ControlOf(obs)
    BY <1>6
  <2>2. [kept EXCEPT !.seen = TRUE, !.key = k] \in Row
    BY <1>5, ColumnUpdates
  <2>3. LET new == [kept EXCEPT !.seen = TRUE, !.key = k]
        IN  new.cmd = kept.cmd /\ new.retry = kept.retry /\ new.next = kept.next
    BY <1>5, Columns
  <2> QED  BY <1>5, <2>1, <2>2, <2>3
<1>8. ASSUME NEW old \in Row, Good(old), NEW n \in Nat,
             NEW l \in {"unknown", "false", "pending", "true"}
      PROVE  Good([old EXCEPT !.stable = n, !.last = l])
  <2>1. [old EXCEPT !.stable = n, !.last = l] \in Row
    BY ColumnUpdates
  <2>2. LET new == [old EXCEPT !.stable = n, !.last = l]
        IN  new.cmd = old.cmd /\ new.retry = old.retry /\ new.next = old.next
    BY Columns
  <2> QED  BY <1>8, <2>1, <2>2
<1>9. Sampled(r, row, matches) =
        IF matches
        THEN [marked EXCEPT !.stable = stable,
                            !.last = IF stable < r.samples THEN "pending" ELSE "true"]
        ELSE IF fresh THEN [Cleared(marked) EXCEPT !.stable = 0, !.last = "false"] ELSE marked
  BY DEF Sampled
<1>a. marked \in Row
  BY <1>7
<1> HIDE DEF Good, marked, stable, fresh
<1>10. Good(Sampled(r, row, matches))
  <2>1. CASE matches
    <3>1. PICK l \in {"pending", "true"} : l = IF stable < r.samples THEN "pending" ELSE "true"
      OBVIOUS
    <3>2. Good([marked EXCEPT !.stable = stable, !.last = l])
      BY <1>2, <1>7, <1>8, <1>a
    <3> QED  BY <1>9, <2>1, <3>1, <3>2
  <2>2. CASE ~matches
    <3>1. Good([Cleared(marked) EXCEPT !.stable = 0, !.last = "false"])
      <4>1. Good(Cleared(marked))
        BY <1>4, <1>7, <1>a
      <4>2. Cleared(marked) \in Row
        BY <4>1 DEF Good
      <4> QED  BY <1>8, <4>1, <4>2
    <3> QED  BY <1>7, <1>9, <2>2, <3>1
  <2> QED  BY <2>1, <2>2
<1> QED  BY <1>10 DEF Good

LEMMA FiredDoes ==
  ASSUME NEW r, NEW row \in Row
  PROVE  LET new == Fired(r, row)
         IN  /\ new \in Row /\ new.cmd = row.cmd /\ new.retry = row.retry
             /\ new.next = IF r.kind = "interval" THEN "future" ELSE "none"
<1> DEFINE n == IF r.kind = "interval" THEN "future" ELSE "none"
           d == IF r.kind = "interval" THEN row.delay
                ELSE IF row.next = "late" THEN "missed" ELSE "firing"
<1>1. n \in {"none", "future"} /\ d \in {"none", "firing", "submitted"} \cup DelayEnds
  BY DEF Row, DelayEnds
<1>2. Fired(r, row) = [row EXCEPT !.next = n, !.delay = d]
  BY DEF Fired
<1> HIDE DEF n, d
<1>3. LET new == [row EXCEPT !.next = n, !.delay = d]
      IN  new \in Row /\ new.cmd = row.cmd /\ new.retry = row.retry /\ new.next = n
  BY <1>1 DEF Row
<1> QED  BY <1>2, <1>3 DEF n

(* An evaluation leaves the command of a rule, clears or keeps its         *)
(* retries, and takes the timer of a delay that is due.                    *)
LEMMA EvaluatedDoes ==
  ASSUME TypeInv, NEW rules, NEW conditions, NEW steady, NEW r \in RulesInForce
  PROVE  LET new == Evaluated(rules, conditions, steady)[r]
         IN  /\ new \in Row /\ new.cmd = rows[r].cmd /\ new.retry \in {rows[r].retry, 0}
             /\ r.kind = "delay" =>
                  /\ new.next # "none" => rows[r].next # "none"
                  /\ r \in rules /\ rows[r].next = "due" => new.next = "none"
<1> DEFINE matches == IF r.plan = "system" /\ rows[r].last = "unknown" THEN r \in steady
                      ELSE r \in obs.facts
           Good(new) == /\ new \in Row /\ new.cmd = rows[r].cmd
                        /\ new.retry \in {rows[r].retry, 0}
                        /\ r.kind = "delay" =>
                             /\ new.next # "none" => rows[r].next # "none"
                             /\ r \in rules /\ rows[r].next = "due" => new.next = "none"
<1>1. rows[r] \in Row /\ obs \in Observations /\ r \in Rules
  BY ConstantsAssumption DEF TypeInv, TypeOK, RulesInForce, SystemRules, spec
<1>2. Evaluated(rules, conditions, steady)[r] =
        IF r \notin rules THEN rows[r]
        ELSE IF IsCondition(r)
        THEN IF ~conditions THEN rows[r] ELSE Sampled(r, rows[r], matches)
        ELSE IF rows[r].next \in {"due", "late"} THEN Fired(r, rows[r]) ELSE rows[r]
  BY DEF Evaluated
<1>3. IsCondition(r) => r.kind # "delay"
  BY DEF IsCondition
<1> HIDE DEF matches
<1>4. CASE r \in rules /\ IsCondition(r) /\ conditions
  <2>2. LET new == Sampled(r, rows[r], matches)
        IN  /\ new \in Row /\ new.cmd = rows[r].cmd /\ new.next = rows[r].next
            /\ new.retry \in {rows[r].retry, 0}
    BY <1>1, SampledDoes
  <2>3. Evaluated(rules, conditions, steady)[r] = Sampled(r, rows[r], matches)
    BY <1>2, <1>4
  <2> QED  BY <1>3, <1>4, <2>2, <2>3
<1>5. CASE r \in rules /\ ~IsCondition(r) /\ rows[r].next \in {"due", "late"}
  <2>1. LET new == Fired(r, rows[r])
        IN  /\ new \in Row /\ new.cmd = rows[r].cmd /\ new.retry = rows[r].retry
            /\ new.next = IF r.kind = "interval" THEN "future" ELSE "none"
    BY <1>1, FiredDoes
  <2> QED  BY <1>2, <1>5, <2>1
<1>6. CASE ~(\/ r \in rules /\ IsCondition(r) /\ conditions
             \/ r \in rules /\ ~IsCondition(r) /\ rows[r].next \in {"due", "late"})
  <2>1. Evaluated(rules, conditions, steady)[r] = rows[r]
    BY <1>2, <1>6
  <2> QED  BY <1>1, <1>3, <1>6, <2>1
<1> QED  BY <1>4, <1>5, <1>6

LEMMA RecordedDoes ==
  ASSUME NEW r, NEW row \in Row, NEW c \in CommandIds \cup {None}
  PROVE  \E new : /\ new = Recorded(r, row, c)
                  /\ new \in Row /\ new.next = row.next /\ new.cmd = c
                  /\ \/ new.retry = row.retry
                     \/ IsCondition(r) /\ c = None /\ new.retry = row.retry + 1
<1> DEFINE named == [row EXCEPT !.cmd = c]
<1>1. /\ named \in Row /\ named.cmd = c /\ named.retry = row.retry /\ named.next = row.next
      /\ row.retry + 1 \in Nat
  <2>1. row.retry + 1 \in Nat
    BY DEF Row
  <2>2. named \in Row
    BY ColumnUpdates
  <2> QED  BY <2>1, <2>2, Columns
<1>2. Recorded(r, row, c) =
        IF c = None /\ IsCondition(r) THEN Retried(named)
        ELSE IF r.kind = "delay"
        THEN [named EXCEPT !.delay = IF c = None THEN "failed" ELSE "submitted"]
        ELSE named
  BY DEF Recorded
<1> HIDE DEF named
<1>3. CASE c = None /\ IsCondition(r)
  <2>1. [named EXCEPT !.retry = row.retry + 1] \in Row
    BY <1>1, ColumnUpdates
  <2>2. LET new == [named EXCEPT !.retry = row.retry + 1]
        IN  new.cmd = named.cmd /\ new.retry = row.retry + 1 /\ new.next = named.next
    BY <1>1, Columns
  <2>3. Recorded(r, row, c) = [named EXCEPT !.retry = row.retry + 1]
    BY <1>1, <1>2, <1>3 DEF Retried
  <2> QED  BY <1>1, <1>3, <2>1, <2>2, <2>3
<1>4. CASE ~(c = None /\ IsCondition(r)) /\ r.kind = "delay"
  <2>1. PICK d \in {"failed", "submitted"} : d = IF c = None THEN "failed" ELSE "submitted"
    OBVIOUS
  <2>2. [named EXCEPT !.delay = d] \in Row
    BY <1>1, ColumnUpdates DEF DelayEnds
  <2>3. LET new == [named EXCEPT !.delay = d]
        IN  new.cmd = named.cmd /\ new.retry = named.retry /\ new.next = named.next
    BY <1>1, Columns
  <2>4. Recorded(r, row, c) = [named EXCEPT !.delay = d]
    BY <1>2, <1>4, <2>1
  <2> QED  BY <1>1, <2>2, <2>3, <2>4
<1>5. CASE ~(c = None /\ IsCondition(r)) /\ r.kind # "delay"
  BY <1>1, <1>2, <1>5
<1> QED  BY <1>3, <1>4, <1>5

LEMMA ReconciledDoes ==
  ASSUME NEW r, NEW row \in Row, NEW executed \in BOOLEAN
  PROVE  LET new == Reconciled(r, row, executed)
         IN  /\ new \in Row /\ new.next = row.next /\ new.cmd = row.cmd
             /\ \/ new.retry \in {row.retry, 0}
                \/ IsCondition(r) /\ new.retry = row.retry + 1
<1> DEFINE told == IF executed THEN Cleared(row) ELSE IF IsCondition(r) THEN Retried(row) ELSE row
           d == IF executed THEN "executed" ELSE "failed"
           Good(new) == /\ new \in Row /\ new.next = row.next /\ new.cmd = row.cmd
                        /\ \/ new.retry \in {row.retry, 0}
                           \/ IsCondition(r) /\ new.retry = row.retry + 1
<1>1. Good(told)
  <2>1. row.retry + 1 \in Nat /\ 0 \in Nat
    BY DEF Row
  <2>2. ASSUME NEW n \in Nat
        PROVE  LET new == [row EXCEPT !.retry = n]
               IN  /\ new \in Row /\ new.next = row.next /\ new.cmd = row.cmd
                   /\ new.retry = n
    <3>1. [row EXCEPT !.retry = n] \in Row
      BY ColumnUpdates
    <3>2. LET new == [row EXCEPT !.retry = n]
          IN  new.cmd = row.cmd /\ new.retry = n /\ new.next = row.next
      BY Columns
    <3> QED  BY <3>1, <3>2
  <2>3. CASE executed
    BY <2>1, <2>2, <2>3 DEF Cleared
  <2>4. CASE ~executed /\ IsCondition(r)
    BY <2>1, <2>2, <2>4 DEF Retried
  <2>5. CASE ~executed /\ ~IsCondition(r)
    BY <2>5
  <2> QED  BY <2>3, <2>4, <2>5
<1>2. Reconciled(r, row, executed) = IF r.kind = "delay" THEN [told EXCEPT !.delay = d] ELSE told
  BY DEF Reconciled
<1>3. d \in {"none", "firing", "submitted"} \cup DelayEnds
  BY DEF DelayEnds
<1> HIDE DEF told, d
<1>4. [told EXCEPT !.delay = d] \in Row
  BY <1>1, <1>3, ColumnUpdates
<1>5. LET new == [told EXCEPT !.delay = d]
      IN  new.cmd = told.cmd /\ new.retry = told.retry /\ new.next = told.next
  BY <1>1, Columns
<1> QED  BY <1>1, <1>2, <1>4, <1>5

-----------------------------------------------------------------------------
(* Most steps only let commands end, forget a retry, note that a command   *)
(* ended, or get on with what an evaluation does.                          *)
CmdsSettle ==
  \A c \in CommandIds :
    \/ /\ cmds'[c].key.rules = cmds[c].key.rules
       /\ \/ cmds'[c].status = cmds[c].status
          \/ /\ cmds[c].status \in {"open", "executed"}
             /\ cmds'[c].status \in Ended
       /\ cmds[c] = Free => cmds'[c] = Free
    \/ /\ cmds'[c] = Free
       /\ \A r \in RulesInForce : rows'[r].cmd # c
       /\ \A t \in Tasks : ev'[t].cmd # c

RowsCalm ==
  \A r \in RulesInForce :
    /\ rows'[r].cmd = rows[r].cmd
    /\ r.kind = "delay" /\ rows'[r].next # "none" => rows[r].next # "none"

RetriesCalm == \A r \in RulesInForce : rows'[r].retry \in {rows[r].retry, 0}

EvCalm ==
  \A t \in Tasks :
    /\ \A k \in ev'[t].todo : \E l \in ev[t].todo : k.rules = l.rules
    /\ ev'[t].at \in {"guard", "create"} =>
         ev[t].at \in {"guard", "create"} /\ ev'[t].cand.rules = ev[t].cand.rules
    /\ ev'[t].at = "record" =>
         /\ ev'[t].cand.rules = ev[t].cand.rules
         /\ \/ ev[t].at = "record" /\ ev'[t].cmd = ev[t].cmd
            \/ ev[t].at = "guard" /\ ev'[t].cmd = None
    /\ ev[t].at = "record" => ev'[t].at = "record"
    /\ ev'[t].at \in {"executed", "failed"} =>
         \/ ev[t].at = ev'[t].at /\ ev'[t].cmd = ev[t].cmd
         \/ /\ t = "mqtt" /\ ev'[t].cmd \in CommandIds
            /\ cmds'[ev'[t].cmd].status \in Ended
            /\ OnItsWay(ev'[t].cmd) \/ repeats' = repeats + 1

Calm ==
  /\ scene' = scene /\ crashes' = crashes /\ repeats' \in {repeats, repeats + 1}
  /\ CmdsSettle /\ RowsCalm /\ EvCalm

LEMMA SameRules ==
  ASSUME scene' = scene
  PROVE  spec' = spec /\ RulesInForce' = RulesInForce
BY DEF RulesInForce, SystemRules, spec

LEMMA EvShrinks ==
  ASSUME EvCalm
  PROVE  /\ \A r : Unsent(r)' => Unsent(r)
         /\ \A r : Recording(r)' => Recording(r) \/ Unsent(r)
<1>1. ASSUME NEW r, Unsent(r)' PROVE Unsent(r)
  <2>1. PICK t \in Tasks : \/ \E k \in ev'[t].todo : r \in k.rules
                           \/ ev'[t].at \in {"guard", "create"} /\ r \in ev'[t].cand.rules
    BY <1>1 DEF Unsent
  <2> QED  BY <2>1 DEF EvCalm, Unsent
<1>2. ASSUME NEW r, Recording(r)' PROVE Recording(r) \/ Unsent(r)
  BY <1>2 DEF Recording, Unsent, EvCalm
<1> QED  BY <1>1, <1>2

LEMMA CommandsShrink ==
  ASSUME CmdsSettle
  PROVE  /\ \A r : CommandsOf(r)' \subseteq CommandsOf(r)
         /\ \A r : OpenCommands(r)' \subseteq OpenCommands(r)
<1>1. Free.key.rules = {} /\ Free.status # "open"
  BY DEF Free
<1> QED  BY <1>1 DEF CmdsSettle, CommandsOf, OpenCommands, Ended

LEMMA DelayShrinks ==
  ASSUME DelayInv, CmdsSettle, scene' = scene,
         \A r : Unsent(r)' => Unsent(r),
         \A r \in spec : r.kind = "delay" /\ rows'[r].next # "none" => rows[r].next # "none"
  PROVE  DelayInv'
<1>1. ASSUME NEW r \in spec, r.kind = "delay"
      PROVE  /\ rows'[r].next # "none" => ~Unsent(r)'
             /\ rows'[r].next # "none" \/ Unsent(r)' => CommandsOf(r)' = {}
             /\ \A c, d \in CommandsOf(r)' : c = d
  <2>1. CommandsOf(r)' \subseteq CommandsOf(r)
    BY CommandsShrink
  <2>2. /\ rows[r].next # "none" => ~Unsent(r)
        /\ rows[r].next # "none" \/ Unsent(r) => CommandsOf(r) = {}
        /\ \A c, d \in CommandsOf(r) : c = d
    BY <1>1 DEF DelayInv
  <2>3. (Unsent(r)' => Unsent(r)) /\ (rows'[r].next # "none" => rows[r].next # "none")
    BY <1>1
  <2> QED  BY <2>1, <2>2, <2>3
<1> QED  BY <1>1, SameRules DEF DelayInv

LEMMA DelayCalm == Calm /\ DelayInv => DelayInv'
<1> SUFFICES ASSUME Calm, DelayInv PROVE DelayInv'
  OBVIOUS
<1>1. \A r : Unsent(r)' => Unsent(r)
  BY EvShrinks DEF Calm
<1>2. \A r \in spec : r.kind = "delay" /\ rows'[r].next # "none" => rows[r].next # "none"
  BY DEF Calm, RowsCalm, RulesInForce
<1> QED  BY <1>1, <1>2, DelayShrinks DEF Calm

LEMMA NameCalm == TypeInv /\ Calm /\ LockInv' /\ NameInv => NameInv'
<1> SUFFICES ASSUME TypeInv, Calm, LockInv', NameInv PROVE NameInv'
  OBVIOUS
<1>0. CmdsSettle /\ RowsCalm /\ EvCalm /\ RulesInForce' = RulesInForce
  BY SameRules DEF Calm
<1>1. ASSUME NEW c \in CommandIds, cmds'[c].status = "free" PROVE cmds'[c] = Free
  BY <1>0, <1>1 DEF CmdsSettle, NameInv, Ended
(* A command that is named is kept, and was there.                         *)
<1>2. ASSUME NEW c \in CommandIds, cmds[c].status # "free",
             \/ \E r \in RulesInForce : rows'[r].cmd = c
             \/ \E t \in Tasks : ev'[t].cmd = c
      PROVE  /\ cmds'[c].status # "free" /\ cmds'[c].key.rules = cmds[c].key.rules
             /\ cmds'[c].status = "open" => cmds[c].status = "open"
  BY <1>0, <1>2 DEF CmdsSettle, Ended
<1>3. ASSUME NEW r \in RulesInForce
      PROVE  /\ rows'[r].cmd # None => cmds'[rows'[r].cmd].status # "free"
             /\ (Unsent(r)' \/ Recording(r)') /\ rows'[r].cmd # None
                  => cmds'[rows'[r].cmd].status # "open"
  <2>1. CASE rows'[r].cmd = None
    BY <2>1
  <2>2. CASE rows'[r].cmd # None
    <3>1. PICK c \in CommandIds : c = rows[r].cmd /\ c = rows'[r].cmd
      BY <1>0, <2>2 DEF RowsCalm, TypeInv, TypeOK, Row
    <3>2. cmds[c].status # "free"
      BY <3>1, <2>2 DEF NameInv
    <3>3. cmds'[c].status # "free" /\ (cmds'[c].status = "open" => cmds[c].status = "open")
      BY <1>2, <3>1, <3>2
    <3>4. Unsent(r)' \/ Recording(r)' => Unsent(r) \/ Recording(r)
      BY <1>0, EvShrinks
    <3>5. Unsent(r) \/ Recording(r) => cmds[c].status # "open"
      <4>1. Unsent(r) \/ Recording(r) => ~OnItsWay(c)
        BY <3>1 DEF NameInv
      <4> QED  BY <2>2, <3>1, <4>1 DEF OnItsWay
    <3> QED  BY <3>1, <3>3, <3>4, <3>5
  <2> QED  BY <2>1, <2>2
<1>4. ASSUME NEW t \in Tasks, ev'[t].cmd # None
      PROVE  /\ cmds'[ev'[t].cmd].status # "free"
             /\ ev'[t].at = "record" => cmds'[ev'[t].cmd].key.rules = ev'[t].cand.rules
             /\ ev'[t].at \in {"executed", "failed"} => cmds'[ev'[t].cmd].status # "open"
  <2>1. ev'[t].at \in {"record", "executed", "failed"}
    BY <1>4 DEF LockInv, Shape
  <2>2. CASE /\ ev[t].at = ev'[t].at /\ ev'[t].cmd = ev[t].cmd
             /\ ev'[t].at = "record" => ev'[t].cand.rules = ev[t].cand.rules
    <3>1. PICK c \in CommandIds : c = ev[t].cmd /\ c = ev'[t].cmd
      BY <1>4, <2>2 DEF TypeInv, Evaluation
    <3>2. /\ cmds[c].status # "free"
          /\ ev[t].at = "record" => cmds[c].key.rules = ev[t].cand.rules
          /\ ev[t].at \in {"executed", "failed"} => cmds[c].status # "open"
      BY <1>4, <2>2, <3>1 DEF NameInv
    <3>3. /\ cmds'[c].status # "free" /\ cmds'[c].key.rules = cmds[c].key.rules
          /\ cmds'[c].status = "open" => cmds[c].status = "open"
      BY <1>2, <3>1, <3>2
    <3> QED  BY <2>2, <3>1, <3>2, <3>3
  <2>3. CASE /\ ev'[t].at \in {"executed", "failed"} /\ ev'[t].cmd \in CommandIds
             /\ cmds'[ev'[t].cmd].status \in Ended
    BY <2>3 DEF Ended
  <2> QED  BY <1>0, <1>4, <2>1, <2>2, <2>3 DEF EvCalm
<1> QED  BY <1>0, <1>1, <1>3, <1>4 DEF NameInv, OnItsWay

LEMMA RetryCalm == TypeInv /\ Calm /\ RetriesCalm /\ RetryInv => RetryInv'
<1> SUFFICES ASSUME TypeInv, Calm, RetriesCalm, RetryInv PROVE RetryInv'
  OBVIOUS
<1>0. /\ RulesInForce' = RulesInForce /\ CmdsSettle /\ RowsCalm /\ EvCalm
      /\ repeats \in Nat /\ repeats' \in {repeats, repeats + 1} /\ MaxRetries \in Nat
  BY SameRules, ConstantsAssumption DEF Calm, TypeInv, TypeOK
<1>1. ASSUME NEW r \in RulesInForce PROVE RetryOK(r)'
  <2>1. rows'[r].cmd = rows[r].cmd /\ rows[r].cmd \in CommandIds \cup {None}
        /\ rows'[r].retry \in {rows[r].retry, 0} /\ rows[r].retry \in Nat
    BY <1>0 DEF RowsCalm, RetriesCalm, TypeInv, TypeOK, Row
  <2>2. (Unsent(r)' => Unsent(r)) /\ (Recording(r)' => Recording(r) \/ Unsent(r))
    BY <1>0, EvShrinks
  <2>3. OnItsWay(rows[r].cmd)' => OnItsWay(rows[r].cmd)
    BY <1>0, <2>1 DEF OnItsWay, CmdsSettle, Ended, Free
  <2>4. Answered(r)' => Answered(r) \/ OnItsWay(rows[r].cmd) \/ repeats' = repeats + 1
    BY <1>0, <2>1 DEF Answered, EvCalm
  <2>5. RetryOK(r)
    BY DEF RetryInv
  <2>6. CASE IsCondition(r)
    BY <1>0, <2>1, <2>2, <2>3, <2>4, <2>5, <2>6 DEF RetryOK, IsCondition
  <2>7. CASE ~IsCondition(r)
    BY <2>1, <2>5, <2>7 DEF RetryOK, IsCondition
  <2> QED  BY <2>6, <2>7
<1>2. \A t \in Tasks : ev'[t].at \in {"executed", "failed"} => t = "mqtt"
  BY <1>0 DEF EvCalm, RetryInv
<1> QED  BY <1>0, <1>1, <1>2 DEF RetryInv

LEMMA LostShrinks ==
  ASSUME LostInv, scene' = scene, crashes' = crashes, crashes \in Nat,
         \A r \in RulesInForce : Unnamed(r)' \subseteq Unnamed(r)
  PROVE  LostInv'
<1>1. ASSUME NEW r \in RulesInForce
      PROVE  Cardinality(Unnamed(r)') <= crashes'
  <2>1. Unnamed(r) \in SUBSET CommandIds /\ Unnamed(r)' \in SUBSET CommandIds
    BY DEF Unnamed, OpenCommands
  <2>2. Cardinality(Unnamed(r)') <= Cardinality(Unnamed(r))
    BY <2>1, AtMost
  <2>3. Cardinality(Unnamed(r)) <= crashes
    BY DEF LostInv
  <2>4. Cardinality(Unnamed(r)) \in Nat /\ Cardinality(Unnamed(r)') \in Nat
    BY <2>1, FiniteCommands
  <2> QED  BY <2>2, <2>3, <2>4
<1> QED  BY <1>1, SameRules DEF LostInv

LEMMA LostCalm == TypeInv /\ Calm /\ LostInv => LostInv'
<1> SUFFICES ASSUME TypeInv, Calm, LostInv PROVE LostInv'
  OBVIOUS
<1>1. ASSUME NEW r \in RulesInForce
      PROVE  Unnamed(r)' \subseteq Unnamed(r)
  <2>1. ASSUME NEW c \in OpenCommands(r)', c # rows'[r].cmd,
               \A t \in Tasks : ev'[t].at = "record" => ev'[t].cmd # c
        PROVE  c \in Unnamed(r)
    <3>1. c \in OpenCommands(r) /\ cmds'[c].status = "open" /\ c \in CommandIds
      BY CommandsShrink DEF Calm, OpenCommands
    <3>2. c # rows[r].cmd
      BY <2>1, <3>1, ConstantsAssumption DEF Calm, RowsCalm
    <3>3. \A t \in Tasks : ev[t].at = "record" => ev[t].cmd # c
      BY <2>1 DEF Calm, EvCalm
    <3> QED  BY <3>1, <3>2, <3>3 DEF Unnamed
  <2> QED  BY <2>1 DEF Unnamed
<1>2. crashes \in Nat /\ scene' = scene /\ crashes' = crashes
  BY ConstantsAssumption DEF TypeInv, TypeOK, Calm
<1> QED  BY <1>1, <1>2, LostShrinks

-----------------------------------------------------------------------------
(* Where an evaluation goes next *)

EvInv == ev \in [Tasks -> Evaluation] /\ LockInv /\ CandInv

Sound(e) == e \in Evaluation /\ Shape(e) /\ Apart(e)

LEMMA Resting ==
  /\ Sound(Idle) /\ Idle.at = "idle" /\ Idle.todo = {} /\ Idle.cand = None /\ Idle.cmd = None
  /\ \A b \in BOOLEAN : /\ Sound(Scheduled(b)) /\ Scheduled(b).at = "wait"
                        /\ Scheduled(b).todo = {} /\ Scheduled(b).cmd = None
<1>1. /\ Idle \in Evaluation /\ Idle.at = "idle" /\ Idle.todo = {} /\ Idle.cand = None
      /\ Idle.cmd = None
  BY DEF Idle, Evaluation
<1>2. ASSUME NEW b \in BOOLEAN
      PROVE  /\ Scheduled(b) \in Evaluation /\ Scheduled(b).at = "wait"
             /\ Scheduled(b).todo = {} /\ Scheduled(b).cand = None /\ Scheduled(b).cmd = None
  <2>1. CASE b = TRUE
    BY <2>1 DEF Scheduled, Idle, Evaluation
  <2>2. CASE b = FALSE
    BY <2>2 DEF Scheduled, Idle, Evaluation
  <2> QED  BY <2>1, <2>2
<1>3. \A e \in Evaluation : /\ e.at \in {"idle", "wait"} /\ e.todo = {} /\ e.cand = None
                            /\ e.cmd = None
                            => Sound(e)
  BY DEF Sound, Shape, Apart, Disjoint, Executing
<1> QED  BY <1>1, <1>2, <1>3

(* The forms an evaluation takes.                                          *)
LEMMA CollectingForm ==
  ASSUME NEW e \in Evaluation, Sound(e), e.at = "wait",
         NEW v \in SUBSET Plans, NEW c \in [Actuators -> Claim]
  PROVE  LET new == [e EXCEPT !.at = "collect", !.view = v, !.read = c]
         IN  Sound(new) /\ new.at = "collect" /\ new.todo = {}
<1> DEFINE new == [e EXCEPT !.at = "collect", !.view = v, !.read = c]
<1>1. /\ new \in Evaluation /\ new.at = "collect" /\ new.todo = e.todo
      /\ new.cand = e.cand /\ new.cmd = e.cmd
  BY DEF Evaluation, Holding
<1>2. e.todo = {} /\ e.cand = None /\ e.cmd = None
  BY DEF Sound, Shape, Executing
<1> HIDE DEF new
<1>3. Sound(new) /\ new.at = "collect" /\ new.todo = {}
  BY <1>1, <1>2 DEF Sound, Shape, Apart, Disjoint, Executing
<1> QED  BY <1>3 DEF new

LEMMA GuardedForm ==
  ASSUME NEW e \in Evaluation, Sound(e), e.at = "guard", NEW at \in {"create", "record"}
  PROVE  LET new == [e EXCEPT !.at = at]
         IN  /\ Sound(new) /\ new.at = at /\ new.todo = e.todo /\ new.cand = e.cand
             /\ new.cmd = None
<1> USE DEF Sound, Executing
<1> DEFINE new == [e EXCEPT !.at = at]
<1>1. /\ new \in Evaluation /\ new.at = at /\ new.todo = e.todo
      /\ new.cand = e.cand /\ new.cmd = e.cmd
  BY DEF Evaluation, Holding
<1>2. e.cand \in Candidate /\ e.cmd = None
  BY DEF Shape
<1> HIDE DEF new
<1>3. Sound(new)
  BY <1>1, <1>2 DEF Shape, Apart
<1>4. Sound(new) /\ new.at = at /\ new.todo = e.todo /\ new.cand = e.cand /\ new.cmd = None
  BY <1>1, <1>2, <1>3
<1> QED  BY <1>4 DEF new

LEMMA CreatedForm ==
  ASSUME NEW e \in Evaluation, Sound(e), e.at = "create", NEW c \in CommandIds
  PROVE  LET new == [e EXCEPT !.at = "record", !.cmd = c]
         IN  /\ Sound(new) /\ new.at = "record" /\ new.todo = e.todo
             /\ new.cand = e.cand /\ new.cmd = c
<1> USE DEF Sound, Executing
<1> DEFINE new == [e EXCEPT !.at = "record", !.cmd = c]
<1>1. /\ new \in Evaluation /\ new.at = "record" /\ new.todo = e.todo
      /\ new.cand = e.cand /\ new.cmd = c
  BY DEF Evaluation, Holding
<1>2. e.cand \in Candidate
  BY DEF Shape
<1> HIDE DEF new
<1>3. Sound(new)
  BY <1>1, <1>2 DEF Shape, Apart
<1>4. /\ Sound(new) /\ new.at = "record" /\ new.todo = e.todo
      /\ new.cand = e.cand /\ new.cmd = c
  BY <1>1, <1>3
<1> QED  BY <1>4 DEF new

(* So does the evaluation of the next candidate, and an answer's handler.  *)
LEMMA CandidateStarts ==
  ASSUME NEW todo \in SUBSET Candidate, NEW cand \in Candidate, Disjoint(todo),
         \A k \in todo : k.rules \cap cand.rules = {}
  PROVE  LET new == [Idle EXCEPT !.at = "guard", !.todo = todo, !.cand = cand]
         IN  Sound(new) /\ new.at = "guard" /\ new.todo = todo /\ new.cand = cand
<1> DEFINE new == [Idle EXCEPT !.at = "guard", !.todo = todo, !.cand = cand]
<1>1. /\ new \in Evaluation /\ new.at = "guard" /\ new.todo = todo /\ new.cand = cand
      /\ new.cmd = None
  BY DEF Evaluation, Holding, Idle
<1> HIDE DEF new
<1>2. Sound(new)
  BY <1>1 DEF Sound, Shape, Apart, Executing
<1>3. Sound(new) /\ new.at = "guard" /\ new.todo = todo /\ new.cand = cand
  BY <1>1, <1>2
<1> QED  BY <1>3 DEF new

Handler(at, c) == [Idle EXCEPT !.at = at, !.cmd = c]

LEMMA HandlerStarts ==
  ASSUME NEW at \in {"executed", "failed"}, NEW c \in CommandIds
  PROVE  /\ Sound(Handler(at, c)) /\ Handler(at, c).at = at
         /\ Handler(at, c).todo = {} /\ Handler(at, c).cmd = c
<1>1. PICK new : new = Handler(at, c)
  OBVIOUS
<1>2. /\ new \in Evaluation /\ new.at = at /\ new.todo = {} /\ new.cand = None
      /\ new.cmd = c
  BY <1>1 DEF Handler, Evaluation, Holding, Idle
<1>3. Sound(new)
  BY <1>2 DEF Sound, Shape, Apart, Disjoint, Executing
<1> QED  BY <1>1, <1>2, <1>3

(* One evaluation moves; it does not take the lock from another.           *)
LEMMA OneMoves ==
  ASSUME EvInv, NEW t \in Tasks, NEW e, Sound(e), ev' = [ev EXCEPT ![t] = e],
         e.at \in Holding => ev[t].at \in Holding \/ DeviceLock
  PROVE  /\ EvInv' /\ ev'[t] = e
         /\ \A u \in Tasks \ {t} : ev'[u] = ev[u]
<1>1. /\ ev \in [Tasks -> Evaluation] /\ e \in Evaluation
      /\ \A u \in Tasks : Shape(ev[u]) /\ Apart(ev[u])
  BY DEF EvInv, Sound, LockInv, CandInv
<1>2. /\ ev' \in [Tasks -> Evaluation] /\ ev'[t] = e
      /\ \A u \in Tasks \ {t} : ev'[u] = ev[u]
  BY <1>1
<1>3. \A u \in Tasks : Shape(ev'[u]) /\ Apart(ev'[u])
  BY <1>1, <1>2 DEF Sound
<1>4. \A u, v \in Tasks : ev'[u].at \in Holding /\ ev'[v].at \in Holding => u = v
  BY <1>2 DEF EvInv, LockInv, DeviceLock
<1> QED  BY <1>2, <1>3, <1>4 DEF EvInv, LockInv, CandInv

(* What an evaluation is about to send: candidates of rules that matched,  *)
(* have retries left and wait for no command.                              *)
Todo(matched, after, early) ==
  {CandidateOf(g, after) :
     g \in {h \in Groups(matched) : h # {} /\ ~Opposed(h) /\ Ready(h, after, early)}}

LEMMA GroupsApart ==
  ASSUME NEW matched
  PROVE  \A g, h \in Groups(matched) :
           /\ g \subseteq matched
           /\ g \cap h # {} => g = h
<1>1. \A a : \A r \in Winners(matched, a) : r \in matched /\ r.actuator = a
  BY DEF Winners
<1>2. \A a \in Actuators : a # None
  BY DEF Actuators
<1>3. ASSUME NEW g \in Groups(matched)
      PROVE  \/ \E a \in Actuators : g = Winners(matched, a)
             \/ \E q \in matched : q.actuator = None /\ g = {q}
  BY DEF Groups
<1>4. ASSUME NEW g \in Groups(matched), NEW h \in Groups(matched), NEW r \in g \cap h
      PROVE  g = h
  <2>1. CASE \E a \in Actuators : g = Winners(matched, a)
    <3>1. PICK a \in Actuators : g = Winners(matched, a)
      BY <2>1
    <3>2. r.actuator = a /\ a # None
      BY <1>1, <1>2, <3>1
    <3> QED  BY <1>1, <1>3, <3>1, <3>2
  <2>2. CASE \E q \in matched : q.actuator = None /\ g = {q}
    <3>1. g = {r} /\ r.actuator = None
      BY <2>2
    <3> QED  BY <1>1, <1>2, <1>3, <3>1
  <2> QED  BY <1>3, <2>1, <2>2
<1>5. ASSUME NEW g \in Groups(matched) PROVE g \subseteq matched
  BY <1>1, <1>3
<1> QED  BY <1>4, <1>5

LEMMA TodoDoes ==
  ASSUME NEW matched \in SUBSET RulesInForce, NEW after \in [RulesInForce -> Row], NEW early,
         scene \in Scenes
  PROVE  /\ Todo(matched, after, early) \in SUBSET Candidate
         /\ Disjoint(Todo(matched, after, early))
         /\ \A k \in Todo(matched, after, early), r \in Rules :
              r \in k.rules => /\ r \in matched
                               /\ ~OnItsWay(after[r].cmd) /\ after[r].retry <= MaxRetries
<1>0. matched \subseteq Rules
  BY ConstantsAssumption DEF RulesInForce, SystemRules, spec
<1>1. ASSUME NEW k \in Todo(matched, after, early)
      PROVE  /\ k \in Candidate
             /\ \E g \in Groups(matched) :
                  /\ k = CandidateOf(g, after) /\ k.rules = g /\ Ready(g, after, early)
                  /\ g \subseteq matched
  <2>1. PICK g \in Groups(matched) : k = CandidateOf(g, after) /\ g # {} /\ Ready(g, after, early)
    BY DEF Todo
  <2>2. g \in SUBSET matched
    BY GroupsApart
  <2> DEFINE S == {after[r].retry : r \in g}
  <2>3. S \in SUBSET (0 .. MaxRetries) /\ S # {}
    <3>1. \A r \in g : after[r].retry \in 0 .. MaxRetries
      BY <2>1, <2>2, ConstantsAssumption DEF Row, Ready
    <3> QED  BY <2>1, <3>1
  <2>4. Max(S) \in 0 .. MaxRetries
    <3>1. PICK n \in Nat : n = MaxRetries
      BY ConstantsAssumption
    <3> HIDE DEF S
    <3>2. Max(S) \in S
      BY <2>3, <3>1, MaxIs
    <3> QED  BY <2>3, <3>2
  <2>5. PICK age \in 0 .. Gone : age = IF \A r \in g : IsCondition(r) THEN 0 ELSE Gone
    BY DEF Gone
  <2>6. k = [rules |-> g, retry |-> Max(S), age |-> age]
    BY <2>1, <2>5 DEF CandidateOf
  <2>7. k \in Candidate /\ k.rules = g
    <3> HIDE DEF S
    <3> QED  BY <1>0, <2>2, <2>4, <2>6 DEF Candidate
  <2> QED  BY <2>1, <2>2, <2>7
<1>2. ASSUME NEW k \in Todo(matched, after, early), NEW l \in Todo(matched, after, early),
             k.rules \cap l.rules # {}
      PROVE  k = l
  BY <1>1, <1>2, GroupsApart
<1>3. ASSUME NEW k \in Todo(matched, after, early), NEW r \in k.rules
      PROVE  r \in matched /\ ~OnItsWay(after[r].cmd) /\ after[r].retry <= MaxRetries
  BY <1>1 DEF Ready
<1> QED  BY <1>1, <1>2, <1>3 DEF Disjoint

(* The next candidate of a set, or none.                                   *)
LEMMA NextDoes ==
  ASSUME EvInv, NEW t \in Tasks, NEW todo \in SUBSET Candidate, Disjoint(todo),
         ev[t].at \in Holding, NextCandidate(t, todo)
  PROVE  /\ EvInv'
         /\ \A u \in Tasks \ {t} : ev'[u] = ev[u]
         /\ ev'[t].at \in {"idle", "guard"} /\ ev'[t].cmd = None
         /\ ev'[t].at = "guard" => ev'[t].cand \in todo /\ ev'[t].todo = todo \ {ev'[t].cand}
         /\ ev'[t].at = "idle" => ev'[t].todo = {}
<1>1. CASE todo = {}
  <2>1. ev' = [ev EXCEPT ![t] = Idle]
    BY <1>1 DEF NextCandidate
  <2> QED  BY <2>1, OneMoves, Resting
<1>2. CASE todo # {}
  <2>1. PICK c \in todo :
          ev' = [ev EXCEPT ![t] = [Idle EXCEPT !.at = "guard", !.todo = todo \ {c}, !.cand = c]]
    BY <1>2 DEF NextCandidate
  <2>2. /\ todo \ {c} \in SUBSET Candidate /\ c \in Candidate
        /\ Disjoint(todo \ {c}) /\ \A k \in todo \ {c} : k.rules \cap c.rules = {}
    BY DEF Disjoint
  <2>3. PICK e : e = [Idle EXCEPT !.at = "guard", !.todo = todo \ {c}, !.cand = c]
    OBVIOUS
  <2>4. Sound(e) /\ e.at = "guard" /\ e.todo = todo \ {c} /\ e.cand = c
    BY <2>2, <2>3, CandidateStarts
  <2>5. e.cmd = None
    BY <2>4 DEF Sound, Shape
  <2>6. ev' = [ev EXCEPT ![t] = e]
    BY <2>1, <2>3
  <2>7. EvInv' /\ ev'[t] = e /\ \A u \in Tasks \ {t} : ev'[u] = ev[u]
    BY <2>4, <2>6, OneMoves
  <2> QED  BY <2>4, <2>5, <2>7
<1> QED  BY <1>1, <1>2

-----------------------------------------------------------------------------
(* The invariant, and the steps that keep it *)

DataOK ==
  /\ scene \in Scenes
  /\ plans \in [Plans -> PlanStatus] /\ over \in BOOLEAN /\ enabled \in BOOLEAN
  /\ obs \in Observations
  /\ rows \in [RulesInForce -> Row]
  /\ cmds \in [CommandIds -> Command]
  /\ claims \in [Actuators -> Claim]
  /\ requests \in 0 .. scene.requests /\ crashes \in 0 .. scene.crashes
  /\ repeats \in 0 .. scene.repeats

Inv == DataOK /\ EvInv /\ DelayInv /\ NameInv /\ RetryInv /\ LostInv

LEMMA Typed == DataOK /\ EvInv => TypeInv
<1> SUFFICES ASSUME DataOK, EvInv PROVE TypeInv
  OBVIOUS
<1>1. ev \in [Tasks -> Evaluation]
  BY DEF EvInv
<1>2. \A t \in Tasks :
        /\ ev[t].at \in Holding \cup {"idle", "wait", "executed", "failed"}
        /\ ev[t].todo \subseteq Candidate /\ ev[t].cand \in Candidate \cup {None}
        /\ ev[t].cmd \in CommandIds \cup {None} /\ ev[t].view \subseteq Plans
  BY <1>1 DEF Evaluation
<1> QED  BY <1>1, <1>2 DEF DataOK, TypeInv, TypeOK

LEMMA TypedNext == DataOK' /\ EvInv' => TypeInv'
BY Typed, PTL

LEMMA CalmKeeps ==
  ASSUME Inv, Calm, DataOK', EvInv'
  PROVE  /\ DelayInv' /\ NameInv' /\ LostInv'
         /\ RetriesCalm => Inv'
<1>1. TypeInv /\ LockInv'
  BY Typed DEF Inv, EvInv
<1>2. DelayInv' /\ NameInv' /\ LostInv'
  BY <1>1, DelayCalm, NameCalm, LostCalm DEF Inv
<1>3. RetriesCalm => RetryInv'
  BY <1>1, RetryCalm DEF Inv
<1> QED  BY <1>2, <1>3 DEF Inv

LEMMA StandStill ==
  ASSUME rows' = rows, cmds' = cmds
  PROVE  CmdsSettle /\ RowsCalm /\ RetriesCalm
BY DEF CmdsSettle, RowsCalm, RetriesCalm

(* A task begins to wait, to collect or to rest.                           *)
LEMMA QuietMove ==
  ASSUME NEW t \in Tasks, \A u \in Tasks \ {t} : ev'[u] = ev[u],
         ev'[t].todo = {}, ev'[t].at \in {"idle", "wait", "collect"}, ev[t].at # "record"
  PROVE  EvCalm
BY DEF EvCalm

(* Steps that touch neither rows nor commands.                             *)
LEMMA Moves ==
  ASSUME Inv, scene' = scene, rows' = rows, cmds' = cmds, crashes' = crashes,
         repeats' = repeats, DataOK', EvInv', EvCalm
  PROVE  Inv'
BY StandStill, CalmKeeps DEF Calm

LEMMA Stays ==
  ASSUME EvInv, ev' = ev
  PROVE  EvInv' /\ EvCalm
<1>1. EvInv'
  BY DEF EvInv, LockInv, CandInv
<1> QED  BY <1>1 DEF EvCalm

LEMMA TickKeeps == Inv /\ Tick => Inv'
<1> SUFFICES ASSUME Inv, Tick PROVE Inv'
  OBVIOUS
<1>1. /\ ev["other"].at = "idle" /\ ev' = [ev EXCEPT !["other"] = Scheduled(FALSE)]
      /\ UNCHANGED <<scene, plans, over, enabled, obs, rows, cmds, claims, requests,
                     crashes, repeats>>
  BY DEF Tick
<1>2. /\ Sound(Scheduled(FALSE)) /\ Scheduled(FALSE).at = "wait"
      /\ Scheduled(FALSE).todo = {}
  BY Resting
<1>3. /\ EvInv' /\ ev'["other"] = Scheduled(FALSE)
      /\ \A u \in Tasks \ {"other"} : ev'[u] = ev[u]
  BY <1>1, <1>2, OneMoves DEF Inv, Tasks, Holding
<1>4. EvCalm
  BY <1>1, <1>2, <1>3, QuietMove DEF Tasks
<1>5. DataOK'
  BY <1>1, SameRules DEF Inv, DataOK
<1> QED  BY <1>1, <1>3, <1>4, <1>5, Moves

LEMMA WaitToCollect ==
  ASSUME Inv, NEW t \in Tasks, ev[t].at = "wait", DeviceLock, NEW v \in SUBSET Plans,
         ev' = [ev EXCEPT ![t] = [@ EXCEPT !.at = "collect", !.view = v, !.read = claims]]
  PROVE  EvInv' /\ EvCalm
<1>1. claims \in [Actuators -> Claim] /\ ev[t] \in Evaluation /\ Sound(ev[t])
  BY DEF Inv, DataOK, EvInv, LockInv, CandInv, Sound
<1>2. PICK e : e = [ev[t] EXCEPT !.at = "collect", !.view = v, !.read = claims]
  OBVIOUS
<1>3. Sound(e) /\ e.at = "collect" /\ e.todo = {}
  BY <1>1, <1>2, CollectingForm
<1>4. ev' = [ev EXCEPT ![t] = e]
  BY <1>2
<1>5. EvInv' /\ ev'[t] = e /\ \A u \in Tasks \ {t} : ev'[u] = ev[u]
  BY <1>3, <1>4, OneMoves DEF Inv
<1> QED  BY <1>3, <1>5, QuietMove

LEMMA Rests ==
  ASSUME Inv, NEW t \in Tasks, ev' = [ev EXCEPT ![t] = Idle]
  PROVE  /\ EvInv' /\ (ev[t].at # "record" => EvCalm)
         /\ ev'[t] = Idle /\ \A u \in Tasks \ {t} : ev'[u] = ev[u]
<1>1. Sound(Idle) /\ Idle.at = "idle" /\ Idle.todo = {}
  BY Resting
<1>2. EvInv' /\ ev'[t] = Idle /\ \A u \in Tasks \ {t} : ev'[u] = ev[u]
  BY <1>1, OneMoves DEF Inv, Holding
<1> QED  BY <1>1, <1>2, QuietMove

LEMMA CollectKeeps ==
  ASSUME Inv, NEW t \in Tasks, Collect(t)
  PROVE  Inv'
<1>1. /\ ev[t].at = "wait" /\ DeviceLock
      /\ UNCHANGED <<scene, plans, over, enabled, obs, rows, cmds, requests, crashes, repeats>>
  BY DEF Collect
<1>2. NoClaim \in Claim
  BY DEF NoClaim, Claim
<1>3. claims' \in [Actuators -> Claim] /\ EvInv' /\ EvCalm
  <2>1. CASE ~enabled
    <3>1. claims' = [a \in Actuators |-> NoClaim] /\ ev' = [ev EXCEPT ![t] = Idle]
      BY <2>1 DEF Collect
    <3> QED  BY <1>1, <1>2, <3>1, Rests
  <2>2. CASE enabled
    <3>1. PICK v \in SUBSET Plans : v = {p \in Plans : plans[p] = "active"}
      OBVIOUS
    <3>2. /\ claims' = claims
          /\ ev' = [ev EXCEPT ![t] = IF v = {} THEN Idle
                      ELSE [@ EXCEPT !.at = "collect", !.view = v, !.read = claims]]
      BY <2>2, <3>1 DEF Collect
    <3>3. claims' \in [Actuators -> Claim]
      BY <3>2 DEF Inv, DataOK
    <3>4. CASE v = {}
      BY <1>1, <3>2, <3>3, <3>4, Rests
    <3>5. CASE v # {}
      <4>1. ev' = [ev EXCEPT ![t] = [@ EXCEPT !.at = "collect", !.view = v, !.read = claims]]
        BY <3>2, <3>5
      <4> QED  BY <1>1, <3>3, <4>1, WaitToCollect
    <3> QED  BY <3>4, <3>5
  <2> QED  BY <2>1, <2>2
<1>4. DataOK'
  BY <1>1, <1>3, SameRules DEF Inv, DataOK
<1> QED  BY <1>1, <1>3, <1>4, Moves

LEMMA GuardKeeps ==
  ASSUME Inv, NEW t \in Tasks, Guard(t)
  PROVE  Inv'
<1>1. /\ ev[t].at = "guard"
      /\ UNCHANGED <<scene, plans, over, enabled, obs, rows, cmds, claims, requests,
                     crashes, repeats>>
  BY DEF Guard
<1>2. PICK at \in {"create", "record"} : ev' = [ev EXCEPT ![t] = [ev[t] EXCEPT !.at = at]]
  BY DEF Guard
<1>3. ev[t] \in Evaluation /\ Sound(ev[t])
  BY DEF Inv, EvInv, LockInv, CandInv, Sound
<1>4. PICK e : e = [ev[t] EXCEPT !.at = at]
  OBVIOUS
<1>5. Sound(e) /\ e.at = at /\ e.todo = ev[t].todo /\ e.cand = ev[t].cand /\ e.cmd = None
  BY <1>1, <1>3, <1>4, GuardedForm
<1>6. EvInv' /\ ev'[t] = e /\ \A u \in Tasks \ {t} : ev'[u] = ev[u]
  BY <1>1, <1>2, <1>4, <1>5, OneMoves DEF Inv, Holding
<1>7. EvCalm
  BY <1>1, <1>5, <1>6 DEF EvCalm
<1>8. DataOK'
  BY <1>1, SameRules DEF Inv, DataOK
<1> QED  BY <1>1, <1>6, <1>7, <1>8, Moves

(* Requests *)
LEMMA RequestedDoes ==
  ASSUME Inv, Requested, scene' = scene
  PROVE  EvInv' /\ EvCalm /\ requests' \in 0 .. scene.requests
<1>1. requests' \in 0 .. scene.requests
  BY ConstantsAssumption DEF Inv, DataOK, Requested
<1>2. CASE ev' = ev
  BY <1>1, <1>2, Stays DEF Inv
<1>3. CASE ev["other"].at = "idle" /\ ev' = [ev EXCEPT !["other"] = Scheduled(TRUE)]
  <2>1. Sound(Scheduled(TRUE)) /\ Scheduled(TRUE).at = "wait" /\ Scheduled(TRUE).todo = {}
    BY Resting
  <2>2. /\ EvInv' /\ ev'["other"] = Scheduled(TRUE)
        /\ \A u \in Tasks \ {"other"} : ev'[u] = ev[u]
    BY <1>3, <2>1, OneMoves DEF Inv, Tasks, Holding
  <2>3. EvCalm
    BY <1>3, <2>1, <2>2, QuietMove DEF Tasks
  <2> QED  BY <1>1, <2>2, <2>3
<1> QED  BY <1>2, <1>3 DEF Requested

LEMMA WithoutTyped ==
  ASSUME DataOK, NEW p
  PROVE  Without(p) \in [Actuators -> Claim]
<1>1. NoClaim \in Claim
  BY DEF NoClaim, Claim
<1> QED  BY <1>1 DEF Without, DataOK

LEMMA SetStatusKeeps ==
  ASSUME Inv, NEW p \in Plans, NEW from, NEW to \in PlanStatus, SetStatus(p, from, to)
  PROVE  Inv'
<1>1. /\ Requested /\ plans' = [plans EXCEPT ![p] = to]
      /\ claims' = IF to = "active" THEN claims ELSE Without(p)
      /\ UNCHANGED <<scene, over, enabled, obs, rows, cmds, crashes, repeats>>
  BY DEF SetStatus
<1>2. EvInv' /\ EvCalm /\ requests' \in 0 .. scene.requests
  BY <1>1, RequestedDoes
<1>3. claims' \in [Actuators -> Claim]
  BY <1>1, WithoutTyped DEF Inv, DataOK
<1>4. DataOK'
  BY <1>1, <1>2, <1>3, SameRules DEF Inv, DataOK
<1> QED  BY <1>1, <1>2, <1>4, Moves

LEMMA SetPolicyKeeps == Inv /\ SetPolicy => Inv'
<1> SUFFICES ASSUME Inv, SetPolicy PROVE Inv'
  OBVIOUS
<1>1. /\ Requested /\ enabled' = ~enabled
      /\ UNCHANGED <<scene, plans, over, obs, rows, cmds, claims, crashes, repeats>>
  BY DEF SetPolicy
<1>2. EvInv' /\ EvCalm /\ requests' \in 0 .. scene.requests
  BY <1>1, RequestedDoes
<1>3. DataOK'
  BY <1>1, <1>2, SameRules DEF Inv, DataOK
<1> QED  BY <1>1, <1>2, <1>3, Moves

LEMMA PlanRunsOutKeeps == Inv /\ PlanRunsOut => Inv'
<1> SUFFICES ASSUME Inv, PlanRunsOut PROVE Inv'
  OBVIOUS
<1>1. /\ over' = TRUE
      /\ UNCHANGED <<scene, plans, enabled, obs, rows, cmds, claims, ev, requests,
                     crashes, repeats>>
  BY DEF PlanRunsOut
<1>2. EvInv' /\ EvCalm
  BY <1>1, Stays DEF Inv
<1>3. DataOK'
  BY <1>1, SameRules DEF Inv, DataOK
<1> QED  BY <1>1, <1>2, <1>3, Moves

LEMMA StutterKeeps == Inv /\ UNCHANGED vars => Inv'
<1> SUFFICES ASSUME Inv, UNCHANGED vars PROVE Inv'
  OBVIOUS
<1>1. UNCHANGED <<scene, plans, over, enabled, obs, rows, cmds, claims, ev, requests,
                  crashes, repeats>>
  BY DEF vars
<1>2. EvInv' /\ EvCalm
  BY <1>1, Stays DEF Inv
<1>3. DataOK'
  BY <1>1, SameRules DEF Inv, DataOK
<1> QED  BY <1>1, <1>2, <1>3, Moves

LEMMA TimerPassesKeeps ==
  ASSUME Inv, NEW r \in RulesInForce, TimerPasses(r)
  PROVE  Inv'
<1>1. PICK n \in {"due", "late"} : rows' = [rows EXCEPT ![r] = [rows[r] EXCEPT !.next = n]]
  BY DEF TimerPasses, RowChanges
<1>2. /\ rows[r].next # "none"
      /\ UNCHANGED <<scene, plans, over, enabled, obs, cmds, claims, ev, requests,
                     crashes, repeats>>
  BY DEF TimerPasses, RowChanges
<1>3. rows \in [RulesInForce -> Row]
  BY DEF Inv, DataOK
<1>4. PICK row : row = [rows[r] EXCEPT !.next = n]
  OBVIOUS
<1>5. row \in Row /\ row.cmd = rows[r].cmd /\ row.retry = rows[r].retry
  BY <1>3, <1>4, ColumnUpdates, Columns
<1>6. /\ rows' \in [RulesInForce -> Row] /\ rows'[r] = row
      /\ \A q \in RulesInForce \ {r} : rows'[q] = rows[q]
  BY <1>1, <1>3, <1>4, <1>5
<1>7. RowsCalm /\ RetriesCalm
  BY <1>2, <1>5, <1>6 DEF RowsCalm, RetriesCalm
<1>8. CmdsSettle
  BY <1>2 DEF CmdsSettle
<1>9. EvInv' /\ EvCalm
  BY <1>2, Stays DEF Inv
<1>10. DataOK'
  BY <1>2, <1>6, SameRules DEF Inv, DataOK
<1> QED  BY <1>2, <1>7, <1>8, <1>9, <1>10, CalmKeeps DEF Calm

(* The device answers, and commands are given up or forgotten *)
LEMMA CommandUpdates ==
  ASSUME NEW pool \in [CommandIds -> Command], NEW c \in CommandIds,
         NEW x \in {"free", "open"} \cup Ended,
         NEW new, new = [pool EXCEPT ![c].status = x]
  PROVE  /\ new \in [CommandIds -> Command]
         /\ new[c].status = x /\ new[c].key = pool[c].key
         /\ \A d \in CommandIds \ {c} : new[d] = pool[d]
<1>1. PICK one : one = [pool[c] EXCEPT !.status = x]
  OBVIOUS
<1>2. one \in Command /\ one.status = x /\ one.key = pool[c].key
  BY <1>1 DEF Command
<1>3. new = [pool EXCEPT ![c] = one]
  BY <1>1
<1> QED  BY <1>2, <1>3

LEMMA KeptDoes ==
  ASSUME NEW pool \in [CommandIds -> Command], NEW names, NEW e
  PROVE  /\ Kept(pool, names, e) \in [CommandIds -> Command]
         /\ \A c \in CommandIds :
              \/ Kept(pool, names, e)[c] = pool[c]
              \/ /\ Kept(pool, names, e)[c] = Free
                 /\ \A r \in RulesInForce : names[r].cmd # c
                 /\ \A t \in Tasks : e[t].cmd # c
<1>1. Free \in Command
  <2>1. 0 \in Nat /\ Gone \in 0 .. Gone
    BY ConstantsAssumption DEF Gone
  <2> QED  BY <2>1 DEF Free, Command, Candidate
<1>2. \A c \in CommandIds :
        \/ Kept(pool, names, e)[c] = pool[c]
        \/ /\ Kept(pool, names, e)[c] = Free
           /\ \A r \in RulesInForce : names[r].cmd # c
           /\ \A t \in Tasks : e[t].cmd # c
  BY DEF Kept
<1> DEFINE new == [c \in CommandIds |-> Kept(pool, names, e)[c]]
<1>3. Kept(pool, names, e) = new
  BY DEF Kept
<1>4. new \in [CommandIds -> Command]
  BY <1>1, <1>2
<1> QED  BY <1>2, <1>3, <1>4

LEMMA Settles ==
  ASSUME NEW pool \in [CommandIds -> Command], cmds' = Kept(pool, rows', ev'),
         \A c \in CommandIds :
           /\ pool[c].key.rules = cmds[c].key.rules
           /\ \/ pool[c].status = cmds[c].status
              \/ /\ cmds[c].status \in {"open", "executed"}
                 /\ pool[c].status \in Ended
           /\ cmds[c] = Free => pool[c] = Free
  PROVE  CmdsSettle /\ cmds' \in [CommandIds -> Command]
<1>1. /\ cmds' \in [CommandIds -> Command]
      /\ \A c \in CommandIds :
           \/ cmds'[c] = pool[c]
           \/ /\ cmds'[c] = Free
              /\ \A r \in RulesInForce : rows'[r].cmd # c
              /\ \A t \in Tasks : ev'[t].cmd # c
  BY KeptDoes
<1> QED  BY <1>1 DEF CmdsSettle

(* The message handler begins to tell the rule.                            *)
Tells(c, status) == ev["mqtt"].at = "idle" /\ Told(c, status)

LEMMA HandlerTells ==
  ASSUME Inv, NEW c \in CommandIds, NEW status \in {"executed", "failed"}, Tells(c, status)
  PROVE  /\ EvInv' /\ \A u \in Tasks \ {"mqtt"} : ev'[u] = ev[u]
         /\ ev'["mqtt"].at = status /\ ev'["mqtt"].todo = {} /\ ev'["mqtt"].cmd = c
<1>1. ev["mqtt"].at = "idle" /\ ev' = [ev EXCEPT !["mqtt"] = Handler(status, c)]
  BY DEF Tells, Told, Handler
<1>2. PICK e : e = Handler(status, c)
  OBVIOUS
<1>3. Sound(e) /\ e.at = status /\ e.todo = {} /\ e.cmd = c
  BY <1>2, HandlerStarts
<1>4. EvInv' /\ ev'["mqtt"] = e /\ \A u \in Tasks \ {"mqtt"} : ev'[u] = ev[u]
  BY <1>1, <1>2, <1>3, OneMoves DEF Inv, Tasks, Holding
<1> QED  BY <1>3, <1>4

LEMMA ToldDoes ==
  ASSUME Inv, NEW c \in CommandIds, NEW status \in {"executed", "failed"}, Told(c, status),
         ev["mqtt"].at = "idle", cmds'[c].status \in Ended,
         OnItsWay(c) \/ repeats' = repeats + 1
  PROVE  EvInv' /\ EvCalm
BY HandlerTells DEF EvCalm, Tells

LEMMA AnswerKeeps ==
  ASSUME Inv, NEW c \in CommandIds, NEW status \in {"executed", "failed"}, Answer(c, status)
  PROVE  Inv'
<1>1. /\ ev["mqtt"].at = "idle" /\ cmds[c].status = "open" /\ Told(c, status)
      /\ UNCHANGED <<scene, plans, over, enabled, obs, rows, claims, requests, crashes, repeats>>
  BY DEF Answer
<1>2. PICK x \in {"free", "open"} \cup Ended :
        x \in Ended /\ cmds' = [cmds EXCEPT ![c].status = x]
  BY DEF Answer, Ended
<1>3. /\ cmds' \in [CommandIds -> Command]
      /\ cmds'[c].status = x /\ cmds'[c].key = cmds[c].key
      /\ \A d \in CommandIds \ {c} : cmds'[d] = cmds[d]
  <2>1. cmds \in [CommandIds -> Command]
    BY DEF Inv, DataOK
  <2>2. PICK new : new = [cmds EXCEPT ![c].status = x]
    OBVIOUS
  <2>3. /\ new \in [CommandIds -> Command] /\ new[c].status = x /\ new[c].key = cmds[c].key
        /\ \A d \in CommandIds \ {c} : new[d] = cmds[d]
    BY <2>1, <2>2, CommandUpdates
  <2> QED  BY <1>2, <2>2, <2>3
<1>4. CmdsSettle
  <2>1. cmds[c] # Free
    BY <1>1 DEF Free
  <2> QED  BY <1>1, <1>2, <1>3, <2>1 DEF CmdsSettle
<1>5. EvInv' /\ EvCalm
  <2>1. OnItsWay(c)
    BY <1>1, ConstantsAssumption DEF OnItsWay
  <2> QED  BY <1>1, <1>2, <1>3, <2>1, ToldDoes
<1>6. RowsCalm /\ RetriesCalm
  BY <1>1 DEF RowsCalm, RetriesCalm
<1>7. DataOK'
  BY <1>1, <1>3, SameRules DEF Inv, DataOK
<1> QED  BY <1>1, <1>4, <1>5, <1>6, <1>7, CalmKeeps DEF Calm

LEMMA AnswerAgainKeeps ==
  ASSUME Inv, NEW c \in CommandIds, AnswerAgain(c)
  PROVE  Inv'
<1>1. /\ ev["mqtt"].at = "idle" /\ cmds[c].status \in Ended
      /\ repeats < scene.repeats /\ repeats' = repeats + 1
      /\ UNCHANGED <<scene, plans, over, enabled, obs, rows, cmds, claims, requests, crashes>>
  BY DEF AnswerAgain
<1>2. PICK status \in {"executed", "failed"} : Told(c, status)
  BY DEF AnswerAgain
<1>3. EvInv' /\ EvCalm
  BY <1>1, <1>2, ToldDoes
<1>4. repeats' \in 0 .. scene.repeats
  BY <1>1, ConstantsAssumption DEF Inv, DataOK
<1>5. DataOK'
  BY <1>1, <1>4, SameRules DEF Inv, DataOK
<1> QED  BY <1>1, <1>3, <1>5, StandStill, CalmKeeps DEF Calm

LEMMA GiveUpKeeps ==
  ASSUME Inv, NEW c \in CommandIds, GiveUp(c)
  PROVE  Inv'
<1>a. PICK pool : pool = [cmds EXCEPT ![c].status = "failed"]
  OBVIOUS
<1>1. /\ cmds[c].status = "open" /\ cmds' = Kept(pool, rows, ev)
      /\ UNCHANGED <<scene, plans, over, enabled, obs, rows, claims, ev, requests, crashes,
                     repeats>>
  BY <1>a DEF GiveUp
<1>2. /\ pool \in [CommandIds -> Command]
      /\ pool[c].status = "failed" /\ pool[c].key = cmds[c].key
      /\ \A d \in CommandIds \ {c} : pool[d] = cmds[d]
  <2>1. PICK x \in {"free", "open"} \cup Ended : x = "failed"
    BY DEF Ended
  <2> QED  BY <1>a, <2>1, CommandUpdates DEF Inv, DataOK
<1>3. CmdsSettle /\ cmds' \in [CommandIds -> Command]
  <2>1. \A d \in CommandIds :
          /\ pool[d].key.rules = cmds[d].key.rules
          /\ \/ pool[d].status = cmds[d].status
             \/ /\ cmds[d].status \in {"open", "executed"}
                /\ pool[d].status \in Ended
          /\ cmds[d] = Free => pool[d] = Free
    BY <1>1, <1>2 DEF Free, Ended
  <2>2. cmds' = Kept(pool, rows', ev')
    BY <1>1
  <2> QED  BY <1>2, <2>1, <2>2, Settles
<1>4. RowsCalm /\ RetriesCalm
  BY <1>1 DEF RowsCalm, RetriesCalm
<1>5. EvInv' /\ EvCalm
  BY <1>1, Stays DEF Inv
<1>6. DataOK'
  BY <1>1, <1>3, SameRules DEF Inv, DataOK
<1> QED  BY <1>1, <1>3, <1>4, <1>5, <1>6, CalmKeeps DEF Calm

(* A message is stored: keys grow older *)
LEMMA OlderDoes ==
  \A key \in Candidate : Older(key) \in Candidate /\ Older(key).rules = key.rules
<1>1. /\ 1 \in 0 .. Gone /\ Gone \in 0 .. Gone /\ 0 \in Nat
  BY ConstantsAssumption DEF Gone
<1> SUFFICES ASSUME NEW key \in Candidate
             PROVE  Older(key) \in Candidate /\ Older(key).rules = key.rules
  OBVIOUS
<1>2. [key EXCEPT !.age = 1] \in Candidate /\ [key EXCEPT !.age = 1].rules = key.rules
  BY <1>1 DEF Candidate
<1>3. /\ [key EXCEPT !.age = Gone, !.retry = 0] \in Candidate
      /\ [key EXCEPT !.age = Gone, !.retry = 0].rules = key.rules
  BY <1>1 DEF Candidate
<1> QED  BY <1>2, <1>3 DEF Older

Aged(e) ==
  LET todo == {Older(k) : k \in e.todo}
      cand == IF e.cand = None THEN None ELSE Older(e.cand)
  IN  [e EXCEPT !.todo = todo, !.cand = cand]

LEMMA AgedForm ==
  ASSUME NEW e \in Evaluation, Sound(e), NEW new, new = Aged(e)
  PROVE  /\ Sound(new) /\ new.at = e.at /\ new.cmd = e.cmd
         /\ \A k \in new.todo : \E l \in e.todo : k.rules = l.rules
         /\ e.at \in Executing => new.cand.rules = e.cand.rules
<1> DEFINE todo == {Older(k) : k \in e.todo}
           cand == IF e.cand = None THEN None ELSE Older(e.cand)
<1>1. /\ e.todo \in SUBSET Candidate /\ e.cand \in Candidate \cup {None}
      /\ new = [e EXCEPT !.todo = todo, !.cand = cand]
  BY DEF Evaluation, Aged
<1>2. /\ todo \in SUBSET Candidate
      /\ \A k \in todo : \E l \in e.todo : k = Older(l) /\ k.rules = l.rules
  BY <1>1, OlderDoes
<1>3. /\ cand \in Candidate \cup {None}
      /\ e.cand \in Candidate => cand \in Candidate /\ cand.rules = e.cand.rules
  BY <1>1, OlderDoes
<1>4. /\ new \in Evaluation /\ new.at = e.at /\ new.cmd = e.cmd
      /\ new.todo = todo /\ new.cand = cand
  <2> HIDE DEF todo, cand
  <2> QED  BY <1>1, <1>2, <1>3 DEF Evaluation
<1>5. Shape(new)
  <2>1. Shape(e)
    BY DEF Sound
  <2>2. e.todo = {} => todo = {}
    OBVIOUS
  <2>3. e.cand = None => cand = None
    OBVIOUS
  <2> QED  BY <1>3, <1>4, <2>1, <2>2, <2>3 DEF Shape
<1>6. Apart(new)
  <2>1. /\ \A k, l \in e.todo : k.rules \cap l.rules # {} => k = l
        /\ e.at \in Executing => /\ e.cand \in Candidate
                                 /\ \A k \in e.todo : k.rules \cap e.cand.rules = {}
    BY DEF Sound, Apart, Disjoint, Shape
  <2>2. Disjoint(todo)
    BY <1>2, <2>1 DEF Disjoint
  <2>3. e.at \in Executing => \A k \in todo : k.rules \cap cand.rules = {}
    BY <1>2, <1>3, <2>1
  <2> QED  BY <1>4, <2>2, <2>3 DEF Apart
<1>7. e.at \in Executing => cand.rules = e.cand.rules
  BY <1>3 DEF Sound, Shape
<1> QED  BY <1>2, <1>4, <1>5, <1>6, <1>7 DEF Sound

LEMMA ObserveMoves ==
  ASSUME Inv, NEW t \in Tasks, NEW o, NEW newer, Observe(t, o, newer)
  PROVE  EvInv' /\ EvCalm
<1>1. /\ ev[t].at = "idle"
      /\ ev' = [d \in Tasks |-> IF d = t THEN Scheduled(TRUE)
           ELSE [ev[d] EXCEPT !.todo = {Older(k) : k \in @},
                              !.cand = IF @ = None THEN None ELSE Older(@)]]
  BY DEF Observe
<1>2. \A u \in Tasks : ev[u] \in Evaluation /\ Sound(ev[u])
  BY DEF Inv, EvInv, LockInv, CandInv, Sound
<1>3. /\ Sound(Scheduled(TRUE)) /\ Scheduled(TRUE).at = "wait"
      /\ Scheduled(TRUE).todo = {} /\ Scheduled(TRUE).cmd = None
  BY Resting
<1>4. ev'[t] = Scheduled(TRUE)
  BY <1>1
<1>5. ASSUME NEW u \in Tasks, u # t
      PROVE  /\ Sound(ev'[u]) /\ ev'[u].at = ev[u].at /\ ev'[u].cmd = ev[u].cmd
             /\ \A k \in ev'[u].todo : \E l \in ev[u].todo : k.rules = l.rules
             /\ ev[u].at \in Executing => ev'[u].cand.rules = ev[u].cand.rules
  <2>1. PICK old \in Evaluation : old = ev[u]
    BY <1>2
  <2>2. Sound(old)
    BY <1>2, <2>1
  <2>3. ev'[u] = Aged(old)
    BY <1>1, <1>5, <2>1 DEF Aged
  <2> QED  BY <2>1, <2>2, <2>3, AgedForm
<1>6. EvInv'
  <2>1. \A u \in Tasks : Sound(ev'[u])
    BY <1>3, <1>4, <1>5
  <2>2. ev' \in [Tasks -> Evaluation]
    <3>1. ev' = [d \in Tasks |-> ev'[d]]
      BY <1>1
    <3> QED  BY <2>1, <3>1 DEF Sound
  <2>3. \A u, v \in Tasks : ev'[u].at \in Holding /\ ev'[v].at \in Holding => u = v
    BY <1>3, <1>4, <1>5 DEF Inv, EvInv, LockInv, Holding
  <2> QED  BY <2>1, <2>2, <2>3 DEF EvInv, LockInv, CandInv, Sound
<1>7. EvCalm
  <2>1. ev'[t].todo = {} /\ ev'[t].at = "wait" /\ ev[t].at = "idle"
    BY <1>1, <1>3, <1>4
  <2>2. ASSUME NEW u \in Tasks, u # t
        PROVE  /\ ev'[u].at = ev[u].at /\ ev'[u].cmd = ev[u].cmd
               /\ \A k \in ev'[u].todo : \E l \in ev[u].todo : k.rules = l.rules
               /\ ev[u].at \in {"guard", "create", "record"} => ev'[u].cand.rules = ev[u].cand.rules
    BY <1>5, <2>2 DEF Executing
  <2> QED  BY <2>1, <2>2 DEF EvCalm
<1> QED  BY <1>6, <1>7

LEMMA ObserveKeeps ==
  ASSUME Inv, NEW t \in Tasks, NEW o \in scene.observations, NEW newer, Observe(t, o, newer)
  PROVE  Inv'
<1>1. PICK pool : pool = [c \in CommandIds |->
        [status |-> IF newer /\ cmds[c].status = "executed" THEN "settled" ELSE cmds[c].status,
         key |-> Older(cmds[c].key)]]
  OBVIOUS
<1>2. /\ obs' = o /\ cmds' = Kept(pool, rows, ev')
      /\ rows' = [r \in RulesInForce |-> [rows[r] EXCEPT !.seen = FALSE]]
      /\ UNCHANGED <<scene, plans, over, enabled, claims, requests, crashes, repeats>>
  BY <1>1 DEF Observe
<1>3. EvInv' /\ EvCalm
  BY ObserveMoves
<1>4. ASSUME NEW r \in RulesInForce
      PROVE  /\ rows'[r] \in Row /\ rows'[r].cmd = rows[r].cmd
             /\ rows'[r].retry = rows[r].retry /\ rows'[r].next = rows[r].next
  <2>1. rows[r] \in Row
    BY DEF Inv, DataOK
  <2>2. [rows[r] EXCEPT !.seen = FALSE] \in Row
    BY <2>1, ColumnUpdates
  <2>3. LET new == [rows[r] EXCEPT !.seen = FALSE]
        IN  new.cmd = rows[r].cmd /\ new.retry = rows[r].retry /\ new.next = rows[r].next
    BY <2>1, Columns
  <2> QED  BY <1>2, <2>2, <2>3
<1>5. RowsCalm /\ RetriesCalm
  BY <1>4 DEF RowsCalm, RetriesCalm
<1>6. rows' \in [RulesInForce -> Row]
  BY <1>2, <1>4
<1>7. ASSUME NEW c \in CommandIds
      PROVE  /\ pool[c] \in Command
             /\ pool[c].key.rules = cmds[c].key.rules
             /\ \/ pool[c].status = cmds[c].status
                \/ /\ cmds[c].status \in {"open", "executed"}
                   /\ pool[c].status \in Ended
             /\ cmds[c] = Free => pool[c] = Free
  <2>1. cmds[c] \in Command /\ cmds[c].key \in Candidate
    BY DEF Inv, DataOK, Command
  <2>2. Older(cmds[c].key) \in Candidate /\ Older(cmds[c].key).rules = cmds[c].key.rules
    BY <2>1, OlderDoes
  <2>3. PICK key \in Candidate : key = Older(cmds[c].key)
    BY <2>2
  <2>4. PICK status \in {"free", "open"} \cup Ended :
          /\ status = IF newer /\ cmds[c].status = "executed" THEN "settled" ELSE cmds[c].status
          /\ \/ status = cmds[c].status
             \/ cmds[c].status = "executed" /\ status = "settled"
    BY <2>1 DEF Command, Ended
  <2>5. pool[c] = [status |-> status, key |-> key]
    BY <1>1, <2>3, <2>4
  <2>6. pool[c] \in Command
    BY <2>5 DEF Command
  <2>7. cmds[c] = Free => pool[c] = Free
    <3>1. ASSUME cmds[c] = Free PROVE key = Free.key /\ status = "free"
      <4>1. Free.key.age = Gone /\ Free.key.retry = 0 /\ Free.status = "free"
        BY DEF Free
      <4>2. Older(Free.key) = [Free.key EXCEPT !.age = Gone, !.retry = 0]
        BY <4>1 DEF Older
      <4>3. \A k \in Candidate : k.age = Gone /\ k.retry = 0 =>
              /\ [k EXCEPT !.age = Gone] = k /\ [k EXCEPT !.retry = 0] = k
        BY DEF Candidate
      <4>4. [Free.key EXCEPT !.age = Gone, !.retry = 0] = Free.key
        BY <2>1, <3>1, <4>1, <4>3, Zenon
      <4> QED  BY <2>3, <2>4, <3>1, <4>1, <4>2, <4>4
    <3>2. Free = [status |-> "free", key |-> Free.key]
      BY DEF Free
    <3> QED  BY <2>5, <3>1, <3>2
  <2> QED  BY <2>2, <2>3, <2>4, <2>5, <2>6, <2>7
<1>8. pool \in [CommandIds -> Command]
  BY <1>1, <1>7
<1>9. CmdsSettle /\ cmds' \in [CommandIds -> Command]
  <2>1. cmds' = Kept(pool, rows', ev')
    <3>1. \A r \in RulesInForce : rows'[r].cmd = rows[r].cmd
      BY <1>4
    <3>2. Kept(pool, rows', ev') = Kept(pool, rows, ev')
      BY <3>1 DEF Kept
    <3> QED  BY <1>2, <3>2
  <2> QED  BY <1>7, <1>8, <2>1, Settles
<1>10. obs' \in Observations
  BY <1>2 DEF Observations, Inv, DataOK
<1>11. DataOK'
  BY <1>2, <1>6, <1>9, <1>10, SameRules DEF Inv, DataOK
<1> QED  BY <1>2, <1>3, <1>5, <1>9, <1>11, CalmKeeps DEF Calm

(* The answer is reconciled with the rules *)
LEMMA FinishedTyped ==
  \A after : \A status \in PlanStatus : Finished(status, after) \in PlanStatus
BY DEF Finished, PlanStatus

(* While nobody executes candidates, no rule is in one.                    *)
LEMMA NobodyExecutes ==
  ASSUME EvInv, \A u \in Tasks : ev[u].at \notin Executing
  PROVE  \A r : ~Unsent(r) /\ ~Recording(r)
<1>1. \A u \in Tasks : ev[u].at \notin Executing /\ ev[u].todo = {}
  BY DEF EvInv, LockInv, Shape
<1> QED  BY <1>1 DEF Unsent, Recording, Executing

LEMMA ReconcileKeeps ==
  ASSUME Inv, NEW t \in Tasks, Reconcile(t)
  PROVE  Inv'
<1>1. PICK c \in CommandIds : c = ev[t].cmd /\ cmds[c].status # "open" /\ cmds[c].status # "free"
  <2>1. ev[t].at \in {"executed", "failed"}
    BY DEF Reconcile
  <2>2. ev[t].cmd \in CommandIds
    BY <2>1 DEF Inv, EvInv, LockInv, Shape
  <2> QED  BY <2>1, <2>2, ConstantsAssumption DEF Inv, NameInv
<1>2. PICK executed \in BOOLEAN : executed = (ev[t].at = "executed")
  OBVIOUS
<1>3. /\ ev[t].at \in {"executed", "failed"} /\ DeviceLock
      /\ rows' = [r \in RulesInForce |->
                    IF rows[r].cmd = c THEN Reconciled(r, rows[r], executed) ELSE rows[r]]
      /\ ev' = [ev EXCEPT ![t] = Idle]
      /\ cmds' = Kept(cmds, rows', ev')
      /\ UNCHANGED <<scene, over, enabled, obs, requests, crashes, repeats>>
  BY <1>1, <1>2 DEF Reconcile
<1>4. /\ plans' \in [Plans -> PlanStatus]
      /\ claims' \in [Actuators -> Claim]
  <2>1. PICK after, status :
          /\ status \in {Finished(plans["user"], after), plans["user"]}
          /\ plans' = [plans EXCEPT !["user"] = status]
          /\ claims' = IF status # plans["user"] THEN Without("user") ELSE claims
    BY DEF Reconcile
  <2>2. plans["user"] \in PlanStatus /\ plans \in [Plans -> PlanStatus]
    BY DEF Inv, DataOK, Plans
  <2>3. status \in PlanStatus
    BY <2>1, <2>2, FinishedTyped
  <2> QED  BY <2>1, <2>2, <2>3, WithoutTyped DEF Inv, DataOK
<1>5. EvInv' /\ EvCalm
  BY <1>3, Rests
<1>6. ASSUME NEW r \in RulesInForce
      PROVE  /\ rows'[r] \in Row /\ rows'[r].next = rows[r].next
             /\ rows'[r].cmd = rows[r].cmd
             /\ \/ rows'[r].retry \in {rows[r].retry, 0}
                \/ /\ IsCondition(r) /\ rows[r].cmd = c
                   /\ rows'[r].retry = rows[r].retry + 1
  <2>1. rows[r] \in Row
    BY DEF Inv, DataOK
  <2>2. CASE rows[r].cmd = c
    <3> DEFINE new == Reconciled(r, rows[r], executed)
    <3>1. /\ new \in Row /\ new.next = rows[r].next /\ new.cmd = rows[r].cmd
          /\ \/ new.retry \in {rows[r].retry, 0}
             \/ IsCondition(r) /\ new.retry = rows[r].retry + 1
      BY <2>1, ReconciledDoes
    <3>2. rows'[r] = new
      BY <1>3, <2>2
    <3> HIDE DEF new
    <3> QED  BY <2>2, <3>1, <3>2
  <2>3. CASE rows[r].cmd # c
    BY <1>3, <2>1, <2>3
  <2> QED  BY <2>2, <2>3
<1>7. cmds \in [CommandIds -> Command]
  BY DEF Inv, DataOK
<1>8. CmdsSettle /\ cmds' \in [CommandIds -> Command]
  BY <1>3, <1>7, Settles
<1>9. RowsCalm
  BY <1>6 DEF RowsCalm
<1>10. DataOK'
  <2>1. rows' \in [RulesInForce -> Row]
    BY <1>3, <1>6
  <2> QED  BY <1>3, <1>4, <1>8, <2>1, SameRules DEF Inv, DataOK
<1>11. DelayInv' /\ NameInv' /\ LostInv'
  BY <1>3, <1>5, <1>8, <1>9, <1>10, CalmKeeps DEF Calm
<1>12. RetryInv'
  <2>1. \A r : ~Unsent(r) /\ ~Recording(r)
    BY <1>3, NobodyExecutes DEF Inv, DeviceLock, Executing, Holding
  <2>2. \A r : ~Unsent(r)' /\ ~Recording(r)'
    BY <1>5, <2>1, EvShrinks
  <2>3. /\ repeats \in Nat /\ MaxRetries \in Nat /\ t = "mqtt"
        /\ \A u \in Tasks : ev'[u].at \notin {"executed", "failed"}
    <3>1. repeats \in Nat /\ MaxRetries \in Nat
      BY ConstantsAssumption DEF Inv, DataOK
    <3>2. t = "mqtt" /\ \A u \in Tasks \ {t} : ev[u].at \notin {"executed", "failed"}
      BY <1>3 DEF Inv, RetryInv
    <3>3. ev'[t].at = "idle" /\ \A u \in Tasks \ {t} : ev'[u] = ev[u]
      BY <1>3, Rests, Resting
    <3> QED  BY <3>1, <3>2, <3>3
  <2>4. ASSUME NEW r \in RulesInForce PROVE RetryOK(r)'
    <3>1. RetryOK(r) /\ rows[r].retry \in Nat /\ rows[r].cmd \in CommandIds \cup {None}
      BY DEF Inv, RetryInv, DataOK, Row
    <3>2. ~Answered(r)' /\ ~Unsent(r)' /\ ~Recording(r)'
      BY <2>2, <2>3 DEF Answered
    <3>3. OnItsWay(rows[r].cmd)' => OnItsWay(rows[r].cmd) /\ rows[r].cmd # c
      BY <1>1, <1>6, <1>8, <3>1 DEF OnItsWay, CmdsSettle, Ended, Free
    <3>4. rows[r].cmd = c => Answered(r)
      BY <1>1, <1>3 DEF Answered
    <3>5. CASE IsCondition(r)
      <4>1. /\ rows[r].retry <= MaxRetries + 1 + repeats
            /\ rows[r].cmd = c => rows[r].retry <= MaxRetries + repeats
            /\ OnItsWay(rows[r].cmd) => rows[r].retry <= MaxRetries
        BY <3>1, <3>4, <3>5 DEF RetryOK
      <4>2. rows'[r].retry <= MaxRetries + 1 + repeats
        BY <1>6, <2>3, <3>1, <4>1
      <4>3. OnItsWay(rows[r].cmd)' => rows'[r].retry <= MaxRetries
        BY <1>6, <2>3, <3>1, <3>3, <4>1
      <4> QED  BY <1>3, <3>2, <3>5, <4>2, <4>3 DEF RetryOK, IsCondition
    <3>6. CASE ~IsCondition(r)
      BY <1>6, <3>1, <3>6 DEF RetryOK, IsCondition
    <3> QED  BY <3>5, <3>6
  <2> QED  BY <1>3, <2>3, <2>4, SameRules DEF RetryInv
<1> QED  BY <1>5, <1>10, <1>11, <1>12 DEF Inv

(* The gateway stops: a command that was to be recorded is lost.           *)
LEMMA CrashKeeps == Inv /\ Crash => Inv'
<1> SUFFICES ASSUME Inv, Crash PROVE Inv'
  OBVIOUS
<1>1. /\ crashes < scene.crashes /\ crashes' = crashes + 1
      /\ ev' = [t \in Tasks |-> IF t = "other" THEN Scheduled(TRUE) ELSE Idle]
      /\ claims' = [a \in Actuators |-> NoClaim]
      /\ UNCHANGED <<scene, plans, over, enabled, obs, rows, cmds, requests, repeats>>
  BY DEF Crash
<1>2. \A t \in Tasks : /\ Sound(ev'[t]) /\ ev'[t].at \in {"idle", "wait"}
                       /\ ev'[t].todo = {} /\ ev'[t].cmd = None
  BY <1>1, Resting
<1>3. EvInv'
  <2>1. ev' \in [Tasks -> Evaluation]
    <3>1. ev' = [t \in Tasks |-> ev'[t]]
      BY <1>1
    <3> QED  BY <1>2, <3>1 DEF Sound
  <2> QED  BY <1>2, <2>1 DEF EvInv, LockInv, CandInv, Sound, Holding
<1>4. scene.crashes \in Nat /\ crashes \in Nat /\ crashes' \in 0 .. scene.crashes
  BY <1>1, ConstantsAssumption DEF Inv, DataOK
<1>5. DataOK'
  <2>1. NoClaim \in Claim
    BY DEF NoClaim, Claim
  <2> QED  BY <1>1, <1>4, <2>1, SameRules DEF Inv, DataOK
<1>6. \A r : ~Unsent(r)' /\ ~Recording(r)'
  BY <1>2 DEF Unsent, Recording
<1>7. RulesInForce' = RulesInForce /\ spec' = spec
  BY <1>1, SameRules
<1>8. DelayInv'
  BY <1>1, <1>6, <1>7 DEF Inv, DelayInv, CommandsOf
<1>9. NameInv'
  BY <1>1, <1>2, <1>6, <1>7 DEF Inv, NameInv
<1>10. RetryInv'
  <2>1. \A r : ~Answered(r)'
    BY <1>2 DEF Answered
  <2>2. \A r : OnItsWay(rows[r].cmd)' = OnItsWay(rows[r].cmd)
    BY <1>1 DEF OnItsWay
  <2>3. ASSUME NEW r \in RulesInForce PROVE RetryOK(r)'
    <3>1. RetryOK(r)
      BY DEF Inv, RetryInv
    <3> QED  BY <1>1, <1>6, <2>1, <2>2, <3>1 DEF RetryOK, IsCondition, OnItsWay
  <2> QED  BY <1>2, <1>7, <2>3 DEF RetryInv
<1>11. LostInv'
  <2>1. ASSUME NEW r \in RulesInForce
        PROVE  Cardinality(Unnamed(r)') <= crashes'
    <3>1. Unnamed(r) \in SUBSET CommandIds /\ Unnamed(r)' \in SUBSET CommandIds
      BY DEF Unnamed, OpenCommands
    <3>2. \E c \in CommandIds \cup {None} : Unnamed(r)' \subseteq Unnamed(r) \cup {c}
      <4>1. PICK u \in Tasks : \A t \in Tasks : ev[t].at = "record" => t = u
        BY DEF Inv, EvInv, LockInv, Holding, Tasks
      <4>2. ev[u].cmd \in CommandIds \cup {None}
        BY DEF Inv, EvInv, Evaluation
      <4>3. Unnamed(r)' \subseteq Unnamed(r) \cup {ev[u].cmd}
        BY <1>1, <4>1 DEF Unnamed, OpenCommands
      <4> QED  BY <4>2, <4>3
    <3>3. Cardinality(Unnamed(r)') <= Cardinality(Unnamed(r)) + 1
      <4>1. PICK c \in CommandIds \cup {None} : Unnamed(r)' \subseteq Unnamed(r) \cup {c}
        BY <3>2
      <4>2. CASE c = None
        <5>1. Unnamed(r)' \subseteq Unnamed(r)
          BY <3>1, <4>1, <4>2, ConstantsAssumption
        <5> QED  BY <3>1, <5>1, AtMost, FiniteCommands
      <4>3. CASE c \in CommandIds
        BY <3>1, <4>1, <4>3, AtMost
      <4> QED  BY <4>2, <4>3
    <3>4. Cardinality(Unnamed(r)) <= crashes
      BY DEF Inv, LostInv
    <3>5. Cardinality(Unnamed(r)) \in Nat /\ Cardinality(Unnamed(r)') \in Nat
      BY <3>1, FiniteCommands
    <3> QED  BY <1>1, <1>4, <3>3, <3>4, <3>5
  <2> QED  BY <1>7, <2>1 DEF LostInv
<1> QED  BY <1>3, <1>5, <1>8, <1>9, <1>10, <1>11 DEF Inv

LEMMA InitHolds == Init => Inv
<1> SUFFICES ASSUME Init PROVE Inv
  OBVIOUS
<1>1. /\ scene \in Scenes /\ over = FALSE /\ enabled = TRUE
      /\ plans = [system |-> "active", user |-> IF spec = {} THEN "cancelled" ELSE "active"]
      /\ obs \in scene.observations
      /\ rows = [r \in RulesInForce |-> FreshRow(r)]
      /\ cmds = [c \in CommandIds |-> Free]
      /\ claims = [a \in Actuators |-> NoClaim]
      /\ ev = [t \in Tasks |-> Idle] /\ requests = 0 /\ crashes = 0 /\ repeats = 0
  BY DEF Init
<1>2. /\ Sound(Idle) /\ Idle.at = "idle" /\ Idle.todo = {} /\ Idle.cmd = None
  BY Resting
<1>3. EvInv
  BY <1>1, <1>2 DEF EvInv, LockInv, CandInv, Sound, Holding
<1>4. \A r \in RulesInForce : /\ rows[r] \in Row /\ rows[r].cmd = None /\ rows[r].retry = 0
  <2>1. 0 \in Nat
    BY ConstantsAssumption
  <2>2. \A r : /\ FreshRow(r) \in Row /\ FreshRow(r).cmd = None /\ FreshRow(r).retry = 0
    BY <2>1 DEF FreshRow, Row
  <2> QED  BY <1>1, <2>2
<1>5. /\ \A c \in CommandIds : cmds[c] = Free
      /\ Free \in Command /\ Free.key.rules = {} /\ Free.status = "free"
  <2>1. 0 \in Nat /\ Gone \in 0 .. Gone
    BY ConstantsAssumption DEF Gone
  <2> QED  BY <1>1, <2>1 DEF Free, Command, Candidate
<1>6. DataOK
  <2>1. obs \in Observations
    BY <1>1 DEF Observations
  <2>2. NoClaim \in Claim
    BY DEF NoClaim, Claim
  <2>3. plans \in [Plans -> PlanStatus]
    BY <1>1 DEF Plans, PlanStatus
  <2>4. 0 \in 0 .. scene.requests /\ 0 \in 0 .. scene.crashes /\ 0 \in 0 .. scene.repeats
    BY <1>1, ConstantsAssumption
  <2>5. rows \in [RulesInForce -> Row] /\ cmds \in [CommandIds -> Command]
    BY <1>1, <1>4, <1>5
  <2> QED  BY <1>1, <2>1, <2>2, <2>3, <2>4, <2>5 DEF DataOK
<1>7. \A r : ~Unsent(r) /\ ~Recording(r) /\ CommandsOf(r) = {} /\ OpenCommands(r) = {}
  BY <1>1, <1>2, <1>5 DEF Unsent, Recording, CommandsOf, OpenCommands
<1>8. DelayInv
  BY <1>7 DEF DelayInv
<1>9. NameInv
  BY <1>1, <1>2, <1>4, <1>5, <1>7 DEF NameInv
<1>10. RetryInv
  <2>1. \A r \in RulesInForce : RetryOK(r)
    BY <1>1, <1>4, ConstantsAssumption DEF RetryOK
  <2> QED  BY <1>1, <1>2, <2>1 DEF RetryInv
<1>11. LostInv
  <2>1. \A r \in RulesInForce : Unnamed(r) = {}
    BY <1>7 DEF Unnamed
  <2>2. Cardinality({}) <= 0
    BY FS_EmptySet
  <2>3. \A r \in RulesInForce : Cardinality(Unnamed(r)) <= 0
    BY <2>1, <2>2
  <2> QED  BY <1>1, <2>3 DEF LostInv
<1> QED  BY <1>3, <1>6, <1>8, <1>9, <1>10, <1>11 DEF Inv

(* The command of a candidate is created *)
LEMMA CreateKeeps ==
  ASSUME Inv, NEW t \in Tasks, Create(t)
  PROVE  Inv'
<1>1. PICK cand \in Candidate : cand = ev[t].cand /\ ev[t].at = "create"
  <2>1. ev[t].at = "create"
    BY DEF Create
  <2> QED  BY <2>1 DEF Inv, EvInv, LockInv, Shape, Executing
<1>2. PICK c \in CommandIds :
        /\ ev' = [ev EXCEPT ![t] = [ev[t] EXCEPT !.at = "record", !.cmd = c]]
        /\ \/ SameKey(c, cand) /\ cmds' = cmds
           \/ cmds[c] = Free /\ cmds' = [cmds EXCEPT ![c] = [status |-> "open", key |-> cand]]
  <2> DEFINE same == {d \in CommandIds : SameKey(d, cand)}
             free == {d \in CommandIds : cmds[d] = Free}
             S == IF same # {} THEN same ELSE free
  <2>1. /\ S # {}
        /\ cmds' = IF same # {} THEN cmds
                   ELSE [cmds EXCEPT ![Min(S)] = [status |-> "open", key |-> cand]]
        /\ ev' = [ev EXCEPT ![t] = [ev[t] EXCEPT !.at = "record", !.cmd = Min(S)]]
    BY <1>1 DEF Create
  <2>2. S \in SUBSET Nat
    BY DEF CommandIds
  <2>3. Min(S) \in S
    <3> HIDE DEF S
    <3> QED  BY <2>1, <2>2, MinIs
  <2> QED  BY <2>1, <2>3
<1>3. UNCHANGED <<scene, plans, over, enabled, obs, rows, claims, requests, crashes, repeats>>
  BY DEF Create
<1>4. \A u \in Tasks : ev[u] \in Evaluation /\ Sound(ev[u])
  BY DEF Inv, EvInv, LockInv, CandInv, Sound
<1>5. PICK e : e = [ev[t] EXCEPT !.at = "record", !.cmd = c]
  OBVIOUS
<1>6. Sound(e) /\ e.at = "record" /\ e.todo = ev[t].todo /\ e.cand = cand /\ e.cmd = c
  BY <1>1, <1>4, <1>5, CreatedForm
<1>7. EvInv' /\ ev'[t] = e /\ \A u \in Tasks \ {t} : ev'[u] = ev[u]
  BY <1>1, <1>2, <1>5, <1>6, OneMoves DEF Inv, Holding
(* Nobody else executes, and the candidate is apart from the others.       *)
<1>8. /\ \A u \in Tasks \ {t} : ev[u].at \notin Executing /\ ev[u].todo = {}
      /\ \A k \in ev[t].todo : k.rules \cap cand.rules = {}
  BY <1>1, <1>4 DEF Inv, EvInv, LockInv, CandInv, Apart, Shape, Executing, Holding
<1>9. \A r : /\ Unsent(r)' => Unsent(r) /\ r \notin cand.rules
             /\ Recording(r)' <=> r \in cand.rules
             /\ r \in cand.rules => Unsent(r)
  BY <1>1, <1>6, <1>7, <1>8 DEF Unsent, Recording, Executing
<1>10. /\ cmds \in [CommandIds -> Command]
       /\ Free.status = "free" /\ Free.key.rules = {}
  BY DEF Inv, DataOK, Free
<1>11. /\ cmds' \in [CommandIds -> Command]
       /\ cmds'[c].status # "free" /\ cmds'[c].key.rules = cand.rules
       /\ \A d \in CommandIds \ {c} : cmds'[d] = cmds[d]
       /\ \/ cmds'[c] = cmds[c]
          \/ cmds[c].status = "free" /\ cmds[c].key.rules = {}
  <2>1. CASE SameKey(c, cand) /\ cmds' = cmds
    BY <1>10, <2>1 DEF SameKey
  <2>2. CASE cmds[c] = Free /\ cmds' = [cmds EXCEPT ![c] = [status |-> "open", key |-> cand]]
    <3>1. PICK new : new = [status |-> "open", key |-> cand]
      OBVIOUS
    <3>2. new \in Command /\ new.status = "open" /\ new.key = cand
      BY <3>1 DEF Command
    <3> QED  BY <1>10, <2>2, <3>1, <3>2
  <2> QED  BY <1>2, <2>1, <2>2
<1>12. DataOK'
  BY <1>3, <1>11, SameRules DEF Inv, DataOK
<1>13. RulesInForce' = RulesInForce /\ spec' = spec
  BY <1>3, SameRules
<1>14. DelayInv'
  <2>1. ASSUME NEW r \in spec, r.kind = "delay"
        PROVE  /\ rows'[r].next # "none" => ~Unsent(r)'
               /\ rows'[r].next # "none" \/ Unsent(r)' => CommandsOf(r)' = {}
               /\ \A d, f \in CommandsOf(r)' : d = f
    <3>1. /\ rows[r].next # "none" => ~Unsent(r)
          /\ rows[r].next # "none" \/ Unsent(r) => CommandsOf(r) = {}
          /\ \A d, f \in CommandsOf(r) : d = f
      BY <2>1 DEF Inv, DelayInv
    <3>2. CASE r \in cand.rules
      <4>1. Unsent(r) /\ ~Unsent(r)' /\ CommandsOf(r) = {} /\ rows'[r].next = "none"
        BY <1>3, <1>9, <3>1, <3>2
      <4>2. CommandsOf(r)' \subseteq {c}
        BY <1>11, <4>1 DEF CommandsOf
      <4> QED  BY <4>1, <4>2
    <3>3. CASE r \notin cand.rules
      <4>1. CommandsOf(r)' \subseteq CommandsOf(r)
        BY <1>11, <3>3 DEF CommandsOf
      <4> QED  BY <1>3, <1>9, <3>1, <4>1
    <3> QED  BY <3>2, <3>3
  <2> QED  BY <1>13, <2>1 DEF DelayInv
<1>15. NameInv'
  <2>1. ASSUME NEW d \in CommandIds, cmds'[d].status = "free" PROVE cmds'[d] = Free
    BY <1>11, <2>1 DEF Inv, NameInv
  <2>2. ASSUME NEW d \in CommandIds, cmds[d].status # "free" PROVE cmds'[d] = cmds[d]
    BY <1>11, <2>2
  <2>3. ASSUME NEW r \in RulesInForce
        PROVE  /\ rows'[r].cmd # None => cmds'[rows'[r].cmd].status # "free"
               /\ Unsent(r)' \/ Recording(r)' =>
                    ~(rows'[r].cmd # None /\ cmds'[rows'[r].cmd].status = "open")
    <3>1. rows[r].cmd \in CommandIds \cup {None}
      BY DEF Inv, DataOK, Row
    <3>2. /\ rows[r].cmd # None => cmds[rows[r].cmd].status # "free"
          /\ Unsent(r) => ~(rows[r].cmd # None /\ cmds[rows[r].cmd].status = "open")
      BY DEF Inv, NameInv, OnItsWay
    <3> QED  BY <1>3, <1>9, <2>2, <3>1, <3>2
  <2>4. ASSUME NEW u \in Tasks, ev'[u].cmd # None
        PROVE  /\ cmds'[ev'[u].cmd].status # "free"
               /\ ev'[u].at = "record" => cmds'[ev'[u].cmd].key.rules = ev'[u].cand.rules
               /\ ev'[u].at \in {"executed", "failed"} => cmds'[ev'[u].cmd].status # "open"
    <3>1. CASE u = t
      BY <1>6, <1>7, <1>11, <3>1
    <3>2. CASE u # t
      <4>1. ev'[u] = ev[u] /\ ev[u].cmd \in CommandIds
        BY <1>4, <1>7, <2>4, <3>2 DEF Evaluation
      <4>2. /\ cmds[ev[u].cmd].status # "free"
            /\ ev[u].at = "record" => cmds[ev[u].cmd].key.rules = ev[u].cand.rules
            /\ ev[u].at \in {"executed", "failed"} => cmds[ev[u].cmd].status # "open"
        BY <2>4, <4>1 DEF Inv, NameInv
      <4> QED  BY <2>2, <4>1, <4>2
    <3> QED  BY <3>1, <3>2
  <2> QED  BY <1>13, <2>1, <2>3, <2>4 DEF NameInv, OnItsWay
<1>16. RetryInv'
  <2>1. \A u \in Tasks : ev'[u].at \in {"executed", "failed"} =>
          u # t /\ ev'[u] = ev[u]
    BY <1>6, <1>7
  <2>2. ASSUME NEW r \in RulesInForce PROVE RetryOK(r)'
    <3>1. Unsent(r)' \/ Recording(r)' => Unsent(r)
      BY <1>9
    <3>2. Answered(r)' => Answered(r)
      BY <1>3, <2>1 DEF Answered
    <3>3. OnItsWay(rows[r].cmd)' => OnItsWay(rows[r].cmd)
      <4>1. rows[r].cmd \in CommandIds \cup {None}
            /\ (rows[r].cmd # None => cmds[rows[r].cmd].status # "free")
        BY DEF Inv, DataOK, Row, NameInv
      <4> QED  BY <1>3, <1>11, <4>1 DEF OnItsWay, CmdsSettle, Ended, Free
    <3>4. RetryOK(r)
      BY DEF Inv, RetryInv
    <3> QED  BY <1>3, <3>1, <3>2, <3>3, <3>4 DEF RetryOK, IsCondition
  <2> QED  BY <1>13, <2>1, <2>2 DEF Inv, RetryInv
<1>17. LostInv'
  <2>1. \A r \in RulesInForce : Unnamed(r)' \subseteq Unnamed(r)
    BY <1>1, <1>3, <1>6, <1>7, <1>8, <1>11 DEF Unnamed, OpenCommands, Executing
  <2>2. LostInv /\ crashes \in Nat
    BY ConstantsAssumption DEF Inv, DataOK
  <2> QED  BY <1>3, <2>1, <2>2, LostShrinks
<1> QED  BY <1>7, <1>12, <1>14, <1>15, <1>16, <1>17 DEF Inv

(* The execution of a candidate is recorded *)
LEMMA RecordKeeps ==
  ASSUME Inv, NEW t \in Tasks, Record(t)
  PROVE  Inv'
<1>1. PICK cand \in Candidate : cand = ev[t].cand /\ ev[t].at = "record"
  <2>1. ev[t].at = "record"
    BY DEF Record
  <2> QED  BY <2>1 DEF Inv, EvInv, LockInv, Shape, Executing
<1>2. PICK c \in CommandIds \cup {None} : c = ev[t].cmd
  BY DEF Inv, EvInv, Evaluation
<1>3. /\ rows' = [r \in RulesInForce |->
                    IF r \in cand.rules THEN Recorded(r, rows[r], c) ELSE rows[r]]
      /\ NextCandidate(t, ev[t].todo)
      /\ cmds' = Kept(cmds, rows', ev')
      /\ UNCHANGED <<scene, over, enabled, obs, requests, crashes, repeats>>
  BY <1>1, <1>2 DEF Record
<1>4. /\ plans' \in [Plans -> PlanStatus]
      /\ claims' \in [Actuators -> Claim]
  <2>1. PICK after, status :
          /\ status \in {Finished(plans["user"], after), plans["user"]}
          /\ plans' = [plans EXCEPT !["user"] = status]
          /\ claims' = IF status # plans["user"] THEN Without("user") ELSE claims
    BY DEF Record
  <2>2. plans["user"] \in PlanStatus /\ plans \in [Plans -> PlanStatus]
    BY DEF Inv, DataOK, Plans
  <2>3. status \in PlanStatus
    BY <2>1, <2>2, FinishedTyped
  <2> QED  BY <2>1, <2>2, <2>3, WithoutTyped DEF Inv, DataOK
<1>5. /\ ev[t].todo \in SUBSET Candidate /\ Disjoint(ev[t].todo)
      /\ \A k \in ev[t].todo : k.rules \cap cand.rules = {}
      /\ \A u \in Tasks \ {t} : ev[u].at \notin Executing /\ ev[u].todo = {}
  BY <1>1 DEF Inv, EvInv, LockInv, CandInv, Apart, Shape, Executing, Holding, Evaluation
<1>6. /\ EvInv'
      /\ \A u \in Tasks \ {t} : ev'[u] = ev[u]
      /\ ev'[t].at \in {"idle", "guard"} /\ ev'[t].cmd = None
      /\ ev'[t].at = "guard" => /\ ev'[t].cand \in ev[t].todo
                                /\ ev'[t].todo = ev[t].todo \ {ev'[t].cand}
      /\ ev'[t].at = "idle" => ev'[t].todo = {}
  <2>1. PICK todo \in SUBSET Candidate : todo = ev[t].todo
    BY <1>5
  <2> QED  BY <1>1, <1>3, <1>5, <2>1, NextDoes DEF Inv, Holding
<1>7. \A r : /\ Unsent(r)' => Unsent(r) /\ r \notin cand.rules
             /\ ~Recording(r)'
             /\ r \in cand.rules => Recording(r)
  BY <1>1, <1>5, <1>6 DEF Unsent, Recording, Executing
<1>8. /\ cmds \in [CommandIds -> Command] /\ None \notin CommandIds
      /\ c # None => /\ cmds[c].status # "free"
                     /\ cmds[c].key.rules = cand.rules
  BY <1>1, <1>2, ConstantsAssumption DEF Inv, DataOK, NameInv
<1>9. TypeInv
  BY Typed DEF Inv
<1>10. ASSUME NEW r \in RulesInForce
       PROVE  /\ rows'[r] \in Row /\ rows'[r].next = rows[r].next
              /\ r \notin cand.rules => rows'[r] = rows[r]
              /\ r \in cand.rules =>
                   /\ rows'[r].cmd = c
                   /\ \/ rows'[r].retry = rows[r].retry
                      \/ /\ IsCondition(r) /\ c = None
                         /\ rows'[r].retry = rows[r].retry + 1
  <2>1. rows[r] \in Row
    BY DEF Inv, DataOK
  <2>2. CASE r \in cand.rules
    <3>1. PICK new :
            /\ new = Recorded(r, rows[r], c)
            /\ new \in Row /\ new.next = rows[r].next /\ new.cmd = c
            /\ \/ new.retry = rows[r].retry
               \/ IsCondition(r) /\ c = None /\ new.retry = rows[r].retry + 1
      BY <2>1, RecordedDoes
    <3>2. rows'[r] = new
      BY <1>3, <2>2, <3>1
    <3> QED  BY <2>2, <3>1, <3>2
  <2>3. CASE r \notin cand.rules
    BY <1>3, <2>1, <2>3
  <2> QED  BY <2>2, <2>3
<1>11. CmdsSettle /\ cmds' \in [CommandIds -> Command]
  BY <1>3, <1>8, Settles
<1>12. DataOK'
  <2>1. rows' \in [RulesInForce -> Row]
    BY <1>3, <1>10
  <2> QED  BY <1>3, <1>4, <1>11, <2>1, SameRules DEF Inv, DataOK
<1>13. RulesInForce' = RulesInForce
  BY <1>3, SameRules
<1>14. DelayInv'
  <2>1. \A r : Unsent(r)' => Unsent(r)
    BY <1>7
  <2>2. \A r \in spec : r.kind = "delay" /\ rows'[r].next # "none" => rows[r].next # "none"
    BY <1>10 DEF RulesInForce
  <2> QED  BY <1>3, <1>11, <2>1, <2>2, DelayShrinks DEF Inv
<1>15. NameInv'
  <2>1. ASSUME NEW d \in CommandIds, cmds'[d].status = "free" PROVE cmds'[d] = Free
    BY <1>11, <2>1 DEF Inv, NameInv, CmdsSettle, Ended
  <2>2. ASSUME NEW d \in CommandIds, cmds[d].status # "free",
               \/ \E r \in RulesInForce : rows'[r].cmd = d
               \/ \E u \in Tasks : ev'[u].cmd = d
        PROVE  /\ cmds'[d].status # "free" /\ cmds'[d].key.rules = cmds[d].key.rules
               /\ cmds'[d].status = "open" => cmds[d].status = "open"
    BY <1>11, <2>2 DEF CmdsSettle, Ended
  <2>3. ASSUME NEW r \in RulesInForce
        PROVE  /\ rows'[r].cmd # None => cmds'[rows'[r].cmd].status # "free"
               /\ Unsent(r)' \/ Recording(r)' =>
                    ~(rows'[r].cmd # None /\ cmds'[rows'[r].cmd].status = "open")
    <3>1. CASE rows'[r].cmd = None
      BY <3>1
    <3>2. CASE rows'[r].cmd # None
      <4>1. PICK d \in CommandIds : d = rows'[r].cmd
        BY <1>10, <3>2 DEF Row
      <4>2. cmds[d].status # "free"
        BY <1>8, <1>10, <3>2, <4>1 DEF Inv, NameInv
      <4>3. cmds'[d].status # "free" /\ (cmds'[d].status = "open" => cmds[d].status = "open")
        BY <2>2, <4>1, <4>2
      <4>4. Unsent(r)' => cmds[d].status # "open"
        <5>1. ASSUME Unsent(r)' PROVE rows[r].cmd = d /\ Unsent(r)
          BY <1>7, <1>10, <4>1, <5>1
        <5>2. Unsent(r) => ~(rows[r].cmd # None /\ cmds[rows[r].cmd].status = "open")
          BY DEF Inv, NameInv, OnItsWay
        <5> QED  BY <1>8, <5>1, <5>2
      <4> QED  BY <1>7, <4>1, <4>3, <4>4
    <3> QED  BY <3>1, <3>2
  <2>4. ASSUME NEW u \in Tasks, ev'[u].cmd # None
        PROVE  /\ cmds'[ev'[u].cmd].status # "free"
               /\ ev'[u].at = "record" => cmds'[ev'[u].cmd].key.rules = ev'[u].cand.rules
               /\ ev'[u].at \in {"executed", "failed"} => cmds'[ev'[u].cmd].status # "open"
    <3>1. u # t /\ ev'[u] = ev[u]
      BY <1>6, <2>4
    <3>2. PICK d \in CommandIds : d = ev[u].cmd /\ d = ev'[u].cmd
      BY <2>4, <3>1 DEF Inv, EvInv, Evaluation
    <3>3. /\ cmds[d].status # "free"
          /\ ev[u].at = "record" => cmds[d].key.rules = ev[u].cand.rules
          /\ ev[u].at \in {"executed", "failed"} => cmds[d].status # "open"
      BY <2>4, <3>1, <3>2 DEF Inv, NameInv
    <3>4. /\ cmds'[d].status # "free" /\ cmds'[d].key.rules = cmds[d].key.rules
          /\ cmds'[d].status = "open" => cmds[d].status = "open"
      BY <2>2, <3>2, <3>3
    <3> QED  BY <3>1, <3>2, <3>3, <3>4
  <2> QED  BY <1>13, <2>1, <2>3, <2>4 DEF NameInv, OnItsWay
<1>16. RetryInv'
  <2>1. \A u \in Tasks : ev'[u].at \in {"executed", "failed"} =>
          ev'[u] = ev[u] /\ ev[u].cmd \in CommandIds
    BY <1>6 DEF Inv, EvInv, LockInv, Shape
  <2>2. repeats \in Nat /\ MaxRetries \in Nat
    BY ConstantsAssumption DEF Inv, DataOK
  <2>3. ASSUME NEW r \in RulesInForce PROVE RetryOK(r)'
    <3>1. RetryOK(r) /\ rows[r].retry \in Nat /\ rows[r].cmd \in CommandIds \cup {None}
      BY DEF Inv, RetryInv, DataOK, Row
    <3>2. CASE r \in cand.rules /\ IsCondition(r)
      <4>1. rows[r].retry <= MaxRetries
        BY <1>7, <3>1, <3>2 DEF RetryOK
      <4>2. CASE rows'[r].retry = rows[r].retry
        BY <1>3, <2>2, <3>1, <3>2, <4>1, <4>2 DEF RetryOK, IsCondition
      <4>3. CASE rows'[r].cmd = None /\ rows'[r].retry = rows[r].retry + 1
        <5>1. ~Answered(r)' /\ ~OnItsWay(rows[r].cmd)' /\ ~Unsent(r)' /\ ~Recording(r)'
          BY <1>7, <1>8, <2>1, <3>2, <4>3 DEF Answered, OnItsWay
        <5> QED  BY <1>3, <2>2, <3>1, <3>2, <4>1, <4>3, <5>1 DEF RetryOK, IsCondition
      <4> QED  BY <1>10, <3>2, <4>2, <4>3
    <3>3. CASE r \notin cand.rules /\ IsCondition(r)
      <4>1. rows'[r] = rows[r]
        BY <1>10, <3>3
      <4>2. Answered(r)' => Answered(r)
        BY <2>1, <4>1 DEF Answered
      <4>3. OnItsWay(rows[r].cmd)' => OnItsWay(rows[r].cmd)
        BY <1>11, <3>1, <4>1 DEF OnItsWay, CmdsSettle, Ended, Free
      <4>4. (Unsent(r)' => Unsent(r)) /\ ~Recording(r)'
        BY <1>7
      <4> QED  BY <1>3, <3>1, <3>3, <4>1, <4>2, <4>3, <4>4 DEF RetryOK, IsCondition
    <3>4. CASE ~IsCondition(r)
      BY <1>10, <3>1, <3>4 DEF RetryOK, IsCondition
    <3> QED  BY <3>2, <3>3, <3>4
  <2> QED  BY <1>13, <2>1, <2>3 DEF Inv, RetryInv
<1>17. LostInv'
  <2>1. ASSUME NEW r \in RulesInForce PROVE Unnamed(r)' \subseteq Unnamed(r)
    <3>1. ASSUME NEW d \in OpenCommands(r)', d # rows'[r].cmd PROVE d \in Unnamed(r)
      <4>1. d \in OpenCommands(r) /\ d \in CommandIds
        BY <1>11, CommandsShrink DEF OpenCommands
      <4>2. cmds[d].status = "open" /\ r \in cmds[d].key.rules
        BY <4>1 DEF OpenCommands
      <4>3. d # rows[r].cmd
        <5>1. r \in cand.rules => ~(rows[r].cmd # None /\ cmds[rows[r].cmd].status = "open")
          BY <1>7 DEF Inv, NameInv, OnItsWay
        <5> QED  BY <1>8, <1>10, <3>1, <4>1, <4>2, <5>1
      <4>4. d # c
        BY <1>8, <1>10, <3>1, <4>1, <4>2
      <4> QED  BY <1>2, <1>5, <4>1, <4>3, <4>4 DEF Unnamed, Executing
    <3> QED  BY <3>1 DEF Unnamed
  <2>2. LostInv /\ crashes \in Nat
    BY ConstantsAssumption DEF Inv, DataOK
  <2> QED  BY <1>3, <2>1, <2>2, LostShrinks
<1> QED  BY <1>6, <1>12, <1>14, <1>15, <1>16, <1>17 DEF Inv

(* An evaluation commits *)
LEMMA DesiredTyped ==
  ASSUME DataOK, NEW rules \in SUBSET RulesInForce, NEW matched \in SUBSET RulesInForce,
         NEW after
  PROVE  Desired(rules, matched, after) \in [Actuators -> Claim]
<1>1. RulesInForce \subseteq Rules
  BY ConstantsAssumption DEF DataOK, RulesInForce, SystemRules, spec
<1>2. ASSUME NEW a \in Actuators
      PROVE  Desired(rules, matched, after)[a] \in Claim
  <2>1. Winners(matched, a) \in SUBSET Rules
    BY <1>1 DEF Winners
  <2>2. Retained(rules, after, a) \in SUBSET Rules
    <3>1. Retained(rules, after, a) \subseteq rules
      BY DEF Retained
    <3> QED  BY <1>1, <3>1
  <2>3. PICK b \in BOOLEAN : b = Opposed(Winners(matched, a))
    <3>1. Opposed(Winners(matched, a)) \in BOOLEAN
      BY DEF Opposed
    <3> QED  BY <3>1
  <2>4. Desired(rules, matched, after)[a] =
          IF Winners(matched, a) # {} THEN [rules |-> Winners(matched, a), conflict |-> b]
          ELSE [rules |-> Retained(rules, after, a), conflict |-> FALSE]
    BY <2>3 DEF Desired
  <2>5. \A w \in SUBSET Rules, x \in BOOLEAN : [rules |-> w, conflict |-> x] \in Claim
    BY DEF Claim
  <2> QED  BY <2>1, <2>2, <2>4, <2>5
<1> DEFINE new == [a \in Actuators |-> Desired(rules, matched, after)[a]]
<1>3. Desired(rules, matched, after) = new
  BY DEF Desired
<1>4. new \in [Actuators -> Claim]
  BY <1>2
<1> QED  BY <1>3, <1>4

(* What a committing evaluation leaves: rows by rule, and candidates of    *)
(* rules that matched.                                                     *)
LEMMA CommitMoves ==
  ASSUME Inv, NEW t \in Tasks, ev[t].at = "collect",
         NEW rules \in SUBSET RulesInForce, NEW conditions, NEW steady, NEW early,
         NEW after, after = Evaluated(rules, conditions, steady),
         NEW matched, matched = Matched(rules, conditions, steady, after),
         rows' = after, NextCandidate(t, Todo(matched, after, early)),
         cmds' = cmds, scene' = scene, crashes' = crashes, repeats' = repeats
  PROVE  /\ EvInv' /\ rows' \in [RulesInForce -> Row]
         /\ DelayInv' /\ NameInv' /\ RetryInv' /\ LostInv'
<1>1. TypeInv /\ DataOK
  BY Typed DEF Inv
<1>2. ASSUME NEW r \in RulesInForce
      PROVE  /\ after[r] \in Row /\ after[r].cmd = rows[r].cmd
             /\ after[r].retry \in {rows[r].retry, 0}
             /\ r.kind = "delay" =>
                  /\ after[r].next # "none" => rows[r].next # "none"
                  /\ r \in rules /\ rows[r].next = "due" => after[r].next = "none"
  BY <1>1, EvaluatedDoes
<1>3. after \in [RulesInForce -> Row]
  <2>1. after = [r \in RulesInForce |-> after[r]]
    BY DEF Evaluated
  <2> QED  BY <1>2, <2>1
<1>4. /\ matched \in SUBSET rules
      /\ \A r \in matched : ~IsCondition(r) => rows[r].next = "due"
  BY DEF Matched
<1>5. PICK todo : todo = Todo(matched, after, early)
  OBVIOUS
<1>6. /\ todo \in SUBSET Candidate /\ Disjoint(todo)
      /\ \A k \in todo, r \in Rules :
           r \in k.rules => /\ r \in matched
                            /\ ~OnItsWay(after[r].cmd) /\ after[r].retry <= MaxRetries
  <2>1. scene \in Scenes /\ matched \in SUBSET RulesInForce
    BY <1>1, <1>4 DEF DataOK
  <2> QED  BY <1>3, <1>5, <2>1, TodoDoes
<1>7. /\ EvInv'
      /\ \A u \in Tasks \ {t} : ev'[u] = ev[u]
      /\ ev'[t].at \in {"idle", "guard"} /\ ev'[t].cmd = None
      /\ ev'[t].at = "guard" => ev'[t].cand \in todo /\ ev'[t].todo = todo \ {ev'[t].cand}
      /\ ev'[t].at = "idle" => ev'[t].todo = {}
  BY <1>5, <1>6, NextDoes DEF Inv, Holding
<1>8. \A u \in Tasks : ev[u].at \notin Executing /\ ev[u].todo = {}
  BY DEF Inv, EvInv, LockInv, Shape, Executing, Holding
<1>9. \A r : ~Recording(r)' /\ ~Recording(r) /\ ~Unsent(r)
  BY <1>7, <1>8 DEF Recording, Unsent, Executing
<1>10. ASSUME NEW r \in RulesInForce, Unsent(r)'
       PROVE  /\ r \in matched
              /\ ~(rows[r].cmd # None /\ cmds[rows[r].cmd].status = "open")
              /\ after[r].retry <= MaxRetries
  <2>1. \E k \in todo : r \in k.rules
    BY <1>7, <1>8, <1>10 DEF Unsent, Executing
  <2>2. r \in Rules
    BY <1>1, ConstantsAssumption DEF DataOK, RulesInForce, SystemRules, spec
  <2>3. r \in matched /\ ~OnItsWay(after[r].cmd) /\ after[r].retry <= MaxRetries
    BY <1>6, <2>1, <2>2
  <2> QED  BY <1>2, <2>3 DEF OnItsWay
<1>11. RulesInForce' = RulesInForce /\ spec' = spec
  BY SameRules
<1>12. DelayInv'
  <2>1. ASSUME NEW r \in spec, r.kind = "delay"
        PROVE  /\ rows'[r].next # "none" => ~Unsent(r)'
               /\ rows'[r].next # "none" \/ Unsent(r)' => CommandsOf(r)' = {}
               /\ \A d, f \in CommandsOf(r)' : d = f
    <3>1. /\ rows[r].next # "none" => CommandsOf(r) = {}
          /\ \A d, f \in CommandsOf(r) : d = f
      BY <2>1 DEF Inv, DelayInv
    <3>2. CommandsOf(r)' = CommandsOf(r)
      BY DEF CommandsOf
    <3>3. r \in RulesInForce /\ ~IsCondition(r)
      BY <2>1 DEF RulesInForce, IsCondition
    <3>4. Unsent(r)' => r \in rules /\ rows[r].next = "due"
      BY <1>4, <1>10, <3>3
    <3>5. /\ rows'[r].next # "none" => rows[r].next # "none"
          /\ r \in rules /\ rows[r].next = "due" => rows'[r].next = "none"
      BY <1>2, <2>1, <3>3
    <3> QED  BY <3>1, <3>2, <3>4, <3>5
  <2> QED  BY <1>11, <2>1 DEF DelayInv
<1>13. NameInv'
  <2>1. ASSUME NEW r \in RulesInForce
        PROVE  /\ rows'[r].cmd # None => cmds'[rows'[r].cmd].status # "free"
               /\ Unsent(r)' \/ Recording(r)' =>
                    ~(rows'[r].cmd # None /\ cmds'[rows'[r].cmd].status = "open")
    <3>1. rows[r].cmd # None => cmds[rows[r].cmd].status # "free"
      BY DEF Inv, NameInv
    <3> QED  BY <1>2, <1>9, <1>10, <3>1
  <2>2. ASSUME NEW u \in Tasks, ev'[u].cmd # None
        PROVE  /\ cmds'[ev'[u].cmd].status # "free"
               /\ ev'[u].at = "record" => cmds'[ev'[u].cmd].key.rules = ev'[u].cand.rules
               /\ ev'[u].at \in {"executed", "failed"} => cmds'[ev'[u].cmd].status # "open"
    <3>1. ev'[u] = ev[u]
      BY <1>7, <2>2
    <3> QED  BY <2>2, <3>1 DEF Inv, NameInv
  <2>3. \A c \in CommandIds : cmds'[c].status = "free" => cmds'[c] = Free
    BY DEF Inv, NameInv
  <2> QED  BY <1>11, <2>1, <2>2, <2>3 DEF NameInv, OnItsWay
<1>14. RetryInv'
  <2>1. \A u \in Tasks : ev'[u].at \in {"executed", "failed"} => ev'[u] = ev[u]
    BY <1>7
  <2>2. repeats \in Nat /\ MaxRetries \in Nat
    BY ConstantsAssumption DEF Inv, DataOK
  <2>3. ASSUME NEW r \in RulesInForce PROVE RetryOK(r)'
    <3>1. RetryOK(r) /\ rows[r].retry \in Nat
      BY DEF Inv, RetryInv, DataOK, Row
    <3>2. rows'[r].cmd = rows[r].cmd /\ rows'[r].retry \in {rows[r].retry, 0}
      BY <1>2
    <3>3. Answered(r)' => Answered(r)
      BY <2>1, <3>2 DEF Answered
    <3>4. OnItsWay(rows[r].cmd)' => OnItsWay(rows[r].cmd)
      BY <3>2 DEF OnItsWay
    <3>5. (Unsent(r)' => rows'[r].retry <= MaxRetries) /\ ~Recording(r)'
      BY <1>9, <1>10
    <3> QED  BY <2>2, <3>1, <3>2, <3>3, <3>4, <3>5 DEF RetryOK, IsCondition
  <2> QED  BY <1>11, <2>1, <2>3 DEF Inv, RetryInv
<1>15. LostInv'
  <2>1. \A r \in RulesInForce : Unnamed(r)' \subseteq Unnamed(r)
    BY <1>2, <1>8 DEF Unnamed, OpenCommands, Executing
  <2>2. LostInv /\ crashes \in Nat
    BY ConstantsAssumption DEF Inv, DataOK
  <2> QED  BY <2>1, <2>2, LostShrinks
<1> QED  BY <1>3, <1>7, <1>12, <1>13, <1>14, <1>15

(* The rules a commit evaluates, and what it comes to.                     *)
Evaluating(t) == {r \in RulesInForce : r.plan \in Running(ev[t].view)}

Commits(t, early, steady, after, matched, desired, status) ==
  /\ after = Evaluated(Evaluating(t), ev[t].conditions, steady)
  /\ matched = Matched(Evaluating(t), ev[t].conditions, steady, after)
  /\ desired = Desired(Evaluating(t), matched, after)
  /\ status \in {"completed", "active", Finished("active", after)}
  /\ "user" \in ev[t].view \ Running(ev[t].view) => status = "completed"
  /\ ev[t].at = "collect"
  /\ \/ CollectFails(t, desired)
     \/ CollectCommits(t, desired, after, matched, status, early)
  /\ UNCHANGED <<scene, over, enabled, obs, cmds, requests, crashes, repeats>>

LEMMA CommitDoes ==
  ASSUME NEW t \in Tasks, NEW early, CommitCollected(t, early)
  PROVE  \E steady, after, matched, desired, status :
           Commits(t, early, steady, after, matched, desired, status)
<1>1. PICK steady :
        LET active == Running(ev[t].view)
            rules == {r \in RulesInForce : r.plan \in active}
            after == Evaluated(rules, ev[t].conditions, steady)
            matched == Matched(rules, ev[t].conditions, steady, after)
            missed == \E r \in rules : after[r].delay = "missed" /\ rows[r].delay # "missed"
            desired == Desired(rules, matched, after)
            status == IF "user" \in ev[t].view \ active THEN "completed"
                      ELSE IF missed THEN Finished("active", after) ELSE "active"
        IN /\ ev[t].at = "collect"
           /\ \/ CollectFails(t, desired)
              \/ CollectCommits(t, desired, after, matched, status, early)
           /\ UNCHANGED <<scene, over, enabled, obs, cmds, requests, crashes, repeats>>
  BY DEF CommitCollected
<1>2. PICK rules : rules = {r \in RulesInForce : r.plan \in Running(ev[t].view)}
  OBVIOUS
<1>a. rules = Evaluating(t)
  BY <1>2 DEF Evaluating
<1>3. PICK after : after = Evaluated(rules, ev[t].conditions, steady)
  OBVIOUS
<1>4. PICK matched : matched = Matched(rules, ev[t].conditions, steady, after)
  OBVIOUS
<1>5. PICK desired : desired = Desired(rules, matched, after)
  OBVIOUS
<1>6. PICK status :
        status = IF "user" \in ev[t].view \ Running(ev[t].view) THEN "completed"
                 ELSE IF \E r \in rules : after[r].delay = "missed" /\ rows[r].delay # "missed"
                 THEN Finished("active", after) ELSE "active"
  OBVIOUS
<1>7. /\ ev[t].at = "collect"
      /\ \/ CollectFails(t, desired)
         \/ CollectCommits(t, desired, after, matched, status, early)
      /\ UNCHANGED <<scene, over, enabled, obs, cmds, requests, crashes, repeats>>
  BY <1>1, <1>2, <1>3, <1>4, <1>5, <1>6, Zenon
<1>8. /\ status \in {"completed", "active", Finished("active", after)}
      /\ "user" \in ev[t].view \ Running(ev[t].view) => status = "completed"
  BY <1>6
<1>9. Commits(t, early, steady, after, matched, desired, status)
  BY <1>a, <1>3, <1>4, <1>5, <1>7, <1>8 DEF Commits
<1> QED  BY <1>9

LEMMA CommitCollectedKeeps ==
  ASSUME Inv, NEW t \in Tasks, NEW early \in BOOLEAN, CommitCollected(t, early)
  PROVE  Inv'
<1>0. PICK steady, after, matched, desired, status :
        Commits(t, early, steady, after, matched, desired, status)
  BY CommitDoes
<1>a. PICK rules : rules = Evaluating(t)
  OBVIOUS
<1>1. /\ after = Evaluated(rules, ev[t].conditions, steady)
      /\ matched = Matched(rules, ev[t].conditions, steady, after)
      /\ desired = Desired(rules, matched, after)
      /\ status \in {"completed", "active", Finished("active", after)}
      /\ ev[t].at = "collect"
      /\ \/ CollectFails(t, desired)
         \/ CollectCommits(t, desired, after, matched, status, early)
      /\ UNCHANGED <<scene, over, enabled, obs, cmds, requests, crashes, repeats>>
  BY <1>0, <1>a DEF Commits
<1>r. rules \in SUBSET RulesInForce
  BY <1>a DEF Evaluating
<1>2. DataOK
  BY DEF Inv
<1>3. desired \in [Actuators -> Claim]
  <2>1. matched \in SUBSET RulesInForce
    BY <1>1, <1>r DEF Matched
  <2> QED  BY <1>1, <1>2, <1>r, <2>1, DesiredTyped
<1>4. CASE CollectFails(t, desired)
  <2>1. ev' = [ev EXCEPT ![t] = Idle] /\ UNCHANGED <<plans, rows, claims>>
    BY <1>4 DEF CollectFails
  <2>2. EvInv' /\ EvCalm
    BY <1>1, <2>1, Rests
  <2>3. DataOK'
    BY <1>1, <1>2, <2>1, SameRules DEF DataOK
  <2> QED  BY <1>1, <2>1, <2>2, <2>3, Moves
<1>5. CASE CollectCommits(t, desired, after, matched, status, early)
  <2>1. /\ rows' = after
        /\ plans' = [plans EXCEPT !["user"] = IF status = "active" THEN @ ELSE status]
        /\ NextCandidate(t, Todo(matched, after, early))
        /\ \E gone \in SUBSET Actuators : claims' = Synced(desired, gone)
    BY <1>5 DEF CollectCommits, Todo, Deleted
  <2>2. /\ EvInv' /\ rows' \in [RulesInForce -> Row]
        /\ DelayInv' /\ NameInv' /\ RetryInv' /\ LostInv'
    BY <1>1, <1>r, <2>1, CommitMoves
  <2>3. claims' \in [Actuators -> Claim]
    <3>1. NoClaim \in Claim
      BY DEF NoClaim, Claim
    <3> QED  BY <1>3, <2>1, <3>1 DEF Synced
  <2>4. plans' \in [Plans -> PlanStatus]
    <3>1. status \in PlanStatus
      <4>1. "active" \in PlanStatus /\ "completed" \in PlanStatus
        BY DEF PlanStatus
      <4> QED  BY <1>1, <4>1, FinishedTyped
    <3> QED  BY <1>2, <2>1, <3>1 DEF DataOK
  <2>5. DataOK'
    BY <1>1, <1>2, <2>2, <2>3, <2>4, SameRules DEF DataOK
  <2> QED  BY <2>2, <2>5 DEF Inv
<1> QED  BY <1>1, <1>4, <1>5

-----------------------------------------------------------------------------
LEMMA NextKeeps == Inv /\ [Next]_vars => Inv'
<1> SUFFICES ASSUME Inv, [Next]_vars PROVE Inv'
  OBVIOUS
<1>1. CASE Tick
  BY <1>1, TickKeeps
<1>2. CASE \E t \in Tasks : Telemetry(t) \/ Collect(t) \/ Reconcile(t) \/ Step(t)
  <2>1. PICK t \in Tasks : Telemetry(t) \/ Collect(t) \/ Reconcile(t) \/ Step(t)
    BY <1>2
  <2>2. CASE Telemetry(t)
    <3>1. PICK o \in scene.observations, newer \in BOOLEAN : Observe(t, o, newer)
      BY <2>2 DEF Telemetry
    <3> QED  BY <3>1, ObserveKeeps
  <2>3. CASE Step(t)
    BY <2>3, CommitCollectedKeeps, GuardKeeps, CreateKeeps, RecordKeeps DEF Step
  <2> QED  BY <2>1, <2>2, <2>3, CollectKeeps, ReconcileKeeps
<1>3. CASE \E c \in CommandIds : CommandEnds(c)
  BY <1>3, GiveUpKeeps, AnswerKeeps, AnswerAgainKeeps DEF CommandEnds
<1>4. CASE \E p \in Plans : Pause(p) \/ Resume(p)
  <2>1. {"paused", "active"} \subseteq PlanStatus
    BY DEF PlanStatus
  <2> QED  BY <1>4, <2>1, SetStatusKeeps DEF Pause, Resume
<1>5. CASE Cancel
  <2>1. "cancelled" \in PlanStatus /\ "user" \in Plans
    BY DEF PlanStatus, Plans
  <2> QED  BY <1>5, <2>1, SetStatusKeeps DEF Cancel
<1>6. CASE \E r \in RulesInForce : TimerPasses(r)
  BY <1>6, TimerPassesKeeps
<1>7. CASE SetPolicy \/ PlanRunsOut \/ Crash
  BY <1>7, SetPolicyKeeps, PlanRunsOutKeeps, CrashKeeps
<1>8. CASE UNCHANGED vars
  BY <1>8, StutterKeeps
<1> QED  BY <1>1, <1>2, <1>3, <1>4, <1>5, <1>6, <1>7, <1>8 DEF Next

(* The inductive invariant: an evaluation holds the lock alone, its         *)
(* candidates are apart, and rows, candidates and commands agree on who     *)
(* waits for what.                                                         *)
THEOREM RuntimeInvariant == Spec => []Inv
<1> QED  BY InitHolds, NextKeeps, PTL DEF Spec

(* Every variable keeps its type, whatever is refused, fails, is answered  *)
(* again or restarts.                                                      *)
THEOREM TypeCorrect == Spec => []TypeOK
<1>1. Inv => TypeOK
  BY Typed DEF Inv, TypeInv
<1> QED  BY <1>1, RuntimeInvariant, PTL

(* A rule goes one beyond its retries at most, and one more for each       *)
(* answer that came again to a command that had ended: _schedule_retry     *)
(* adds to retry_count without a limit, but _candidate_ready sends no      *)
(* command beyond the retries, and one command of a rule is answered once. *)
THEOREM RetriesBounded == Spec => []RetriesAreBounded
<1>1. Inv => RetriesAreBounded
  <2> SUFFICES ASSUME Inv, NEW r \in RulesInForce
               PROVE  rows[r].retry <= MaxRetries + 1 + repeats
    BY DEF RetriesAreBounded
  <2>1. RetryOK(r)
    BY DEF Inv, RetryInv
  <2>2. repeats \in Nat /\ MaxRetries \in Nat
    BY ConstantsAssumption DEF Inv, DataOK
  <2> QED  BY <2>1, <2>2 DEF RetryOK
<1> QED  BY <1>1, RuntimeInvariant, PTL

(* A delay rule sends at most one command (_collect_candidates marks the   *)
(* delay as firing in the transaction that matches it), whatever is        *)
(* paused, resumed or restarted.                                           *)
THEOREM DelaysFireOnce == Spec => []DelayFiresOnce
<1>1. Inv => DelayFiresOnce
  <2> SUFFICES ASSUME Inv, NEW r \in spec, r.kind = "delay"
               PROVE  Cardinality({c \in CommandIds :
                                     cmds[c] # Free /\ r \in cmds[c].key.rules}) <= 1
    BY DEF DelayFiresOnce
  <2>1. PICK S \in SUBSET CommandIds :
          S = {c \in CommandIds : cmds[c] # Free /\ r \in cmds[c].key.rules}
    OBVIOUS
  <2>2. \A c, d \in CommandsOf(r) : c = d
    BY DEF Inv, DelayInv
  <2>3. \A c, d \in S : c = d
    BY <2>1, <2>2 DEF CommandsOf
  <2>4. Cardinality(S) <= 1
    BY <2>3, AtMost
  <2> QED  BY <2>1, <2>4
<1> QED  BY <1>1, RuntimeInvariant, PTL

(* A rule has one command on its way, and one more for each crash between  *)
(* create_with_outbox and _record_execution.                               *)
THEOREM OneCommandIsOpen == Spec => []OneOpenCommand
<1>1. Inv => OneOpenCommand
  <2> SUFFICES ASSUME Inv, NEW r \in RulesInForce
               PROVE  Cardinality(OpenCommands(r)) <= 1 + crashes
    BY DEF OneOpenCommand
  <2>1. Unnamed(r) \in SUBSET CommandIds /\ OpenCommands(r) \in SUBSET CommandIds
    BY DEF Unnamed, OpenCommands
(* The row and the evaluation that records do not both name an open one.   *)
  <2>2. \E c \in CommandIds \cup {None} : OpenCommands(r) \subseteq Unnamed(r) \cup {c}
    <3>1. CASE \E t \in Tasks : /\ ev[t].at = "record" /\ ev[t].cmd \in OpenCommands(r)
      <4>1. PICK t \in Tasks : ev[t].at = "record" /\ ev[t].cmd \in OpenCommands(r)
        BY <3>1
      <4>2. \A u \in Tasks : ev[u].at = "record" => u = t
        BY <4>1 DEF Inv, EvInv, LockInv, Holding
      <4>3. Recording(r)
        BY <4>1, ConstantsAssumption DEF Recording, Inv, NameInv, OpenCommands
      <4>4. ~(rows[r].cmd # None /\ cmds[rows[r].cmd].status = "open")
        BY <4>3 DEF Inv, NameInv, OnItsWay
      <4>5. rows[r].cmd \notin OpenCommands(r)
        BY <4>4, ConstantsAssumption DEF OpenCommands
      <4>6. OpenCommands(r) \subseteq Unnamed(r) \cup {ev[t].cmd}
        BY <4>2, <4>5 DEF Unnamed
      <4> QED  BY <4>1, <4>6 DEF OpenCommands
    <3>2. CASE ~ \E t \in Tasks : /\ ev[t].at = "record" /\ ev[t].cmd \in OpenCommands(r)
      <4>1. rows[r].cmd \in CommandIds \cup {None}
        BY DEF Inv, DataOK, Row
      <4>2. OpenCommands(r) \subseteq Unnamed(r) \cup {rows[r].cmd}
        BY <3>2 DEF Unnamed
      <4> QED  BY <4>1, <4>2
    <3> QED  BY <3>1, <3>2
  <2>3. Cardinality(OpenCommands(r)) <= Cardinality(Unnamed(r)) + 1
    <3>1. PICK c \in CommandIds \cup {None} : OpenCommands(r) \subseteq Unnamed(r) \cup {c}
      BY <2>2
    <3>2. CASE c \in CommandIds
      BY <2>1, <3>1, <3>2, AtMost
    <3>3. CASE c = None
      <4>1. OpenCommands(r) \subseteq Unnamed(r)
        BY <2>1, <3>1, <3>3, ConstantsAssumption
      <4> QED  BY <2>1, <4>1, AtMost, FiniteCommands
    <3> QED  BY <3>1, <3>2, <3>3
  <2>4. Cardinality(Unnamed(r)) <= crashes /\ crashes \in Nat
    BY ConstantsAssumption DEF Inv, LostInv, DataOK
  <2>5. Cardinality(Unnamed(r)) \in Nat /\ Cardinality(OpenCommands(r)) \in Nat
    BY <2>1, FiniteCommands
  <2> QED  BY <2>3, <2>4, <2>5
<1> QED  BY <1>1, RuntimeInvariant, PTL

-----------------------------------------------------------------------------
(* The user's rules come before the system's *)

(* What a row says of its condition.                                       *)
Looks(row) == {"last", "seen"} \subseteq DOMAIN row

SameLook(new, row) == Looks(new) /\ new.last = row.last /\ new.seen = row.seen

(* A rule of the user that holds is a condition, and if its row saw the    *)
(* latest observation, it is a fact of it.                                 *)
LookOK(r, row) == row.last = "true" => IsCondition(r) /\ (row.seen => r \in obs.facts)

SeenInv == \A r \in spec : LookOK(r, rows[r])

LEMMA RowLooks == \A row \in Row : Looks(row)
BY DEF Row, Looks

LEMMA ColumnLooks ==
  ASSUME NEW row, Looks(row), NEW x
  PROVE  /\ SameLook([row EXCEPT !.next = x], row)
         /\ SameLook([row EXCEPT !.delay = x], row)
         /\ SameLook([row EXCEPT !.cmd = x], row)
         /\ SameLook([row EXCEPT !.retry = x], row)
BY DEF Looks, SameLook

LEMMA RecordedLooks ==
  ASSUME NEW r, NEW row, Looks(row), NEW c
  PROVE  SameLook(Recorded(r, row, c), row)
<1>2. PICK named : named = [row EXCEPT !.cmd = c]
  OBVIOUS
<1>3. SameLook(named, row)
  BY <1>2, ColumnLooks
<1>4. PICK d, n : Recorded(r, row, c) \in {named, [named EXCEPT !.delay = d],
                                           [named EXCEPT !.retry = n]}
  BY <1>2 DEF Recorded, Retried
<1>5. /\ SameLook([named EXCEPT !.delay = d], named)
      /\ SameLook([named EXCEPT !.retry = n], named)
  BY <1>3, ColumnLooks DEF SameLook
<1> QED  BY <1>3, <1>4, <1>5 DEF SameLook

LEMMA ReconciledLooks ==
  ASSUME NEW r, NEW row, Looks(row), NEW executed
  PROVE  SameLook(Reconciled(r, row, executed), row)
<1>1. PICK told : told = IF executed THEN Cleared(row)
                         ELSE IF IsCondition(r) THEN Retried(row) ELSE row
  OBVIOUS
<1>2. PICK n : told \in {row, [row EXCEPT !.retry = n]}
  <2>1. PICK n : n = IF executed THEN 0 ELSE row.retry + 1
    OBVIOUS
  <2>2. told \in {row, [row EXCEPT !.retry = n]}
    BY <1>1, <2>1 DEF Cleared, Retried
  <2> QED  BY <2>2
<1>3. SameLook(told, row)
  <2>1. SameLook([row EXCEPT !.retry = n], row)
    BY ColumnLooks
  <2> QED  BY <1>2, <2>1 DEF SameLook
<1>4. PICK d : Reconciled(r, row, executed) \in {told, [told EXCEPT !.delay = d]}
  <2>1. PICK d : d = IF executed THEN "executed" ELSE "failed"
    OBVIOUS
  <2>2. Reconciled(r, row, executed) =
          IF r.kind = "delay" THEN [told EXCEPT !.delay = d] ELSE told
    BY <1>1, <2>1 DEF Reconciled
  <2> QED  BY <2>2
<1>5. SameLook([told EXCEPT !.delay = d], told)
  BY <1>3, ColumnLooks DEF SameLook
<1> QED  BY <1>3, <1>4, <1>5 DEF SameLook

LEMMA FiredLooks ==
  ASSUME NEW r, NEW row, Looks(row)
  PROVE  SameLook(Fired(r, row), row)
<1>1. PICK n, d : Fired(r, row) = [row EXCEPT !.next = n, !.delay = d]
  BY DEF Fired
<1>2. SameLook([row EXCEPT !.next = n, !.delay = d], row)
  BY DEF Looks, SameLook
<1> QED  BY <1>1, <1>2

(* A condition that holds after a sample matched, or held before and was   *)
(* not sampled again.                                                      *)
LEMMA SampledLooks ==
  ASSUME NEW r, NEW row \in Row, NEW matches \in BOOLEAN
  PROVE  Sampled(r, row, matches).last = "true" => matches \/ (row.seen /\ row.last = "true")
<1>1. CASE matches
  BY <1>1
<1>2. CASE ~matches /\ row.seen
  <2>1. Sampled(r, row, matches) = row
    BY <1>2 DEF Sampled
  <2> QED  BY <1>2, <2>1
<1>3. CASE ~matches /\ ~row.seen
  <2>1. PICK kept : kept \in {row, Cleared(row)}
                    /\ Sampled(r, row, matches) =
                         [Cleared([kept EXCEPT !.seen = TRUE, !.key = ControlOf(obs)])
                            EXCEPT !.stable = 0, !.last = "false"]
    BY <1>3 DEF Sampled
  <2>2. Looks(kept)
    <3>1. Looks(row)
      BY RowLooks
    <3>2. Looks(Cleared(row))
      BY <3>1, ColumnLooks DEF Cleared, SameLook
    <3> QED  BY <2>1, <3>1, <3>2
  <2>3. PICK marked : marked = [kept EXCEPT !.seen = TRUE, !.key = ControlOf(obs)]
    OBVIOUS
  <2>4. Looks(marked)
    BY <2>2, <2>3 DEF Looks
  <2>5. PICK old : old = Cleared(marked)
    OBVIOUS
  <2>6. Looks(old)
    BY <2>4, <2>5, ColumnLooks DEF Cleared, SameLook
  <2>7. [old EXCEPT !.stable = 0, !.last = "false"].last = "false"
    BY <2>6 DEF Looks
  <2> QED  BY <2>1, <2>3, <2>5, <2>7
<1> QED  BY <1>1, <1>2, <1>3

(* The rows of the user's rules after an evaluation.                       *)
LEMMA EvaluatedLooks ==
  ASSUME Inv, SeenInv, NEW rules, NEW conditions, NEW steady, NEW r \in spec
  PROVE  LET new == Evaluated(rules, conditions, steady)[r]
         IN  /\ LookOK(r, new)
             /\ r \in rules /\ conditions /\ new.last = "true" => r \in obs.facts
<1>1. /\ r \in RulesInForce /\ r.plan # "system" /\ rows[r] \in Row
      /\ LookOK(r, rows[r])
  BY ConstantsAssumption DEF Inv, DataOK, RulesInForce, spec, SeenInv
<1>2. Evaluated(rules, conditions, steady)[r] =
        IF r \notin rules THEN rows[r]
        ELSE IF IsCondition(r)
        THEN IF ~conditions THEN rows[r] ELSE Sampled(r, rows[r], r \in obs.facts)
        ELSE IF rows[r].next \in {"due", "late"} THEN Fired(r, rows[r]) ELSE rows[r]
  BY <1>1 DEF Evaluated
<1>3. CASE r \in rules /\ IsCondition(r) /\ conditions
  <2>0. PICK matches \in BOOLEAN : matches = (r \in obs.facts)
    <3>1. CASE r \in obs.facts
      <4>1. TRUE = (r \in obs.facts)
        BY <3>1
      <4> QED  BY <4>1, Zenon
    <3>2. CASE r \notin obs.facts
      <4>1. FALSE = (r \in obs.facts)
        BY <3>2
      <4> QED  BY <4>1, Zenon
    <3> QED  BY <3>1, <3>2
  <2>1. PICK new : new = Sampled(r, rows[r], matches)
    OBVIOUS
  <2>2. new.last = "true" => r \in obs.facts \/ (rows[r].seen /\ rows[r].last = "true")
    BY <1>1, <2>0, <2>1, SampledLooks
  <2>3. new.last = "true" => r \in obs.facts
    BY <1>1, <2>2 DEF LookOK
  <2> QED  BY <1>2, <1>3, <2>0, <2>1, <2>3 DEF LookOK
<1>4. CASE r \in rules /\ ~IsCondition(r)
  <2>1. SameLook(Fired(r, rows[r]), rows[r])
    BY <1>1, RowLooks, FiredLooks
  <2> QED  BY <1>1, <1>2, <1>4, <2>1 DEF LookOK, SameLook
<1>5. CASE ~(r \in rules /\ conditions) /\ (r \in rules => IsCondition(r))
  BY <1>1, <1>2, <1>5
<1> QED  BY <1>3, <1>4, <1>5

LEMMA LooksStay ==
  ASSUME SeenInv, scene' = scene, obs' = obs,
         \A r \in spec : rows'[r].last = rows[r].last /\ rows'[r].seen = rows[r].seen
  PROVE  SeenInv'
BY SameRules DEF SeenInv, LookOK, IsCondition

LEMMA SeenKeeps ==
  ASSUME Inv, SeenInv, [Next]_vars
  PROVE  SeenInv'
<1>1. ASSUME NEW r \in spec
      PROVE  rows[r] \in Row /\ Looks(rows[r]) /\ r \in RulesInForce
  BY RowLooks DEF Inv, DataOK, RulesInForce
<1>2. ASSUME scene' = scene, obs' = obs, rows' = rows PROVE SeenInv'
  BY <1>2, LooksStay
<1>3. CASE \/ Tick \/ SetPolicy \/ PlanRunsOut \/ Crash \/ Cancel \/ UNCHANGED vars
           \/ \E p \in Plans : Pause(p) \/ Resume(p)
           \/ \E t \in Tasks : Collect(t) \/ Guard(t) \/ Create(t)
           \/ \E c \in CommandIds : CommandEnds(c)
  BY <1>2, <1>3 DEF Tick, SetPolicy, PlanRunsOut, Crash, Cancel, Pause, Resume, SetStatus,
                    Collect, Guard, Create, CommandEnds, Answer, AnswerAgain, GiveUp, vars
<1>4. ASSUME NEW t \in Tasks, Telemetry(t) PROVE SeenInv'
  <2>1. /\ scene' = scene
        /\ rows' = [r \in RulesInForce |-> [rows[r] EXCEPT !.seen = FALSE]]
    BY <1>4 DEF Telemetry, Observe
  <2>2. ASSUME NEW r \in spec PROVE rows'[r].last = rows[r].last /\ rows'[r].seen = FALSE
    BY <1>1, <2>1 DEF Looks
  <2> QED  BY <2>1, <2>2, SameRules DEF SeenInv, LookOK, IsCondition
<1>5. ASSUME NEW t \in Tasks, NEW early, CommitCollected(t, early) PROVE SeenInv'
  <2>0. PICK steady, after, matched, desired, status :
          Commits(t, early, steady, after, matched, desired, status)
    BY <1>5, CommitDoes
  <2>1. /\ after = Evaluated(Evaluating(t), ev[t].conditions, steady)
        /\ \/ CollectFails(t, desired)
           \/ CollectCommits(t, desired, after, matched, status, early)
        /\ UNCHANGED <<scene, over, enabled, obs, cmds, requests, crashes, repeats>>
    BY <2>0 DEF Commits
  <2>2. CASE rows' = rows
    BY <1>2, <2>1, <2>2
  <2>3. CASE rows' = after
    <3>1. \A r \in spec : LookOK(r, after[r])
      BY <2>1, EvaluatedLooks
    <3> QED  BY <2>1, <2>3, <3>1, SameRules DEF SeenInv, LookOK, IsCondition
  <2> QED  BY <2>1, <2>2, <2>3 DEF CollectFails, CollectCommits
<1>6. ASSUME NEW t \in Tasks, Record(t) PROVE SeenInv'
  <2>1. /\ scene' = scene /\ obs' = obs
        /\ rows' = [r \in RulesInForce |-> IF r \in ev[t].cand.rules
                                           THEN Recorded(r, rows[r], ev[t].cmd) ELSE rows[r]]
    BY <1>6 DEF Record
  <2>2. ASSUME NEW r \in spec PROVE rows'[r].last = rows[r].last /\ rows'[r].seen = rows[r].seen
    BY <1>1, <2>1, RecordedLooks DEF SameLook
  <2> QED  BY <2>1, <2>2, LooksStay
<1>7. ASSUME NEW t \in Tasks, Reconcile(t) PROVE SeenInv'
  <2>1. /\ scene' = scene /\ obs' = obs
        /\ \A r \in RulesInForce :
             rows'[r] \in {rows[r], Reconciled(r, rows[r], ev[t].at = "executed")}
    BY <1>7 DEF Reconcile
  <2>2. PICK executed : executed = (ev[t].at = "executed")
    OBVIOUS
  <2>3. ASSUME NEW r \in spec PROVE rows'[r].last = rows[r].last /\ rows'[r].seen = rows[r].seen
    <3>1. SameLook(Reconciled(r, rows[r], executed), rows[r])
      BY <1>1, ReconciledLooks
    <3>2. rows'[r] \in {rows[r], Reconciled(r, rows[r], executed)}
      BY <1>1, <2>1, <2>2
    <3> QED  BY <3>1, <3>2 DEF SameLook
  <2> QED  BY <2>1, <2>3, LooksStay
<1>9. ASSUME NEW q \in RulesInForce, TimerPasses(q) PROVE SeenInv'
  <2>1. /\ scene' = scene /\ obs' = obs
        /\ \E n : rows' = [rows EXCEPT ![q] = [rows[q] EXCEPT !.next = n]]
    BY <1>9 DEF TimerPasses, RowChanges
  <2>2. PICK n : rows' = [rows EXCEPT ![q] = [rows[q] EXCEPT !.next = n]]
    BY <2>1
  <2>3. rows \in [RulesInForce -> Row]
    BY DEF Inv, DataOK
  <2>4. ASSUME NEW r \in spec PROVE rows'[r].last = rows[r].last /\ rows'[r].seen = rows[r].seen
    <3>1. SameLook([rows[r] EXCEPT !.next = n], rows[r])
      BY <1>1, ColumnLooks
    <3>2. rows'[r] = rows[r] \/ rows'[r] = [rows[r] EXCEPT !.next = n]
      BY <1>1, <2>2, <2>3
    <3> QED  BY <3>1, <3>2 DEF SameLook
  <2> QED  BY <2>1, <2>4, LooksStay
<1> QED  BY <1>3, <1>4, <1>5, <1>6, <1>7, <1>9 DEF Next, Step

(* An evaluation that gave the system an actuator looked at the conditions *)
(* and found no rule of the user for it.                                   *)
LEMMA CommitYields ==
  ASSUME Inv, SeenInv, NEW t \in Tasks, NEW early, CommitCollected(t, early),
         NEW a \in Actuators, claims'[a] # claims[a],
         "user" \in ev[t].view, plans'["user"] = "active",
         NEW r \in spec, r.actuator = a, rows'[r].last = "true"
  PROVE  SystemRules \cap claims'[a].rules = {}
<1>0. PICK steady, after, matched, desired, status :
        Commits(t, early, steady, after, matched, desired, status)
  BY CommitDoes
<1>a. PICK rules : rules = Evaluating(t)
  OBVIOUS
<1>1. /\ after = Evaluated(rules, ev[t].conditions, steady)
      /\ matched = Matched(rules, ev[t].conditions, steady, after)
      /\ desired = Desired(rules, matched, after)
      /\ "user" \in ev[t].view \ Running(ev[t].view) => status = "completed"
      /\ \/ CollectFails(t, desired)
         \/ CollectCommits(t, desired, after, matched, status, early)
  BY <1>0, <1>a DEF Commits
<1>2. CollectCommits(t, desired, after, matched, status, early)
  BY <1>1 DEF CollectFails
<1>3. /\ rows' = after
      /\ plans' = [plans EXCEPT !["user"] = IF status = "active" THEN @ ELSE status]
      /\ claims'[a] \in {NoClaim, desired[a]}
  BY <1>2 DEF CollectCommits, Synced
<1>4. "user" \in Running(ev[t].view)
  <2>1. plans \in [Plans -> PlanStatus] /\ "user" \in Plans
    BY DEF Inv, DataOK, Plans
  <2>2. status # "completed"
    BY <1>3, <2>1
  <2> QED  BY <1>1, <2>2
<1>5. r \in rules /\ r.plan = "user"
  BY <1>a, <1>4, ConstantsAssumption DEF Inv, DataOK, RulesInForce, spec, Evaluating
<1>6. /\ LookOK(r, after[r])
      /\ ev[t].conditions /\ after[r].last = "true" => r \in obs.facts
  BY <1>1, <1>5, EvaluatedLooks
<1>7. ASSUME NEW s \in SystemRules, s \in desired[a].rules PROVE FALSE
  <2>1. s.plan = "system" /\ s.kind = "condition"
    BY ConstantsAssumption DEF SystemRules
  <2>2. s \notin Retained(rules, after, a)
    BY <2>1 DEF Retained
  <2>3. s \in Winners(matched, a)
    <3>1. PICK b, c : desired[a] = IF Winners(matched, a) # {}
                                   THEN [rules |-> Winners(matched, a), conflict |-> b]
                                   ELSE [rules |-> Retained(rules, after, a), conflict |-> c]
      <4>1. PICK b \in BOOLEAN : b = Opposed(Winners(matched, a))
        <5>1. Opposed(Winners(matched, a)) \in BOOLEAN
          BY DEF Opposed
        <5> QED  BY <5>1
      <4>2. Desired(rules, matched, after)[a] =
              IF Winners(matched, a) # {} THEN [rules |-> Winners(matched, a), conflict |-> b]
              ELSE [rules |-> Retained(rules, after, a), conflict |-> FALSE]
        BY <4>1 DEF Desired
      <4> QED  BY <1>1, <4>2
    <3>2. desired[a].rules \in {Winners(matched, a), Retained(rules, after, a)}
      BY <3>1
    <3> QED  BY <1>7, <2>2, <3>2
  <2>4. s \in matched /\ {q \in matched : q.actuator = a /\ q.plan = "user"} = {}
    BY <2>1, <2>3 DEF Winners
  <2>5. ev[t].conditions
    BY <1>1, <2>1, <2>4 DEF Matched, IsCondition
  <2>6. r \in matched
    BY <1>1, <1>3, <1>5, <1>6, <2>5 DEF Matched, LookOK
  <2> QED  BY <1>5, <2>4, <2>6
<1> QED  BY <1>3, <1>7 DEF NoClaim

(* Only a commit and a crash end the collecting.                           *)
LEMMA Collecting ==
  ASSUME Inv, Next, NEW t \in Tasks, ev[t].at = "collect", ev'[t].at # "collect"
  PROVE  \/ \E early \in BOOLEAN : CommitCollected(t, early)
         \/ Crash
<1>1. ev \in [Tasks -> Evaluation]
  BY DEF Inv, EvInv
<1>2. ASSUME NEW u \in Tasks, ev[u].at # "collect", \E e : ev' = [ev EXCEPT ![u] = e]
      PROVE  FALSE
  BY <1>1, <1>2
<1>3. ASSUME ev' = ev PROVE FALSE
  BY <1>3
<1>4. {"mqtt", "other"} \subseteq Tasks
  BY DEF Tasks
<1>5. ~Tick
  BY <1>2, <1>4 DEF Tick
<1>6. ASSUME Requested PROVE FALSE
  BY <1>2, <1>3, <1>4, <1>6 DEF Requested
<1>7. ~Cancel /\ ~SetPolicy /\ ~ \E p \in Plans : Pause(p) \/ Resume(p)
  BY <1>6 DEF Cancel, SetPolicy, Pause, Resume, SetStatus
<1>8. ~PlanRunsOut /\ ~ \E r \in RulesInForce : TimerPasses(r)
  BY <1>3 DEF PlanRunsOut, TimerPasses, RowChanges
<1>9. ~ \E c \in CommandIds : CommandEnds(c)
  BY <1>2, <1>3, <1>4 DEF CommandEnds, GiveUp, Answer, AnswerAgain, Told
<1>10. ASSUME NEW u \in Tasks, Telemetry(u) PROVE FALSE
  <2>1. /\ ev[u].at = "idle"
        /\ ev' = [d \in Tasks |-> IF d = u THEN Scheduled(TRUE)
             ELSE [ev[d] EXCEPT !.todo = {Older(k) : k \in @},
                                !.cand = IF @ = None THEN None ELSE Older(@)]]
    BY <1>10 DEF Telemetry, Observe
  <2>2. ev'[t] = Aged(ev[t])
    BY <2>1 DEF Aged
  <2>3. Sound(ev[t]) /\ ev[t] \in Evaluation
    BY <1>1 DEF Inv, EvInv, LockInv, CandInv, Sound
  <2> QED  BY <2>2, <2>3, AgedForm
<1>11. ASSUME NEW u \in Tasks, Collect(u) \/ Reconcile(u) PROVE FALSE
  <2>1. ev[u].at # "collect" /\ \E e : ev' = [ev EXCEPT ![u] = e]
    BY <1>11 DEF Collect, Reconcile
  <2> QED  BY <1>2, <2>1
<1>12. ASSUME NEW u \in Tasks, Guard(u) \/ Create(u) \/ Record(u) PROVE FALSE
  <2>1. ev[u].at # "collect" /\ \E e : ev' = [ev EXCEPT ![u] = e]
    BY <1>12 DEF Guard, Create, Record, NextCandidate
  <2> QED  BY <1>2, <2>1
<1>13. ASSUME NEW u \in Tasks, NEW early \in BOOLEAN, CommitCollected(u, early) PROVE u = t
  <2>1. ev[u].at = "collect"
    BY <1>13, CommitDoes DEF Commits
  <2> QED  BY <2>1 DEF Inv, EvInv, LockInv, Holding
<1> QED  BY <1>5, <1>7, <1>8, <1>9, <1>10, <1>11, <1>12, <1>13 DEF Next, Step

(* An evaluation does not give the system an actuator for which a rule of  *)
(* the user's running plan holds (_collect_candidates takes the user's     *)
(* entries first), whichever observation, request or timer came before.    *)
THEOREM SystemYieldsToUser == Spec => SystemYields
<1>1. Init => SeenInv
  <2> SUFFICES ASSUME Init, NEW r \in spec PROVE LookOK(r, rows[r])
    BY DEF SeenInv
  <2>1. rows[r].last = "unknown"
    BY DEF Init, RulesInForce, FreshRow
  <2> QED  BY <2>1 DEF LookOK
<1>2. Inv /\ SeenInv /\ [Next]_vars =>
        [\A a \in Actuators, t \in Tasks :
           /\ ev[t].at = "collect" /\ ev'[t].at # "collect" /\ claims'[a] # claims[a]
           /\ "user" \in ev[t].view /\ plans'["user"] = "active"
           /\ \E r \in spec : r.actuator = a /\ rows'[r].last = "true"
           => SystemRules \cap claims'[a].rules = {}]_vars
  <2> SUFFICES ASSUME Inv, SeenInv, Next, NEW a \in Actuators, NEW t \in Tasks,
                      ev[t].at = "collect", ev'[t].at # "collect", claims'[a] # claims[a],
                      "user" \in ev[t].view, plans'["user"] = "active",
                      NEW r \in spec, r.actuator = a, rows'[r].last = "true"
               PROVE  SystemRules \cap claims'[a].rules = {}
    OBVIOUS
  <2>1. CASE Crash
    BY <2>1 DEF Crash, NoClaim
  <2> QED  BY <2>1, Collecting, CommitYields
<1>3. Inv /\ SeenInv /\ [Next]_vars => SeenInv'
  BY SeenKeeps
<1> QED  BY <1>1, <1>2, <1>3, RuntimeInvariant, PTL DEF Spec, SystemYields
=============================================================================
