--------------------------- MODULE MonitoringProofs ---------------------------
(***************************************************************************)
(* Theorems about what the gateway perceives and what starts the AI runs,  *)
(* for any scene: schedulers queue one run at a time, a posture is         *)
(* confirmed, a reminder is earned and a sitter is reminded.               *)
(***************************************************************************)
EXTENDS Monitoring, SequenceTheorems, WellFoundedInduction, TLAPS

-----------------------------------------------------------------------------
(* Sequences and numbers *)

(* A sequence with one entry taken out.                                    *)
LEMMA OneRemoved ==
  ASSUME NEW S, NEW s \in Seq(S), NEW n \in 1..Len(s)
  PROVE  /\ RemoveAt(s, n) \in Seq(S)
         /\ Len(RemoveAt(s, n)) = Len(s) - 1
         /\ \A i \in DOMAIN RemoveAt(s, n) : \E j \in DOMAIN s : RemoveAt(s, n)[i] = s[j]
<1>1. n \in 1..Len(s) /\ Len(s) \in Nat /\ DOMAIN s = 1..Len(s)
  BY LenProperties
<1>2. n \in Int /\ Len(s) \in Int /\ 1 <= n /\ n <= Len(s)
  BY <1>1
<1> DEFINE before == SubSeq(s, 1, n - 1)
           after == SubSeq(s, n + 1, Len(s))
<1>3. /\ before \in Seq(S) /\ Len(before) = n - 1
      /\ \A i \in 1..(n - 1) : before[i] = s[i]
  <2>1. \A i \in 1..(n - 1) : s[i] \in S
    BY <1>1, ElementOfSeq
  <2> QED  BY <1>1, <2>1, SubSeqProperties
<1>4. /\ after \in Seq(S) /\ Len(after) = Len(s) - n
      /\ \A i \in 1..(Len(s) - n) : after[i] = s[n + i]
  <2>1. \A i \in (n + 1)..Len(s) : s[i] \in S
    BY <1>1, ElementOfSeq
  <2>2. /\ after \in Seq(S)
        /\ Len(after) = IF n + 1 <= Len(s) THEN Len(s) - (n + 1) + 1 ELSE 0
        /\ \A i \in 1..(Len(s) - (n + 1) + 1) : after[i] = s[(n + 1) + i - 1]
    BY <1>1, <2>1, SubSeqProperties
  <2> HIDE DEF after
  <2>3. Len(after) = Len(s) - n
    <3>1. Len(after) = IF n + 1 <= Len(s) THEN Len(s) - (n + 1) + 1 ELSE 0
      BY <2>2
    <3>2. /\ n + 1 <= Len(s) => Len(s) - (n + 1) + 1 = Len(s) - n
          /\ ~(n + 1 <= Len(s)) => Len(s) - n = 0
      BY <1>2
    <3> QED  BY <3>1, <3>2
  <2>4. ASSUME NEW i \in 1..(Len(s) - n) PROVE after[i] = s[n + i]
    <3>1. i \in 1..(Len(s) - (n + 1) + 1) /\ (n + 1) + i - 1 = n + i
      BY <1>1
    <3> QED  BY <2>2, <3>1
  <2> QED  BY <2>2, <2>3, <2>4
<1>5. /\ RemoveAt(s, n) \in Seq(S)
      /\ Len(RemoveAt(s, n)) = (n - 1) + (Len(s) - n)
      /\ \A i \in 1..((n - 1) + (Len(s) - n)) :
           RemoveAt(s, n)[i] = IF i <= n - 1 THEN before[i] ELSE after[i - (n - 1)]
  <2>1. RemoveAt(s, n) = before \o after
    BY DEF RemoveAt
  <2>2. /\ before \o after \in Seq(S)
        /\ Len(before \o after) = Len(before) + Len(after)
        /\ \A i \in 1..(Len(before) + Len(after)) : (before \o after)[i] =
             IF i <= Len(before) THEN before[i] ELSE after[i - Len(before)]
    <3> HIDE DEF before, after
    <3> QED  BY <1>3, <1>4, ConcatProperties
  <2> HIDE DEF before, after
  <2> QED  BY <1>3, <1>4, <2>1, <2>2
<1>6. ASSUME NEW i \in DOMAIN RemoveAt(s, n)
      PROVE  \E j \in DOMAIN s : RemoveAt(s, n)[i] = s[j]
  <2>1. i \in 1..(Len(s) - 1)
    BY <1>1, <1>5, LenProperties
  <2>2. CASE i <= n - 1
    <3> HIDE DEF before, after
    <3>1. i \in 1..(n - 1) /\ i \in 1..((n - 1) + (Len(s) - n)) /\ i \in 1..Len(s)
      BY <1>1, <2>1, <2>2
    <3>2. RemoveAt(s, n)[i] = before[i]
      BY <1>5, <2>2, <3>1
    <3>3. before[i] = s[i]
      BY <1>3, <3>1
    <3> QED  BY <1>1, <3>1, <3>2, <3>3
  <2>3. CASE i > n - 1
    <3>1. i - (n - 1) \in 1..(Len(s) - n) /\ i \in 1..((n - 1) + (Len(s) - n))
      BY <1>1, <2>1, <2>3
    <3>2. RemoveAt(s, n)[i] = s[n + (i - (n - 1))]
      <4> HIDE DEF before, after
      <4>1. RemoveAt(s, n)[i] = after[i - (n - 1)]
        <5>1. ~(i <= n - 1)
          BY <1>1, <2>1, <2>3
        <5> QED  BY <1>5, <3>1, <5>1
      <4>2. after[i - (n - 1)] = s[n + (i - (n - 1))]
        BY <1>4, <3>1
      <4> QED  BY <4>1, <4>2
    <3> QED  BY <1>1, <2>1, <2>3, <3>2
  <2> QED  BY <1>1, <2>1, <2>2, <2>3
<1> HIDE DEF before, after
<1> QED  BY <1>1, <1>5, <1>6

(* A set of numbers that have a bound has a greatest one.                  *)
LEMMA GreatestExists ==
  ASSUME NEW b \in Nat, NEW S \in SUBSET (0..b), S # {}
  PROVE  \E m \in S : \A k \in S : k <= m
<1> DEFINE M == {b - k : k \in S}
<1>1. M \in SUBSET Nat /\ M # {}
  <2>1. \A k \in S : b - k \in Nat
    OBVIOUS
  <2> QED  BY <2>1
<1>2. PICK m \in M : \A k \in M : ~(<<k, m>> \in OpToRel(<, Nat))
  <2> HIDE DEF M
  <2> QED  BY <1>1, WFMin, NatLessThanWellFounded
<1>3. \A k \in M : ~(k < m)
  <2> HIDE DEF M
  <2> QED  BY <1>1, <1>2 DEF OpToRel
<1>4. PICK x \in S : m = b - x
  OBVIOUS
<1>5. \A k \in S : ~(b - k < b - x)
  BY <1>3, <1>4
<1> QED  BY <1>5

-----------------------------------------------------------------------------
(* What starts the runs *)

(* A scheduler that has not stalled and is past the lease holds it, and    *)
(* what it read of active runs is still so.                                *)
LockInv ==
  ~budget.stalls => \A i \in Instances :
    /\ ticks[i].pc \in {"read", "write"} => lease = Holder(i)
    /\ ticks[i].pc = "write" =>
         \A k \in Scheduled : runs[k] # <<>> => k \in ticks[i].reading.active

(* What a scheduler writes from, it has read.                              *)
ReadingInv ==
  \A i \in Instances : ticks[i].pc = "write" => ticks[i].reading \in Reading

TriggersInv == TriggersTypeOK /\ ReadingInv /\ LockInv /\ OneScheduledRun

LEMMA Spent ==
  ASSUME budget \in Chances, NEW chance \in {"samples", "turns", "incidents", "failures",
                                             "crashes", "toggles"}, Spend(chance)
  PROVE  budget' \in Chances /\ budget'.stalls = budget.stalls
BY DEF Spend, Chances

LEMMA TriggersInitially == Init => TriggersInv
<1> SUFFICES ASSUME Init PROVE TriggersInv
  OBVIOUS
<1> USE DEF Init, TriggersInit
<1>1. budget \in Chances
  BY MonitoringAssumption
<1>2. runs = [k \in Kinds |-> <<>>] /\ \A k \in Kinds : runs[k] = <<>>
  OBVIOUS
<1>3. runs \in [Kinds -> Seq(Run)] /\ \A k \in Kinds : DOMAIN runs[k] = {} /\ Len(runs[k]) = 0
  BY <1>2
<1>4. world \in World /\ policy \in Policy
  BY <1>1, TriggersAssumption DEF World, Policy, Chances
<1>5. TriggersTypeOK
  <2>1. ticks \in [Instances -> [pc : {"idle", "insert", "read", "write"},
                                 reading : Reading \cup {None}]]
    OBVIOUS
  <2>2. /\ calls \in [Callers -> [pc : {"idle", "look", "write"}, found : BOOLEAN]]
        /\ unread \in BOOLEAN /\ looked \in [Scheduled -> World \cup {None}]
        /\ lease \in Lease \cup {None}
    OBVIOUS
  <2>3. \A k \in Kinds : \A n \in DOMAIN runs[k] : runs[k][n].running <=> runs[k][n].saw # None
    BY <1>3
  <2> QED  BY <1>1, <1>3, <1>4, <2>1, <2>2, <2>3 DEF TriggersTypeOK
<1>6. ReadingInv /\ LockInv
  BY DEF ReadingInv, LockInv
<1>7. OneScheduledRun
  BY <1>3 DEF OneScheduledRun, Scheduled, Kinds
<1> QED  BY <1>5, <1>6, <1>7 DEF TriggersInv

(* Every run that is active is of the type, and has seen what it saw.      *)
Typed(rs) == /\ rs \in Seq(Run)
             /\ \A n \in DOMAIN rs : rs[n].running <=> rs[n].saw # None

LEMMA RunUpdates ==
  ASSUME NEW rs, Typed(rs), NEW n \in DOMAIN rs, NEW run \in Run,
         run.running <=> run.saw # None
  PROVE  /\ Typed([rs EXCEPT ![n] = run]) /\ Typed(RemoveAt(rs, n))
         /\ Len([rs EXCEPT ![n] = run]) = Len(rs)
         /\ Len(RemoveAt(rs, n)) = Len(rs) - 1
         /\ Len(rs) \in Nat \ {0}
<1>1. rs \in Seq(Run) /\ Len(rs) \in Nat \ {0} /\ DOMAIN rs = 1..Len(rs) /\ n \in 1..Len(rs)
  BY LenProperties DEF Typed
<1>2. /\ [rs EXCEPT ![n] = run] \in Seq(Run) /\ Len([rs EXCEPT ![n] = run]) = Len(rs)
      /\ \A i \in 1..Len(rs) : [rs EXCEPT ![n] = run][i] = IF i = n THEN run ELSE rs[i]
  BY <1>1, ExceptSeq
<1>3. Typed([rs EXCEPT ![n] = run])
  BY <1>1, <1>2 DEF Typed
<1>4. /\ RemoveAt(rs, n) \in Seq(Run) /\ Len(RemoveAt(rs, n)) = Len(rs) - 1
      /\ \A i \in DOMAIN RemoveAt(rs, n) : \E j \in DOMAIN rs : RemoveAt(rs, n)[i] = rs[j]
  BY <1>1, OneRemoved
<1>5. Typed(RemoveAt(rs, n))
  BY <1>4 DEF Typed
<1> QED  BY <1>1, <1>2, <1>3, <1>4, <1>5

LEMMA RunQueued ==
  ASSUME NEW rs, Typed(rs)
  PROVE  /\ Typed(Append(rs, Queued)) /\ Len(Append(rs, Queued)) = Len(rs) + 1
         /\ Len(rs) \in Nat /\ (rs = <<>> <=> Len(rs) = 0)
<1>1. Queued \in Run /\ ~Queued.running /\ Queued.saw = None
  BY DEF Queued, Run
<1>2. Len(rs) \in Nat /\ DOMAIN rs = 1..Len(rs) /\ Append(rs, Queued) \in Seq(Run)
  BY <1>1, LenProperties DEF Typed
<1>3. Len(Append(rs, Queued)) = Len(rs) + 1 /\ (rs = <<>> <=> Len(rs) = 0)
  BY <1>1 DEF Typed
<1>4. ASSUME NEW n \in DOMAIN Append(rs, Queued)
      PROVE  Append(rs, Queued)[n].running <=> Append(rs, Queued)[n].saw # None
  BY <1>1, <1>2, <1>3 DEF Typed
<1> QED  BY <1>2, <1>3, <1>4 DEF Typed

(* A step that changes neither the lease nor a scheduler, and queues no    *)
(* scheduled run.                                                          *)
LEMMA SchedulersWait ==
  ASSUME TriggersInv, UNCHANGED <<lease, ticks>>,
         world' \in World, policy' \in Policy,
         budget' \in Chances, budget'.stalls = budget.stalls,
         calls' \in [Callers -> [pc : {"idle", "look", "write"}, found : BOOLEAN]],
         unread' \in BOOLEAN, looked' \in [Scheduled -> World \cup {None}],
         runs' \in [Kinds -> Seq(Run)], \A k \in Kinds : Typed(runs'[k]),
         \A k \in Scheduled : Len(runs'[k]) <= Len(runs[k])
  PROVE  TriggersInv'
<1>1. TriggersTypeOK'
  BY DEF TriggersInv, TriggersTypeOK, Typed
<1>2. ReadingInv'
  BY DEF TriggersInv, ReadingInv
<1>3. \A k \in Scheduled : /\ Len(runs[k]) \in Nat /\ Len(runs'[k]) \in Nat
                           /\ runs[k] # <<>> <=> Len(runs[k]) # 0
                           /\ runs'[k] # <<>> <=> Len(runs'[k]) # 0
  <2>1. \A k \in Scheduled : runs[k] \in Seq(Run) /\ runs'[k] \in Seq(Run)
    BY DEF TriggersInv, TriggersTypeOK, Kinds, Scheduled
  <2> QED  BY <2>1, EmptySeq
<1>4. OneScheduledRun'
  BY <1>3 DEF TriggersInv, OneScheduledRun
<1>5. LockInv'
  <2>1. \A k \in Scheduled : runs'[k] # <<>> => runs[k] # <<>>
    BY <1>3
  <2> QED  BY <2>1 DEF TriggersInv, LockInv, Holder
<1> QED  BY <1>1, <1>2, <1>4, <1>5 DEF TriggersInv

LEMMA TypedRuns ==
  ASSUME TriggersInv, NEW k \in Kinds
  PROVE  Typed(runs[k]) /\ Len(runs[k]) \in Nat
BY LenProperties DEF TriggersInv, TriggersTypeOK, Typed

(* The device, the user and the clock                                      *)
LEMMA SurroundingsChange ==
  ASSUME TriggersInv,
         \/ \E level \in 0..MaxLevel : Sample(level)
         \/ WindowTurns \/ Toggle
         \/ \E k \in Scheduled : IntervalEnds(k) \/ ForceIntervalEnds(k)
  PROVE  TriggersInv'
<1> USE DEF TriggersInv, TriggersTypeOK
<1>1. /\ UNCHANGED <<runs, lease, ticks, calls, unread, looked>>
      /\ budget' \in Chances /\ budget'.stalls = budget.stalls
  BY Spent DEF Sample, WindowTurns, Toggle, IntervalEnds, ForceIntervalEnds
<1>2. world' \in World
  BY DEF Sample, WindowTurns, Toggle, IntervalEnds, ForceIntervalEnds, World
<1>3. policy' \in Policy
  <2>1. CASE \E level \in 0..MaxLevel : Sample(level)
    BY <2>1 DEF Sample
  <2>2. CASE WindowTurns
    BY <2>2 DEF WindowTurns
  <2>3. CASE Toggle
    BY <2>3 DEF Toggle, Policy
  <2>4. ASSUME NEW k \in Scheduled, IntervalEnds(k) PROVE policy' \in Policy
    BY <2>4 DEF IntervalEnds, Policy
  <2>5. ASSUME NEW k \in Scheduled, ForceIntervalEnds(k) PROVE policy' \in Policy
    BY <2>5 DEF ForceIntervalEnds, Policy
  <2> QED  BY <2>1, <2>2, <2>3, <2>4, <2>5
<1>4. \A k \in Kinds : Typed(runs'[k]) /\ Len(runs'[k]) \in Nat
  BY <1>1, TypedRuns
<1> QED
  <2>1. \A k \in Scheduled : Len(runs'[k]) <= Len(runs[k])
    BY <1>1, <1>4 DEF Kinds, Scheduled
  <2> QED  BY <1>1, <1>2, <1>3, <1>4, <2>1, SchedulersWait

(* An incident: what is running does not cover it.                         *)
LEMMA IncidentTold ==
  ASSUME TriggersInv, NEW c \in Callers, Incident(c)
  PROVE  /\ calls' \in [Callers -> [pc : {"idle", "look", "write"}, found : BOOLEAN]]
         /\ unread' \in BOOLEAN
         /\ runs' \in [Kinds -> Seq(Run)] /\ \A k \in Kinds : Typed(runs'[k])
         /\ \A k \in Scheduled : Len(runs'[k]) <= Len(runs[k])
<1> USE DEF Incident
<1>1. calls' \in [Callers -> [pc : {"idle", "look", "write"}, found : BOOLEAN]]
  BY DEF TriggersInv, TriggersTypeOK
<1>2. ASSUME NEW k \in Kinds
      PROVE  /\ runs'[k] \in Seq(Run) /\ Typed(runs'[k])
             /\ Len(runs'[k]) = Len(runs[k]) /\ Len(runs[k]) \in Nat
  <2> DEFINE rs == runs[k]
             told == [n \in DOMAIN rs |-> [rs[n] EXCEPT !.covers = FALSE]]
  <2>1. Typed(rs) /\ runs'[k] = told
    BY TypedRuns
  <2>2. Len(rs) \in Nat /\ DOMAIN rs = 1..Len(rs) /\ rs \in [1..Len(rs) -> Run]
    BY <2>1, LenProperties DEF Typed
  <2>3. \A n \in 1..Len(rs) : [rs[n] EXCEPT !.covers = FALSE] \in Run
    BY <2>2 DEF Run
  <2>4. told \in [1..Len(rs) -> Run]
    BY <2>2, <2>3
  <2>5. told \in Seq(Run)
    BY <2>2, <2>4, SeqDef
  <2>6. DOMAIN told = 1..Len(rs) /\ Len(told) \in Nat /\ DOMAIN told = 1..Len(told)
    BY <2>4, <2>5, LenProperties
  <2>7. Len(told) = Len(rs)
    <3> HIDE DEF told, rs
    <3> QED  BY <2>2, <2>6
  <2>8. Typed(told)
    <3>1. \A n \in DOMAIN told : /\ told[n].running = rs[n].running
                                 /\ told[n].saw = rs[n].saw
      BY <2>2, <2>3 DEF Run
    <3> QED  BY <2>1, <2>2, <2>5, <2>6, <3>1 DEF Typed
  <2> QED  BY <2>1, <2>2, <2>5, <2>7, <2>8
<1> QED  BY <1>1, <1>2 DEF Kinds, Scheduled

(* The runs: one is queued, begins, ends or is put back.                   *)
LEMMA RunsGoOn ==
  ASSUME TriggersInv,
         \/ DeviceIncident
         \/ \E c \in Callers : Call(c)
         \/ \E k \in Kinds, n \in 1..MaxRuns : Work(k, n) \/ Fail(k, n)
  PROVE  TriggersInv'
<1> USE DEF TriggersInv, TriggersTypeOK
<1>1. CASE DeviceIncident
  <2>1. Incident("mqtt") /\ "mqtt" \in Callers
    BY <1>1 DEF DeviceIncident, Callers
  <2>2. budget' \in Chances /\ budget'.stalls = budget.stalls
    BY <1>1, Spent DEF DeviceIncident
  <2>3. UNCHANGED <<policy, world, lease, ticks, looked>>
    BY <1>1 DEF DeviceIncident
  <2> QED  BY <2>1, <2>2, <2>3, IncidentTold, SchedulersWait
<1>2. ASSUME NEW c \in Callers, Look(c) PROVE TriggersInv'
  <2>1. UNCHANGED <<policy, world, runs, lease, ticks, unread, looked, budget>>
    BY <1>2 DEF Look
  <2>2. calls' \in [Callers -> [pc : {"idle", "look", "write"}, found : BOOLEAN]]
    BY <1>2 DEF Look, Active
  <2>3. \A k \in Kinds : Typed(runs'[k]) /\ Len(runs'[k]) <= Len(runs[k])
    BY <2>1, TypedRuns
  <2> QED  BY <2>1, <2>2, <2>3, SchedulersWait DEF Kinds, Scheduled
<1>3. ASSUME NEW c \in Callers, Enqueue(c) PROVE TriggersInv'
  <2>1. UNCHANGED <<policy, world, lease, ticks, unread, looked, budget>>
    BY <1>3 DEF Enqueue
  <2>2. calls' \in [Callers -> [pc : {"idle", "look", "write"}, found : BOOLEAN]]
    BY <1>3 DEF Enqueue
  <2>3. "event" \in Kinds /\ "event" \notin Scheduled
    BY DEF Kinds, Scheduled
  <2>4. \A k \in Kinds : \/ runs'[k] = runs[k]
                         \/ k = "event" /\ runs'[k] = Append(runs[k], Queued)
    <3>1. DOMAIN runs = Kinds
      OBVIOUS
    <3> HIDE DEF TriggersInv, TriggersTypeOK
    <3>2. runs' = runs \/ runs' = [runs EXCEPT !["event"] = Append(runs["event"], Queued)]
      BY <1>3 DEF Enqueue
    <3>3. CASE runs' = runs
      BY <3>3
    <3>4. CASE runs' = [runs EXCEPT !["event"] = Append(runs["event"], Queued)]
      <4> DEFINE more == Append(runs["event"], Queued)
      <4>1. runs' = [runs EXCEPT !["event"] = more]
        BY <3>4
      <4> HIDE DEF more
      <4>2. \A k \in Kinds : runs'[k] = IF k = "event" THEN more ELSE runs[k]
        BY <3>1, <4>1
      <4> QED  BY <4>2 DEF more
    <3> QED  BY <3>2, <3>3, <3>4
  <2>5. ASSUME NEW k \in Kinds PROVE Typed(runs'[k])
    <3>1. Typed(runs[k])
      BY TypedRuns
    <3>2. Typed(Append(runs[k], Queued))
      BY <3>1, RunQueued
    <3> QED  BY <2>4, <3>1, <3>2
  <2>6. \A k \in Scheduled : Len(runs'[k]) <= Len(runs[k])
    BY <2>3, <2>4, TypedRuns DEF Kinds, Scheduled
  <2>7. runs' \in [Kinds -> Seq(Run)]
    <3>1. \A k \in Kinds : runs'[k] \in Seq(Run)
      BY <2>5 DEF Typed
    <3>2. runs' = runs \/ runs' = [runs EXCEPT !["event"] = Append(@, Queued)]
      BY <1>3 DEF Enqueue
    <3>3. runs' = [k \in Kinds |-> runs'[k]]
      BY <3>2
    <3> QED  BY <3>1, <3>3
  <2> QED  BY <2>1, <2>2, <2>5, <2>6, <2>7, SchedulersWait
<1>4. ASSUME NEW k \in Kinds, NEW n \in 1..MaxRuns, Work(k, n) \/ Fail(k, n)
      PROVE  TriggersInv'
  <2> DEFINE rs == runs[k]
  <2>1. n \in DOMAIN rs /\ Typed(rs)
    BY <1>4, TypedRuns DEF Work, Start, Succeed, Fail
  <2>2. UNCHANGED <<world, lease, ticks, calls>>
    BY <1>4 DEF Work, Start, Succeed, Fail
  <2>3. budget' \in Chances /\ budget'.stalls = budget.stalls
    BY <1>4, Spent DEF Work, Start, Succeed, Fail
  <2>4. \E run \in Run : /\ run.running <=> run.saw # None
                         /\ \/ runs' = [runs EXCEPT ![k] = RemoveAt(rs, n)]
                            \/ runs' = [runs EXCEPT ![k] = [rs EXCEPT ![n] = run]]
    <3> DEFINE started == [running |-> TRUE, saw |-> world, covers |-> TRUE]
    <3>1. started \in Run /\ started.running /\ started.saw # None
      BY TriggersAssumption DEF Run
    <3>2. Queued \in Run /\ ~Queued.running /\ Queued.saw = None
      BY DEF Queued, Run
    <3>3. CASE Start(k, n)
      <4>1. runs' = [runs EXCEPT ![k] = [rs EXCEPT ![n] = started]]
        BY <3>3 DEF Start
      <4> QED  BY <3>1, <4>1
    <3>4. CASE Succeed(k, n)
      BY <3>2, <3>4 DEF Succeed
    <3>5. CASE Fail(k, n)
      BY <3>2, <3>5 DEF Fail
    <3> QED  BY <1>4, <3>3, <3>4, <3>5 DEF Work
  <2>5. PICK run \in Run : /\ run.running <=> run.saw # None
                           /\ \/ runs' = [runs EXCEPT ![k] = RemoveAt(rs, n)]
                              \/ runs' = [runs EXCEPT ![k] = [rs EXCEPT ![n] = run]]
    BY <2>4
  <2>6. \E new : /\ Typed(new) /\ Len(new) <= Len(rs)
                 /\ runs' = [runs EXCEPT ![k] = new]
    BY <2>1, <2>5, RunUpdates
  <2>7. PICK new : /\ Typed(new) /\ Len(new) <= Len(rs)
                   /\ runs' = [runs EXCEPT ![k] = new]
    BY <2>6
  <2>8. \A j \in Kinds : Typed(runs'[j]) /\ Len(runs'[j]) <= Len(runs[j])
    BY <2>7, TypedRuns
  <2>9. runs' \in [Kinds -> Seq(Run)]
    BY <2>7 DEF Typed
  <2>10. \A m \in DOMAIN rs : rs[m].saw \in World \cup {None}
    <3>1. DOMAIN rs = 1..Len(rs) /\ \A m \in 1..Len(rs) : rs[m] \in Run
      BY <2>1, LenProperties, ElementOfSeq DEF Typed
    <3> QED  BY <3>1 DEF Run
  <2>11. looked' \in [Scheduled -> World \cup {None}] /\ unread' \in BOOLEAN
    <3>1. CASE Start(k, n) \/ Fail(k, n)
      BY <2>1, <3>1 DEF Start, Fail
    <3>2. CASE Succeed(k, n)
      <4>1. \E w \in World \cup {None} : looked' \in {looked, [looked EXCEPT ![k] = w]}
        BY <1>4, <2>1, <2>10, <3>2 DEF Succeed
      <4>2. unread' \in BOOLEAN
        BY <2>1, <3>2 DEF Succeed
      <4> QED  BY <2>1, <4>1, <4>2
    <3> QED  BY <1>4, <3>1, <3>2 DEF Work
  <2>12. policy' \in Policy
    <3>1. CASE Succeed(k, n) /\ k \in Scheduled
      <4>1. policy' = [policy EXCEPT !.forced = @ \ {k},
                         !.due = IF k = "strategy" THEN @ \ {k} ELSE @]
        BY <3>1 DEF Succeed
      <4>2. policy' = [policy EXCEPT !.forced = policy.forced \ {k}, !.due = policy.due]
            \/ policy' = [policy EXCEPT !.forced = policy.forced \ {k},
                           !.due = policy.due \ {k}]
        BY <4>1
      <4>3. policy.forced \ {k} \in SUBSET Scheduled /\ policy.due \in SUBSET Scheduled
            /\ policy.due \ {k} \in SUBSET Scheduled
        BY DEF Policy
      <4>4. \E f, d \in SUBSET Scheduled : policy' = [policy EXCEPT !.forced = f, !.due = d]
        <5> HIDE DEF TriggersInv, TriggersTypeOK
        <5> QED  BY <4>2, <4>3
      <4>5. PICK f, d \in SUBSET Scheduled : policy' = [policy EXCEPT !.forced = f, !.due = d]
        BY <4>4
      <4> QED  BY <4>5 DEF Policy
    <3>2. CASE ~(Succeed(k, n) /\ k \in Scheduled)
      BY <1>4, <3>2 DEF Work, Start, Succeed, Fail
    <3> QED  BY <3>1, <3>2
  <2> QED  BY <2>2, <2>3, <2>8, <2>9, <2>11, <2>12, SchedulersWait DEF Kinds, Scheduled
<1> QED  BY <1>1, <1>2, <1>3, <1>4 DEF Call

(* The schedulers take turns behind the lease.                             *)
LEMMA SchedulersTakeTurns ==
  ASSUME TriggersInv, LeaseExpires \/ \E i \in Instances : Acquire(i) \/ Insert(i)
                                                           \/ WorkerCrash(i) \/ Read(i)
  PROVE  TriggersInv'
<1> USE DEF TriggersInv, TriggersTypeOK
<1>1. /\ UNCHANGED <<policy, world, runs, calls, unread, looked>>
      /\ budget' \in Chances /\ budget'.stalls = budget.stalls
  BY Spent DEF LeaseExpires, Acquire, Insert, WorkerCrash, Read
<1>2. OneScheduledRun'
  BY <1>1 DEF OneScheduledRun
<1>3. \A i \in Instances : Holder(i) \in Lease /\ Holder(i) # None
                           /\ Holder(i).owner = i /\ Holder(i).valid
  <2>1. \A i \in Instances : Holder(i) \in Lease
    BY DEF Holder, Lease
  <2>2. None \notin Lease
    BY TriggersAssumption
  <2> QED  BY <2>1, <2>2 DEF Holder
<1>4. None \notin Lease
  BY TriggersAssumption
<1>5. CASE LeaseExpires
  <2>1. lease' \in Lease /\ UNCHANGED ticks
    BY <1>5, <1>4 DEF LeaseExpires, Lease
  <2>2. LockInv'
    BY <1>1, <1>3, <1>5, <2>1 DEF LeaseExpires, LockInv
  <2> QED  BY <1>1, <1>2, <2>1, <2>2 DEF ReadingInv
<1>6. ASSUME NEW i \in Instances, Acquire(i) PROVE TriggersInv'
  <2>1. lease' \in Lease \cup {None}
    BY <1>3, <1>6 DEF Acquire
  <2>2. /\ ticks' \in [Instances -> [pc : {"idle", "insert", "read", "write"},
                                     reading : Reading \cup {None}]]
        /\ ticks'[i].pc \in {"insert", "read"}
        /\ \A j \in Instances \ {i} : ticks'[j] = ticks[j]
    <3>1. \E pc \in {"insert", "read"} : ticks' = [ticks EXCEPT ![i].pc = pc]
      BY <1>6 DEF Acquire
    <3> QED  BY <3>1
  <2>3. LockInv'
    <3>1. CASE lease = None
      BY <1>1, <1>3, <1>6, <2>2, <3>1 DEF Acquire, LockInv
    <3>2. CASE lease # None
      <4>1. Free(i) /\ lease' = Holder(i) /\ ticks'[i].pc = "read"
        BY <1>6, <2>2, <3>2 DEF Acquire
      <4>2. ~budget.stalls => \A j \in Instances \ {i} : ticks[j].pc \notin {"read", "write"}
        BY <1>3, <4>1 DEF LockInv, Free
      <4> QED  BY <1>1, <2>2, <4>1, <4>2 DEF LockInv
    <3> QED  BY <3>1, <3>2
  <2> QED  BY <1>1, <1>2, <2>1, <2>2, <2>3 DEF ReadingInv
<1>7. ASSUME NEW i \in Instances, Insert(i) PROVE TriggersInv'
  <2>1. lease' \in Lease \cup {None}
    BY <1>3, <1>7 DEF Insert
  <2>2. /\ ticks' \in [Instances -> [pc : {"idle", "insert", "read", "write"},
                                     reading : Reading \cup {None}]]
        /\ ticks'[i].pc = IF lease = None THEN "read" ELSE "idle"
        /\ \A j \in Instances \ {i} : ticks'[j] = ticks[j]
    BY <1>7 DEF Insert
  <2>3. LockInv'
    BY <1>1, <1>3, <1>7, <2>2 DEF Insert, LockInv
  <2> QED  BY <1>1, <1>2, <2>1, <2>2, <2>3 DEF ReadingInv
<1>8. ASSUME NEW i \in Instances, WorkerCrash(i) PROVE TriggersInv'
  <2>1. lease' \in Lease \cup {None}
    BY <1>8 DEF WorkerCrash, Lease
  <2>2. /\ ticks' \in [Instances -> [pc : {"idle", "insert", "read", "write"},
                                     reading : Reading \cup {None}]]
        /\ ticks'[i].pc = "idle"
        /\ \A j \in Instances \ {i} : ticks'[j] = ticks[j]
    BY <1>8 DEF WorkerCrash
  <2>3. LockInv'
    BY <1>1, <1>3, <1>8, <2>2 DEF WorkerCrash, LockInv
  <2> QED  BY <1>1, <1>2, <2>1, <2>2, <2>3 DEF ReadingInv
<1>9. ASSUME NEW i \in Instances, Read(i) PROVE TriggersInv'
  <2> DEFINE reading == [policy |-> policy, world |-> world,
                         active |-> {k \in Scheduled : runs[k] # <<>>}]
  <2>1. reading \in Reading
    BY DEF Reading
  <2>2. /\ ticks[i].pc = "read" /\ UNCHANGED lease
        /\ ticks' = [ticks EXCEPT ![i] = [pc |-> "write", reading |-> reading]]
    BY <1>9 DEF Read
  <2>3. /\ ticks' \in [Instances -> [pc : {"idle", "insert", "read", "write"},
                                     reading : Reading \cup {None}]]
        /\ ticks'[i].pc = "write" /\ ticks'[i].reading = reading
        /\ \A j \in Instances \ {i} : ticks'[j] = ticks[j]
    <3> HIDE DEF reading
    <3> QED  BY <2>1, <2>2
  <2>4. LockInv'
    BY <1>1, <2>2, <2>3 DEF LockInv
  <2>5. ReadingInv'
    <3> HIDE DEF reading
    <3> QED  BY <2>1, <2>3 DEF ReadingInv
  <2> QED  BY <1>1, <1>2, <2>2, <2>3, <2>4, <2>5
<1> QED  BY <1>5, <1>6, <1>7, <1>8, <1>9

(* The holder of the lease queues only what was not active, and still is   *)
(* not.                                                                    *)
LEMMA RunsAreScheduled ==
  ASSUME TriggersInv, NEW i \in Instances, Write(i)
  PROVE  TriggersInv'
<1> USE DEF TriggersInv, TriggersTypeOK
<1> DEFINE r == ticks[i].reading
<1>1. r \in Reading /\ ticks[i].pc = "write"
  BY DEF ReadingInv, Write
<1>2. UNCHANGED <<world, lease, calls, unread, looked, budget>>
  BY DEF Write
<1>3. /\ ticks' \in [Instances -> [pc : {"idle", "insert", "read", "write"},
                                   reading : Reading \cup {None}]]
      /\ ticks'[i].pc = "idle" /\ \A j \in Instances \ {i} : ticks'[j] = ticks[j]
  BY DEF Write
<1>4. policy' \in Policy
  <2>1. policy' = [policy EXCEPT
             !.due = policy.due \ (Covered(r) \cap {"patrol"}),
             !.fingerprint = [k \in Scheduled |->
               IF k \in Printed(r) THEN r.world ELSE policy.fingerprint[k]]]
    BY DEF Write
  <2>2. policy.due \ (Covered(r) \cap {"patrol"}) \in SUBSET Scheduled
    BY DEF Policy
  <2>3. [k \in Scheduled |-> IF k \in Printed(r) THEN r.world ELSE policy.fingerprint[k]]
          \in [Scheduled -> World \cup {None}]
    <3>1. r.world \in World /\ policy.fingerprint \in [Scheduled -> World \cup {None}]
      BY <1>1 DEF Reading, Policy
    <3> QED  BY <3>1
  <2>4. \E d \in SUBSET Scheduled, f \in [Scheduled -> World \cup {None}] :
          policy' = [policy EXCEPT !.due = d, !.fingerprint = f]
    BY <2>1, <2>2, <2>3
  <2>5. PICK d \in SUBSET Scheduled, f \in [Scheduled -> World \cup {None}] :
          policy' = [policy EXCEPT !.due = d, !.fingerprint = f]
    BY <2>4
  <2> QED  BY <2>5 DEF Policy
<1>5. /\ runs' = [k \in Kinds |-> runs'[k]]
      /\ \A k \in Kinds : runs'[k] = IF k \in Calls(r) THEN Append(runs[k], Queued) ELSE runs[k]
  BY DEF Write
<1>6. \A k \in Kinds : Typed(runs'[k])
  BY <1>5, TypedRuns, RunQueued
<1>7. runs' \in [Kinds -> Seq(Run)]
  BY <1>5, <1>6 DEF Typed
<1>8. TriggersTypeOK'
  BY <1>2, <1>3, <1>4, <1>6, <1>7 DEF Typed
<1>9. ReadingInv'
  BY <1>3 DEF ReadingInv
<1>10. LockInv'
  <2>1. ~budget.stalls => \A j \in Instances \ {i} : ticks[j].pc \notin {"read", "write"}
    BY <1>1 DEF LockInv, Holder
  <2> QED  BY <1>2, <1>3, <2>1 DEF LockInv
<1>11. OneScheduledRun'
  <2>1. ASSUME ~budget.stalls, NEW k \in Scheduled PROVE Len(runs'[k]) <= 1
    <3>1. k \in Kinds /\ Len(runs[k]) <= 1 /\ Typed(runs[k])
      BY <2>1, TypedRuns DEF OneScheduledRun, Kinds, Scheduled
    <3>2. CASE k \in Calls(r)
      <4>1. k \notin r.active
        BY <3>2 DEF Calls
      <4>2. runs[k] = <<>>
        BY <1>1, <2>1, <4>1 DEF LockInv
      <4> QED  BY <1>5, <3>1, <3>2, <4>2, RunQueued
    <3>3. CASE k \notin Calls(r)
      BY <1>5, <3>1, <3>3
    <3> QED  BY <3>2, <3>3
  <2> QED  BY <1>2, <2>1 DEF OneScheduledRun
<1> QED  BY <1>8, <1>9, <1>10, <1>11

LEMMA TriggersStep == TriggersInv /\ [Next]_vars => TriggersInv'
<1> SUFFICES ASSUME TriggersInv, [Next]_vars PROVE TriggersInv'
  OBVIOUS
<1>0. /\ \A k \in Kinds : runs[k] \in Seq(Run) /\ Typed(runs[k]) /\ Len(runs[k]) \in Nat
      /\ Scheduled \subseteq Kinds
  BY TypedRuns DEF Typed, Kinds, Scheduled
<1>1. CASE Show
  <2>1. world' \in World
    BY <1>1 DEF Show, Present, TriggersInv, TriggersTypeOK, World
  <2>2. UNCHANGED <<policy, runs, lease, ticks, calls, unread, looked, budget>>
    BY <1>1 DEF Show
  <2> QED  BY <1>0, <2>1, <2>2, SchedulersWait DEF TriggersInv, TriggersTypeOK
<1>2. CASE Perceive \/ UNCHANGED vars
  <2>1. UNCHANGED <<policy, world, runs, lease, ticks, calls, unread, looked, budget>>
    BY <1>2 DEF Perceive, vars, triggerVars
  <2> QED  BY <1>0, <2>1, SchedulersWait DEF TriggersInv, TriggersTypeOK
<1>3. CASE RemindAndTell
  <2>1. Incident("pose") /\ "pose" \in Callers
    BY <1>3 DEF RemindAndTell, Callers
  <2>2. UNCHANGED <<policy, world, lease, ticks, looked, budget>>
    BY <1>3 DEF RemindAndTell
  <2> QED  BY <2>1, <2>2, IncidentTold, SchedulersWait DEF TriggersInv, TriggersTypeOK
<1>4. CASE GatewayCrash
  <2>1. UNCHANGED <<policy, world, runs, lease, ticks, unread, looked>>
    BY <1>4 DEF GatewayCrash
  <2>2. calls' \in [Callers -> [pc : {"idle", "look", "write"}, found : BOOLEAN]]
    BY <1>4 DEF GatewayCrash
  <2>3. budget' \in Chances /\ budget'.stalls = budget.stalls
    BY <1>4, Spent DEF GatewayCrash, TriggersInv, TriggersTypeOK
  <2> QED  BY <1>0, <2>1, <2>2, <2>3, SchedulersWait DEF TriggersInv, TriggersTypeOK
<1>5. CASE TriggersNext
  BY <1>5, SurroundingsChange, RunsGoOn, SchedulersTakeTurns, RunsAreScheduled
     DEF TriggersNext, Schedule
<1> QED  BY <1>1, <1>2, <1>3, <1>4, <1>5 DEF Next, Trigger

(* Unless a tick stalls beyond its lease, the schedulers of all workers    *)
(* (PatrolScheduler.tick behind acquire_runtime_lease) queue at most one   *)
(* patrol and one strategy run at a time, whatever crashes and whenever    *)
(* the lease ends.                                                         *)
THEOREM OneRunIsScheduled == Spec => []OneScheduledRun
<1>1. Init => TriggersInv
  BY TriggersInitially
<1>2. TriggersInv /\ [Next]_vars => TriggersInv'
  BY TriggersStep
<1>3. TriggersInv => OneScheduledRun
  BY DEF TriggersInv
<1> QED  BY <1>1, <1>2, <1>3, PTL DEF Spec

-----------------------------------------------------------------------------
(* What the gateway perceives: the steps, and types *)

Moves ==
  \/ Upload \/ AnalyseAgain \/ Second \/ TakeImage \/ Remind \/ PerceptionCrash
  \/ \E detection \in Detections, sight \in Sights :
       Record(detection, sight) \/ Lose(detection, sight)
  \/ \E listens \in BOOLEAN : NotDue(listens)
  \/ UNCHANGED perceptionVars

LEMMA NextMoves == PerceptionTypeOK /\ [Next]_vars => Moves
<1> SUFFICES ASSUME PerceptionTypeOK, [Next]_vars PROVE Moves
  OBVIOUS
<1>1. \A o \in allowed.outcomes : o[1] \in Detections /\ o[2] \in Sights
  BY DEF PerceptionTypeOK, Shots, Outcome
<1>2. CASE Show
  BY <1>1, <1>2 DEF Show, Moves
<1>3. CASE Perceive
  <2>1. Detects \in BOOLEAN
    BY DEF Detects
  <2> QED  BY <1>1, <1>3, <2>1 DEF Perceive, Moves
<1>4. CASE RemindAndTell \/ GatewayCrash
  BY <1>4 DEF RemindAndTell, GatewayCrash, Moves
<1>5. CASE Trigger \/ UNCHANGED vars
  BY <1>5 DEF Trigger, vars, Moves
<1> QED  BY <1>2, <1>3, <1>4, <1>5 DEF Next

LEMMA SmootherUpdate ==
  ASSUME NEW s \in [stable : Observation, candidate : Observation, missing : 0..3],
         NEW c \in Observation, NEW m \in 0..3
  PROVE  [s EXCEPT !.candidate = c, !.missing = m]
           \in [stable : Observation, candidate : Observation, missing : 0..3]
OBVIOUS

LEMMA ModelTypes ==
  ASSUME PerceptionTypeOK, NEW detection \in Detections, NEW sight \in Sights
  PROVE  /\ Classified(sight) \in Observation
         /\ Tracked(tracker, detection, sight)
              \in [stable : BOOLEAN, misses : 0..Misses, hits : 0..Hits]
         /\ \A o \in Observation :
              /\ Smoothed(smoother, o) \in [stable : Observation, candidate : Observation,
                                            missing : 0..(Kept + 1)]
              /\ Reported(Smoothed(smoother, o), o) \in Observation
<1>1. Classified(sight) \in Observation
  BY DEF Classified, Observation, Sights, Unknown
<1>2. tracker \in [stable : BOOLEAN, misses : 0..3, hits : 0..2]
  BY DEF PerceptionTypeOK, Misses, Hits
<1>3. \A n \in 0..3, b \in {2, 3} : AtMost(n + 1, b) \in 0..b
  BY DEF AtMost
<1>4. Tracked(tracker, detection, sight) \in [stable : BOOLEAN, misses : 0..3, hits : 0..2]
  BY <1>2, <1>3 DEF Tracked, Misses, Hits
<1>5. ASSUME NEW o \in Observation
      PROVE  /\ Smoothed(smoother, o) \in [stable : Observation, candidate : Observation,
                                           missing : 0..3]
             /\ Reported(Smoothed(smoother, o), o) \in Observation
  <2>1. smoother \in [stable : Observation, candidate : Observation, missing : 0..3]
    BY DEF PerceptionTypeOK, Kept
  <2>2. Unknown \in Observation /\ [o EXCEPT !.posture = "unknown"] \in Observation
    BY DEF Unknown, Observation
  <2>3. \A n \in 0..3 : AtMost(n + 1, 3) \in 0..3
    BY DEF AtMost
  <2>4. Smoothed(smoother, o) \in [stable : Observation, candidate : Observation, missing : 0..3]
    <3>1. CASE o.posture = "unknown"
      <4>1. AtMost(smoother.missing + 1, Kept + 1) \in 0..3
        BY <2>1, <2>3 DEF Kept
      <4>2. PICK m \in 0..3 :
              Smoothed(smoother, o) = [smoother EXCEPT !.candidate = Unknown, !.missing = m]
        BY <3>1, <4>1 DEF Smoothed
      <4>3. [smoother EXCEPT !.candidate = Unknown, !.missing = m]
              \in [stable : Observation, candidate : Observation, missing : 0..3]
        BY ONLY <2>1, <2>2, SmootherUpdate
      <4> QED  BY <4>2, <4>3
    <3>2. CASE o.posture # "unknown" /\ o \in {smoother.stable, smoother.candidate}
      BY <2>2, <3>2 DEF Smoothed
    <3>3. CASE o.posture # "unknown" /\ o \notin {smoother.stable, smoother.candidate}
      <4>1. Smoothed(smoother, o) = [smoother EXCEPT !.candidate = o, !.missing = 0]
        BY <3>3 DEF Smoothed
      <4>2. 0 \in 0..3
        OBVIOUS
      <4>3. [smoother EXCEPT !.candidate = o, !.missing = 0]
              \in [stable : Observation, candidate : Observation, missing : 0..3]
        BY ONLY <2>1, <4>2, o \in Observation, SmootherUpdate
      <4> QED  BY <4>1, <4>3
    <3> QED  BY <3>1, <3>2, <3>3
  <2> QED  BY <2>2, <2>4 DEF Reported
<1> QED  BY <1>1, <1>4, <1>5 DEF Misses, Hits, Kept

-----------------------------------------------------------------------------
(* The images *)

Row == [id : Nat, capture : BOOLEAN]

(* The ids of rows follow one another.                                     *)
InOrder(rows) == \A n \in DOMAIN rows : rows[n].id = rows[1].id + (n - 1)

(* The images that are kept are the newest.                                *)
ImagesInv == InOrder(images)

LEMMA NewestKept ==
  ASSUME NEW rows \in Seq(Row), rows # <<>>, allowed.limit \in Nat \ {0}
  PROVE  /\ Len(rows) \in Nat \ {0}
         /\ \E cut \in 0..(Len(rows) - 1) :
              /\ Newest(rows) \in Seq(Row) /\ Len(Newest(rows)) = Len(rows) - cut
              /\ \A n \in 1..(Len(rows) - cut) : Newest(rows)[n] = rows[cut + n]
<1> DEFINE L == Len(rows)
           cut == IF L > allowed.limit THEN L - allowed.limit ELSE 0
<1>1. L \in Nat \ {0} /\ \A n \in 1..L : rows[n] \in Row
  BY EmptySeq, ElementOfSeq
<1>2. cut \in 0..(L - 1) /\ Newest(rows) = SubSeq(rows, cut + 1, L)
  <2>1. CASE L > allowed.limit
    <3>1. cut = L - allowed.limit /\ cut + 1 = L - allowed.limit + 1 /\ cut \in 0..(L - 1)
      BY <1>1, <2>1
    <3> QED  BY <2>1, <3>1 DEF Newest
  <2>2. CASE ~(L > allowed.limit)
    <3>1. cut = 0 /\ cut + 1 = 1 /\ cut \in 0..(L - 1)
      BY <1>1, <2>2
    <3> QED  BY <2>2, <3>1 DEF Newest
  <2> QED  BY <2>1, <2>2
<1> HIDE DEF cut
<1>3. /\ SubSeq(rows, cut + 1, L) \in Seq(Row)
      /\ Len(SubSeq(rows, cut + 1, L)) = IF cut + 1 <= L THEN L - (cut + 1) + 1 ELSE 0
      /\ \A n \in 1..(L - (cut + 1) + 1) : SubSeq(rows, cut + 1, L)[n] = rows[(cut + 1) + n - 1]
  <2>1. \A n \in (cut + 1)..L : rows[n] \in Row
    BY <1>1, <1>2
  <2>2. cut + 1 \in Int /\ L \in Int
    BY <1>1, <1>2
  <2> HIDE DEF L
  <2> QED  BY <2>1, <2>2, SubSeqProperties
<1> HIDE DEF L
<1>4. Len(Newest(rows)) = L - cut
  BY <1>1, <1>2, <1>3
<1>5. \A n \in 1..(L - cut) : Newest(rows)[n] = rows[cut + n]
  <2>1. ASSUME NEW n \in 1..(L - cut) PROVE Newest(rows)[n] = rows[cut + n]
    <3>1. n \in 1..(L - (cut + 1) + 1) /\ (cut + 1) + n - 1 = cut + n
      BY <1>1, <1>2
    <3> QED  BY <1>2, <1>3, <3>1
  <2> QED  BY <2>1
<1> QED  BY <1>1, <1>2, <1>3, <1>4, <1>5 DEF L

(* The ids of rows in order are those from the first to the last.          *)
LEMMA IdsInterval ==
  ASSUME NEW rows \in Seq(Row), rows # <<>>, InOrder(rows)
  PROVE  /\ Len(rows) \in Nat \ {0} /\ DOMAIN rows = 1..Len(rows)
         /\ rows[1].id \in Nat /\ rows[Len(rows)].id = rows[1].id + (Len(rows) - 1)
         /\ \A n \in 1..Len(rows) : rows[n] \in Row /\ rows[n].id = rows[1].id + (n - 1)
         /\ Ids(rows) = rows[1].id..rows[Len(rows)].id
<1>1. Len(rows) \in Nat \ {0} /\ DOMAIN rows = 1..Len(rows) /\ \A n \in 1..Len(rows) : rows[n] \in Row
  BY EmptySeq, ElementOfSeq, LenProperties
<1>2. rows[1].id \in Nat /\ \A n \in 1..Len(rows) : rows[n].id = rows[1].id + (n - 1)
  BY <1>1 DEF InOrder, Row
<1> DEFINE a == rows[1].id
           L == Len(rows)
<1>3. rows[L].id = a + (L - 1)
  BY <1>1, <1>2
<1>4. \A id : id \in Ids(rows) <=> id \in a..(a + (L - 1))
  <2>1. ASSUME NEW id \in Ids(rows) PROVE id \in a..(a + (L - 1))
    <3>1. PICK n \in 1..L : id = rows[n].id
      BY <1>1 DEF Ids
    <3>2. id = a + (n - 1)
      BY <1>2, <3>1
    <3> HIDE DEF a, L
    <3> QED  BY <1>1, <1>2, <3>2 DEF a, L
  <2>2. ASSUME NEW id \in a..(a + (L - 1)) PROVE id \in Ids(rows)
    <3>1. id - a + 1 \in 1..L /\ a + ((id - a + 1) - 1) = id
      <4>1. a \in Nat /\ L \in Nat \ {0}
        BY <1>1, <1>2
      <4> HIDE DEF a, L
      <4> QED  BY <4>1
    <3>2. rows[id - a + 1].id = id
      BY <1>2, <3>1
    <3> QED  BY <1>1, <3>1, <3>2 DEF Ids
  <2> QED  BY <2>1, <2>2
<1> QED  BY <1>1, <1>2, <1>3, <1>4

(* The row of the next image: an upload, or drawn into.                    *)
NextRow(capture) == [id |-> NextId, capture |-> capture]

Grew(grown, capture) ==
  \/ grown = Append(images, NextRow(capture))
  \/ grown = images /\ images # <<>>

(* Images with the next one, or none, without the oldest.                  *)
LEMMA ImagesGrow ==
  ASSUME PerceptionTypeOK, ImagesInv, NEW capture \in BOOLEAN, NEW grown,
         Grew(grown, capture), NEW rows, rows = Newest(grown)
  PROVE  /\ NextId \in Nat /\ \A id \in Ids(images) : id \in Nat /\ id < NextId
         /\ rows \in Seq(Row) /\ rows # <<>> /\ InOrder(rows)
         /\ rows[Len(rows)].id = IF grown = images THEN images[Len(images)].id ELSE NextId
         /\ \A n \in DOMAIN rows :
              \/ \E m \in DOMAIN images : rows[n] = images[m]
              \/ rows[n] = NextRow(capture)
<1>1. images \in Seq(Row) /\ allowed.limit \in Nat \ {0}
  BY DEF PerceptionTypeOK, Row, Shots
<1>2. /\ NextId \in Nat /\ \A id \in Ids(images) : id \in Nat /\ id < NextId
      /\ images # <<>> => NextId = images[1].id + Len(images)
  <2>1. CASE images = <<>>
    BY <2>1 DEF NextId, Ids
  <2>2. CASE images # <<>>
    <3>1. NextId = images[Len(images)].id + 1
      BY <2>2 DEF NextId, Last
    <3>2. /\ Len(images) \in Nat \ {0} /\ images[1].id \in Nat
          /\ images[Len(images)].id = images[1].id + (Len(images) - 1)
          /\ Ids(images) = images[1].id..images[Len(images)].id
      BY <1>1, <2>2, IdsInterval DEF ImagesInv
    <3> QED  BY <3>1, <3>2
  <2> QED  BY <2>1, <2>2
<1>3. NextRow(capture) \in Row
  BY <1>2 DEF Row, NextRow
<1>4. /\ grown \in Seq(Row) /\ grown # <<>> /\ InOrder(grown)
      /\ grown[Len(grown)].id = IF grown = images THEN images[Len(images)].id ELSE NextId
      /\ \A n \in DOMAIN grown : \/ \E m \in DOMAIN images : grown[n] = images[m]
                                 \/ grown[n] = NextRow(capture)
  <2>1. CASE grown = images /\ images # <<>>
    BY <1>1, <2>1 DEF ImagesInv
  <2>2. CASE grown = Append(images, NextRow(capture))
    <3>1. /\ grown \in Seq(Row) /\ Len(grown) = Len(images) + 1
          /\ Len(images) \in Nat /\ DOMAIN images = 1..Len(images)
          /\ DOMAIN grown = 1..(Len(images) + 1)
          /\ \A n \in 1..(Len(images) + 1) : grown[n] =
               IF n = Len(images) + 1 THEN NextRow(capture) ELSE images[n]
      BY <1>1, <1>3, <2>2, LenProperties
    <3>2. grown # images
      BY <3>1
    <3>3. InOrder(grown)
      <4>1. CASE images = <<>>
        <5>1. Len(images) = 0 /\ NextId = 1
          BY <4>1 DEF NextId
        <5>2. DOMAIN grown = 1..1 /\ grown[1] = NextRow(capture) /\ NextRow(capture).id = 1
          BY <3>1, <5>1 DEF NextRow
        <5> QED  BY <5>2 DEF InOrder
      <4>2. CASE images # <<>>
        <5>1. Len(images) \in Nat \ {0} /\ images[1].id \in Nat
              /\ NextRow(capture).id = images[1].id + Len(images)
          BY <1>1, <1>2, <4>2, IdsInterval DEF NextRow, ImagesInv
        <5>2. \A n \in 1..Len(images) : images[n].id = images[1].id + (n - 1)
          BY <3>1 DEF ImagesInv, InOrder
        <5>3. grown[1] = images[1]
          BY <3>1, <5>1
        <5>4. \A n \in 1..(Len(images) + 1) : grown[n].id = images[1].id + (n - 1)
          <6>1. ASSUME NEW n \in 1..Len(images) PROVE grown[n] = images[n]
            BY <3>1
          <6>2. grown[Len(images) + 1] = NextRow(capture)
            BY <3>1
          <6>3. images[1].id + Len(images) = images[1].id + ((Len(images) + 1) - 1)
            BY <5>1
          <6>4. \A n \in 1..(Len(images) + 1) : n \in 1..Len(images) \/ n = Len(images) + 1
            BY <3>1
          <6> QED  BY <5>1, <5>2, <6>1, <6>2, <6>3, <6>4
        <5> QED  BY <3>1, <5>3, <5>4 DEF InOrder
      <4> QED  BY <4>1, <4>2
    <3>4. grown # <<>>
      <4>1. Len(grown) # 0
        BY <3>1
      <4> QED  BY <4>1
    <3>5. grown[Len(grown)] = NextRow(capture) /\ NextRow(capture).id = NextId
      BY <3>1 DEF NextRow
    <3> QED  BY <3>1, <3>2, <3>3, <3>4, <3>5
  <2> QED  BY <2>1, <2>2 DEF Grew
<1>5. rows = Newest(grown)
  OBVIOUS
<1>6. PICK cut \in 0..(Len(grown) - 1) :
         /\ rows \in Seq(Row) /\ Len(rows) = Len(grown) - cut
         /\ \A n \in 1..(Len(grown) - cut) : rows[n] = grown[cut + n]
  <2>1. \E cut \in 0..(Len(grown) - 1) :
          /\ Newest(grown) \in Seq(Row) /\ Len(Newest(grown)) = Len(grown) - cut
          /\ \A n \in 1..(Len(grown) - cut) : Newest(grown)[n] = grown[cut + n]
    BY <1>1, <1>4, NewestKept
  <2> QED  BY <1>5, <2>1
<1>7. /\ Len(grown) \in Nat \ {0} /\ DOMAIN grown = 1..Len(grown) /\ grown[1].id \in Nat
      /\ \A n \in 1..Len(grown) : grown[n].id = grown[1].id + (n - 1)
  BY <1>4, IdsInterval
<1>8. DOMAIN rows = 1..Len(rows) /\ Len(rows) \in Nat \ {0} /\ rows # <<>>
  BY <1>6, <1>7, LenProperties, EmptySeq
<1>9. InOrder(rows)
  <2>1. ASSUME NEW n \in 1..Len(rows) PROVE rows[n].id = rows[1].id + (n - 1)
    <3>1. /\ rows[n] = grown[cut + n] /\ rows[1] = grown[cut + 1]
          /\ cut + n \in 1..Len(grown) /\ cut + 1 \in 1..Len(grown)
      BY <1>6, <1>7, <1>8
    <3>2. /\ grown[cut + n].id = grown[1].id + ((cut + n) - 1)
          /\ grown[cut + 1].id = grown[1].id + ((cut + 1) - 1)
      BY <1>7, <3>1
    <3>3. (grown[1].id + ((cut + 1) - 1)) + (n - 1) = grown[1].id + ((cut + n) - 1)
      BY <1>7
    <3> QED  BY <3>1, <3>2, <3>3
  <2> QED  BY <1>8, <2>1 DEF InOrder
<1>10. rows[Len(rows)] = grown[Len(grown)]
  <2>1. Len(rows) \in 1..(Len(grown) - cut) /\ cut + Len(rows) = Len(grown)
    BY <1>6, <1>7, <1>8
  <2> QED  BY <1>6, <2>1
<1>11. \A n \in DOMAIN rows : \E j \in DOMAIN grown : rows[n] = grown[j]
  <2>1. ASSUME NEW n \in 1..Len(rows) PROVE rows[n] = grown[cut + n] /\ cut + n \in 1..Len(grown)
    BY <1>6, <1>7, <1>8
  <2> QED  BY <1>7, <1>8, <2>1
<1>12. \A n \in DOMAIN rows : \/ \E m \in DOMAIN images : rows[n] = images[m]
                              \/ rows[n] = NextRow(capture)
  BY <1>4, <1>11
<1> QED  BY <1>2, <1>4, <1>6, <1>8, <1>9, <1>10, <1>12 DEF NextRow

-----------------------------------------------------------------------------
(* Images are analysed in the order they came *)

(* The image was uploaded, not drawn into; it may be pruned by now.        *)
Captured(id) ==
  /\ images # <<>> /\ id <= images[Len(images)].id
  /\ \A n \in DOMAIN images : images[n].id = id => images[n].capture

(* The step keeps an image more, or none, and prunes the oldest.           *)
Growth(grown, capture) == Grew(grown, capture) /\ images' = Newest(grown)

LEMMA UploadGrows ==
  Upload => Growth(Append(images, NextRow(TRUE)), TRUE)
BY DEF Upload, Growth, Grew, NextRow

LEMMA NextIdType ==
  ASSUME PerceptionTypeOK
  PROVE  NextId \in Nat
<1>1. images \in Seq(Row)
  BY DEF PerceptionTypeOK, Row
<1>2. CASE images = <<>>
  BY <1>2 DEF NextId
<1>3. CASE images # <<>>
  <2>1. Len(images) \in Nat \ {0}
    BY <1>1, <1>3, EmptySeq
  <2>2. images[Len(images)] \in Row
    BY <1>1, <2>1, ElementOfSeq
  <2> QED  BY <1>3, <2>2 DEF NextId, Last, Row
<1> QED  BY <1>2, <1>3

LEMMA RecordGrows ==
  ASSUME PerceptionTypeOK, NEW detection \in Detections, NEW sight \in Sights, Record(detection, sight)
  PROVE  \E grown : /\ Growth(grown, FALSE)
                    /\ grown = images => Result(detection, sight).annotated = Nobody
                    /\ grown # images => Result(detection, sight).annotated = NextId
<1> DEFINE p == Result(detection, sight)
<1>1. p.annotated \in {NextId, Nobody}
  BY DEF Result
<1>2. images # <<>>
  <2>1. images = <<>> => Ids(images) = {}
    BY DEF Ids
  <2> QED  BY <2>1 DEF Record
<1>3. CASE p.annotated = Nobody
  <2>1. images' = Newest(images)
    BY <1>3 DEF Record
  <2>2. Growth(images, FALSE)
    BY <1>2, <2>1 DEF Growth, Grew
  <2> QED  BY <1>3, <2>2
<1>4. CASE p.annotated # Nobody
  <2>1. p.annotated = NextId
    BY <1>1, <1>4
  <2>2. images' = Newest(Append(images, NextRow(FALSE)))
    <3> HIDE DEF p
    <3> QED  BY <1>4, <2>1 DEF Record, p, NextRow
  <2>3. Growth(Append(images, NextRow(FALSE)), FALSE)
    BY <2>2 DEF Growth, Grew
  <2>4. Append(images, NextRow(FALSE)) # images
    <3>1. NextId \in Nat /\ images \in Seq(Row)
      BY NextIdType DEF PerceptionTypeOK, Row
    <3>2. NextRow(FALSE) \in Row
      BY <3>1 DEF Row, NextRow
    <3>3. Len(Append(images, NextRow(FALSE))) = Len(images) + 1 /\ Len(images) \in Nat
      <4> QED  BY <3>1, <3>2, LenProperties
    <3> SUFFICES ASSUME Append(images, NextRow(FALSE)) = images PROVE FALSE
      OBVIOUS
    <3> QED  BY <3>3
  <2> QED  BY <2>1, <2>3, <2>4
<1> QED  BY <1>3, <1>4

LEMMA ImagesMove ==
  ASSUME PerceptionTypeOK, Moves
  PROVE  \/ UNCHANGED images
         \/ \E grown : \E capture \in BOOLEAN : Growth(grown, capture)
<1>1. ASSUME NEW detection \in Detections, NEW sight \in Sights, Record(detection, sight)
      PROVE  \E grown : Growth(grown, FALSE)
  BY <1>1, RecordGrows
<1>2. CASE Upload
  BY <1>2, UploadGrows
<1> QED
  BY <1>1, <1>2
     DEF Moves, AnalyseAgain, Second, TakeImage, Remind, PerceptionCrash, Lose, NotDue,
         perceptionVars

LEMMA GrowthKeeps ==
  ASSUME PerceptionTypeOK, ImagesInv, NEW grown, NEW capture \in BOOLEAN,
         Growth(grown, capture)
  PROVE  /\ NextId \in Nat /\ \A id \in Ids(images) : id \in Nat /\ id < NextId
         /\ images' \in Seq(Row) /\ ImagesInv'
         /\ \A id \in Nat : Captured(id) => Captured(id)' /\ id < NextId
         /\ \A id \in Ids(images), first \in Ids(images') : first <= id => id \in Ids(images')
         /\ grown # images => /\ NextId \in Ids(images')
                              /\ \A id \in Ids(images') : id <= NextId
         /\ grown # images /\ capture => \A id : id = NextId => Captured(id)'
<1>1. /\ NextId \in Nat /\ \A id \in Ids(images) : id \in Nat /\ id < NextId
      /\ images' \in Seq(Row) /\ images' # <<>> /\ InOrder(images')
      /\ images'[Len(images')].id = IF grown = images THEN images[Len(images)].id ELSE NextId
      /\ \A n \in DOMAIN images' : \/ \E m \in DOMAIN images : images'[n] = images[m]
                                   \/ images'[n] = NextRow(capture)
  BY ImagesGrow DEF Growth
<1>2. /\ Len(images') \in Nat \ {0} /\ DOMAIN images' = 1..Len(images')
      /\ images'[1].id \in Nat
      /\ \A n \in 1..Len(images') : images'[n] \in Row
      /\ Ids(images') = images'[1].id..images'[Len(images')].id
  BY <1>1, IdsInterval
<1>3. images # <<>> =>
        /\ Len(images) \in Nat \ {0} /\ DOMAIN images = 1..Len(images)
        /\ images[1].id \in Nat
        /\ images[Len(images)].id \in Ids(images)
        /\ Ids(images) = images[1].id..images[Len(images)].id
  <2>1. images \in Seq(Row)
    BY DEF PerceptionTypeOK, Row
  <2>2. images # <<>> =>
          /\ Len(images) \in Nat \ {0} /\ DOMAIN images = 1..Len(images)
          /\ images[1].id \in Nat
          /\ Ids(images) = images[1].id..images[Len(images)].id
    BY <2>1, IdsInterval DEF ImagesInv
  <2>3. images # <<>> => Len(images) \in DOMAIN images
    BY <2>2
  <2> QED  BY <2>2, <2>3 DEF Ids
<1>4. images # <<>> => images[Len(images)].id \in Nat /\ images[Len(images)].id < NextId
  BY <1>1, <1>3
<1>5. /\ images'[Len(images')].id \in Nat
      /\ images # <<>> => images[Len(images)].id <= images'[Len(images')].id
  <2>1. Len(images') \in 1..Len(images')
    BY <1>2
  <2> QED  BY <1>1, <1>2, <1>4, <2>1 DEF Row
<1>6. ASSUME NEW id \in Nat, Captured(id) PROVE Captured(id)' /\ id < NextId
  <2>1. images # <<>> /\ id <= images[Len(images)].id
        /\ \A n \in DOMAIN images : images[n].id = id => images[n].capture
    BY <1>6 DEF Captured
  <2>2. id < NextId /\ id <= images'[Len(images')].id
    BY <1>1, <1>4, <1>5, <2>1
  <2>3. ASSUME NEW n \in DOMAIN images', images'[n].id = id PROVE images'[n].capture
    <3>1. NextRow(capture).id # id
      BY <1>1, <2>2 DEF NextRow
    <3>2. PICK m \in DOMAIN images : images'[n] = images[m]
      BY <1>1, <2>3, <3>1
    <3> QED  BY <2>1, <2>3, <3>2
  <2> QED  BY <1>1, <2>2, <2>3 DEF Captured
<1>7. ASSUME NEW id \in Ids(images), NEW first \in Ids(images'), first <= id
      PROVE  id \in Ids(images')
  <2>1. images # <<>>
    <3>1. images = <<>> => Ids(images) = {}
      BY DEF Ids
    <3> QED  BY <3>1
  <2>2. id \in Nat /\ id <= images[Len(images)].id
    BY <1>3, <2>1
  <2>3. images'[1].id <= first /\ first \in Nat
    BY <1>2, <1>5
  <2>4. images[Len(images)].id \in Nat /\ images'[1].id \in Nat /\ images'[Len(images')].id \in Nat
        /\ images[Len(images)].id <= images'[Len(images')].id
    BY <1>2, <1>4, <1>5, <2>1
  <2>5. id \in images'[1].id..images'[Len(images')].id
    BY <1>7, <2>2, <2>3, <2>4
  <2> QED  BY <1>2, <2>5
<1>8. grown # images => NextId \in Ids(images') /\ \A id \in Ids(images') : id <= NextId
  <2>1. Len(images') \in DOMAIN images'
    BY <1>2
  <2> QED  BY <1>1, <1>2, <2>1 DEF Ids
<1>9. ASSUME grown # images, capture, NEW id, id = NextId PROVE Captured(id)'
  <2>1. ASSUME NEW n \in DOMAIN images', images'[n].id = id PROVE images'[n].capture
    <3>1. NextRow(capture).capture
      BY <1>9 DEF NextRow
    <3>2. ASSUME NEW m \in DOMAIN images, images'[n] = images[m] PROVE FALSE
      <4>1. images[m].id \in Ids(images)
        BY DEF Ids
      <4> QED  BY <1>1, <1>9, <2>1, <3>2, <4>1
    <3> QED  BY <1>1, <3>1, <3>2
  <2> QED  BY <1>1, <1>9, <2>1 DEF Captured
<1>10. ImagesInv'
  BY <1>1 DEF ImagesInv
<1> QED  BY <1>1, <1>6, <1>7, <1>8, <1>9, <1>10

-----------------------------------------------------------------------------
(* Types *)

LEMMA ResultTypes ==
  ASSUME PerceptionTypeOK, ImagesInv,
         NEW detection \in Detections, NEW sight \in Sights, NEW stored \in BOOLEAN,
         Seen(detection, sight, stored)
  PROVE  /\ Result(detection, sight) \in Pose
         /\ tracker' \in [stable : BOOLEAN, misses : 0..Misses, hits : 0..Hits]
         /\ smoother' \in [stable : Observation, candidate : Observation,
                           missing : 0..(Kept + 1)]
         /\ \E entry \in LogEntry :
              /\ log' = Append(log, entry) /\ entry.time = clock /\ entry.stored = stored
              /\ entry.life = worker.life /\ entry.sight = sight
              /\ entry.sitting = Result(detection, sight).sitting
              /\ entry.posture = Reported(smoother', Classified(sight)).posture
<1> DEFINE o == Classified(sight)
           entry == [detection |-> detection, sight |-> sight, stored |-> stored,
                     time |-> clock, life |-> worker.life, present |-> tracker'.stable,
                     posture |-> Reported(smoother', o).posture,
                     sitting |-> Result(detection, sight).sitting]
<1>1. o \in Observation
      /\ tracker' \in [stable : BOOLEAN, misses : 0..Misses, hits : 0..Hits]
      /\ smoother' \in [stable : Observation, candidate : Observation, missing : 0..(Kept + 1)]
      /\ Reported(smoother', o) \in Observation
      /\ Reported(Smoothed(smoother, o), o) \in Observation
  BY ModelTypes DEF Seen
<1>2. NextId \in Nat /\ clock \in Nat /\ worker.image \in Nat /\ worker.life \in Nat
  BY NextIdType DEF PerceptionTypeOK
<1>3. Result(detection, sight) \in Pose
  <2>1. Tracked(tracker, detection, sight).stable \in BOOLEAN
    BY <1>1 DEF Seen
  <2>2. (Tracked(tracker, detection, sight).stable
           /\ Reported(Smoothed(smoother, o), o).seated = "seated") \in BOOLEAN
    OBVIOUS
  <2> QED  BY <1>2, <2>1, <2>2 DEF Result, Pose
<1>4. entry \in LogEntry /\ log' = Append(log, entry)
  BY <1>1, <1>2, <1>3 DEF Seen, LogEntry, Observation, Pose
<1> QED  BY <1>1, <1>3, <1>4

LEMMA TypesInitially == Init => PerceptionTypeOK /\ ImagesInv
<1> SUFFICES ASSUME Init PROVE PerceptionTypeOK /\ ImagesInv
  OBVIOUS
<1> USE DEF Init, PerceptionInit
<1>1. allowed \in Shots
  BY MonitoringAssumption
<1>2. Unknown \in Observation
  BY DEF Unknown, Observation
<1>3. tracker \in [stable : BOOLEAN, misses : 0..Misses, hits : 0..Hits]
  BY DEF NewTracker, Misses, Hits
<1>4. smoother \in [stable : Observation, candidate : Observation, missing : 0..(Kept + 1)]
  BY <1>2 DEF NewSmoother, Kept
<1>5. worker \in [pc : {"idle", "analyse", "handle"}, image : Nat,
                  pose : Pose \cup {Nobody}, listened : BOOLEAN, life : Nat]
  OBVIOUS
<1>6. queue \in Seq(Nat) /\ Len(queue) <= 1 /\ clock \in Nat
  OBVIOUS
<1>7. PerceptionTypeOK
  BY <1>1, <1>3, <1>4, <1>5, <1>6 DEF PerceptionTypeOK
<1>8. ImagesInv
  BY DEF ImagesInv, InOrder
<1> QED  BY <1>7, <1>8

LEMMA Used ==
  ASSUME PerceptionTypeOK, NEW shot \in {"uploads", "again", "seconds", "failures"}, Use(shot)
  PROVE  allowed' \in Shots
<1>1. allowed \in Shots /\ allowed[shot] \in Nat /\ allowed[shot] > 0
  BY DEF Use, PerceptionTypeOK, Shots
<1>2. \E n \in Nat : allowed' = [allowed EXCEPT ![shot] = n]
  <2>1. allowed[shot] - 1 \in Nat
    BY <1>1
  <2> QED  BY <2>1 DEF Use
<1> QED  BY <1>1, <1>2 DEF Shots

LEMMA OneWaits ==
  ASSUME NEW id \in Nat
  PROVE  /\ Enqueued(id) \in Seq(Nat) /\ Len(Enqueued(id)) = 1
         /\ Enqueued(id) # <<>> /\ Head(Enqueued(id)) = id
BY DEF Enqueued

LEMMA TypesKept == PerceptionTypeOK /\ ImagesInv /\ Moves => PerceptionTypeOK' /\ ImagesInv'
<1> SUFFICES ASSUME PerceptionTypeOK, ImagesInv, Moves PROVE PerceptionTypeOK' /\ ImagesInv'
  OBVIOUS
<1>1. CASE Upload
  <2>1. /\ poses' \subseteq poses
        /\ queue' = Enqueued(NextId)
        /\ UNCHANGED <<clock, reminders, worker, tracker, smoother, log>>
    BY <1>1 DEF Upload
  <2>2. NextId \in Nat /\ images' \in Seq(Row) /\ ImagesInv'
    BY <1>1, UploadGrows, GrowthKeeps
  <2>3. allowed' \in Shots
    BY <1>1, Used DEF Upload
  <2>4. queue' \in Seq(Nat) /\ Len(queue') <= 1
    <3>1. Enqueued(NextId) \in Seq(Nat) /\ Len(Enqueued(NextId)) = 1
      BY <2>2, OneWaits
    <3> QED  BY <2>1, <3>1
  <2>5. poses' \subseteq Pose
    BY <2>1 DEF PerceptionTypeOK
  <2> QED  BY <2>1, <2>2, <2>3, <2>4, <2>5 DEF PerceptionTypeOK, Row
<1>2. CASE AnalyseAgain
  <2>1. PICK n \in DOMAIN images : queue' = Enqueued(images[n].id)
    BY <1>2 DEF AnalyseAgain
  <2>2. images[n].id \in Nat
    <3>1. images \in Seq([id : Nat, capture : BOOLEAN])
      BY DEF PerceptionTypeOK
    <3>2. images[n] \in [id : Nat, capture : BOOLEAN]
      BY <3>1, LenProperties, ElementOfSeq
    <3> QED  BY <3>2
  <2>3. queue' \in Seq(Nat) /\ Len(queue') <= 1
    <3>1. Enqueued(images[n].id) \in Seq(Nat) /\ Len(Enqueued(images[n].id)) = 1
      BY <2>2, OneWaits
    <3> QED  BY <2>1, <3>1
  <2>4. allowed' \in Shots
    BY <1>2, Used DEF AnalyseAgain
  <2> QED  BY <1>2, <2>3, <2>4 DEF AnalyseAgain, PerceptionTypeOK, ImagesInv
<1>3. CASE Second
  <2>1. allowed' \in Shots
    BY <1>3, Used DEF Second
  <2> QED  BY <1>3, <2>1 DEF Second, PerceptionTypeOK, ImagesInv
<1>4. CASE TakeImage
  <2>1. queue' = <<>> /\ queue' \in Seq(Nat) /\ Len(queue') <= 1
    BY <1>4 DEF TakeImage
  <2>2. Head(queue) \in Nat
    BY <1>4, HeadTailProperties DEF TakeImage, PerceptionTypeOK
  <2>3. worker' \in [pc : {"idle", "analyse", "handle"}, image : Nat,
                     pose : Pose \cup {Nobody}, listened : BOOLEAN, life : Nat]
    BY <1>4, <2>2 DEF TakeImage, PerceptionTypeOK
  <2>4. clock' \in Nat /\ UNCHANGED <<images, poses, reminders, tracker, smoother, log, allowed>>
    BY <1>4 DEF TakeImage, PerceptionTypeOK
  <2> QED  BY <2>1, <2>3, <2>4 DEF PerceptionTypeOK, ImagesInv
<1>5. CASE Remind
  <2>1. [time |-> clock, after |-> Len(log)] \in [time : Nat, after : Nat]
    BY LenProperties DEF PerceptionTypeOK
  <2>2. reminders' \in Seq([time : Nat, after : Nat])
    BY <1>5, <2>1 DEF Remind, PerceptionTypeOK
  <2>3. worker' \in [pc : {"idle", "analyse", "handle"}, image : Nat,
                     pose : Pose \cup {Nobody}, listened : BOOLEAN, life : Nat]
    BY <1>5 DEF Remind, PerceptionTypeOK
  <2> QED  BY <1>5, <2>2, <2>3 DEF Remind, PerceptionTypeOK, ImagesInv
<1>6. CASE PerceptionCrash
  <2>1. Unknown \in Observation
    BY DEF Unknown, Observation
  <2>2. tracker' \in [stable : BOOLEAN, misses : 0..Misses, hits : 0..Hits]
    BY <1>6 DEF PerceptionCrash, NewTracker, Misses, Hits
  <2>3. smoother' \in [stable : Observation, candidate : Observation, missing : 0..(Kept + 1)]
    BY <1>6, <2>1 DEF PerceptionCrash, NewSmoother, Kept
  <2>4. worker' \in [pc : {"idle", "analyse", "handle"}, image : Nat,
                     pose : Pose \cup {Nobody}, listened : BOOLEAN, life : Nat]
    <3>1. \E life \in Nat :
            worker' = [worker EXCEPT !.pc = "idle", !.pose = Nobody, !.life = life]
      <4>1. worker.life + 1 \in Nat
        BY DEF PerceptionTypeOK
      <4> QED  BY <1>6, <4>1 DEF PerceptionCrash
    <3> QED  BY <3>1 DEF PerceptionTypeOK
  <2>5. queue' \in Seq(Nat) /\ Len(queue') <= 1
    BY <1>6 DEF PerceptionCrash
  <2> QED  BY <1>6, <2>2, <2>3, <2>4, <2>5 DEF PerceptionCrash, PerceptionTypeOK, ImagesInv
<1>7. ASSUME NEW detection \in Detections, NEW sight \in Sights, Record(detection, sight)
      PROVE  PerceptionTypeOK' /\ ImagesInv'
  <2> DEFINE p == Result(detection, sight)
  <2>1. Seen(detection, sight, TRUE)
    BY <1>7 DEF Record
  <2>2. p \in Pose
    BY <2>1, ResultTypes
  <2>3. /\ poses' \subseteq poses \cup {p}
        /\ worker' = [worker EXCEPT !.pc = "handle", !.pose = p]
        /\ UNCHANGED <<clock, reminders, queue, allowed>>
    <3> HIDE DEF p
    <3> QED  BY <1>7 DEF Record, p
  <2> HIDE DEF p
  <2>4. images' \in Seq(Row) /\ ImagesInv'
    BY <1>7, RecordGrows, GrowthKeeps
  <2>5. \E entry \in LogEntry : log' = Append(log, entry)
    BY <2>1, ResultTypes
  <2>6. log' \in Seq(LogEntry)
    BY <2>5 DEF PerceptionTypeOK
  <2>7. worker' \in [pc : {"idle", "analyse", "handle"}, image : Nat,
                     pose : Pose \cup {Nobody}, listened : BOOLEAN, life : Nat]
    BY <2>2, <2>3 DEF PerceptionTypeOK
  <2>8. poses' \subseteq Pose
    BY <2>2, <2>3 DEF PerceptionTypeOK
  <2>9. /\ tracker' \in [stable : BOOLEAN, misses : 0..Misses, hits : 0..Hits]
        /\ smoother' \in [stable : Observation, candidate : Observation,
                          missing : 0..(Kept + 1)]
    BY <2>1, ResultTypes
  <2> QED  BY <2>3, <2>4, <2>6, <2>7, <2>8, <2>9 DEF PerceptionTypeOK, Row
<1>8. ASSUME NEW detection \in Detections, NEW sight \in Sights, Lose(detection, sight)
      PROVE  PerceptionTypeOK' /\ ImagesInv'
  <2>1. Seen(detection, sight, FALSE)
    BY <1>8 DEF Lose
  <2>2. \E entry \in LogEntry : log' = Append(log, entry)
    BY <2>1, ResultTypes
  <2>3. log' \in Seq(LogEntry)
    BY <2>2 DEF PerceptionTypeOK
  <2>4. worker' \in [pc : {"idle", "analyse", "handle"}, image : Nat,
                     pose : Pose \cup {Nobody}, listened : BOOLEAN, life : Nat]
    BY <1>8 DEF Lose, PerceptionTypeOK
  <2>5. /\ tracker' \in [stable : BOOLEAN, misses : 0..Misses, hits : 0..Hits]
        /\ smoother' \in [stable : Observation, candidate : Observation,
                          missing : 0..(Kept + 1)]
    BY <2>1, ResultTypes
  <2>6. allowed' \in Shots
    BY <1>8, Used DEF Lose, PerceptionTypeOK
  <2> QED  BY <1>8, <2>3, <2>4, <2>5, <2>6 DEF Lose, PerceptionTypeOK, ImagesInv
<1>9. ASSUME NEW listens \in BOOLEAN, NotDue(listens) PROVE PerceptionTypeOK' /\ ImagesInv'
  <2>1. worker' \in [pc : {"idle", "analyse", "handle"}, image : Nat,
                     pose : Pose \cup {Nobody}, listened : BOOLEAN, life : Nat]
    BY <1>9 DEF NotDue, PerceptionTypeOK
  <2> QED  BY <1>9, <2>1 DEF NotDue, PerceptionTypeOK, ImagesInv
<1>10. CASE UNCHANGED perceptionVars
  BY <1>10 DEF perceptionVars, PerceptionTypeOK, ImagesInv
<1> QED  BY <1>1, <1>2, <1>3, <1>4, <1>5, <1>6, <1>7, <1>8, <1>9, <1>10 DEF Moves

-----------------------------------------------------------------------------
(* Images are analysed in the order of their ids *)

QueueInv ==
  /\ queue # <<>> => Captured(Head(queue))
  /\ worker.pc = "analyse" =>
       /\ Captured(worker.image)
       /\ queue # <<>> => worker.image <= Head(queue)

LEMMA HeadWaits ==
  ASSUME PerceptionTypeOK, queue # <<>>
  PROVE  Head(queue) \in Nat
BY HeadTailProperties DEF PerceptionTypeOK

LEMMA CapturedStays ==
  ASSUME PerceptionTypeOK, ImagesInv, Moves, NEW id \in Nat, Captured(id)
  PROVE  Captured(id)'
<1>1. CASE UNCHANGED images
  BY <1>1 DEF Captured
<1>2. ASSUME NEW grown, NEW capture \in BOOLEAN, Growth(grown, capture)
      PROVE  Captured(id)'
  BY <1>2, GrowthKeeps
<1> QED  BY <1>1, <1>2, ImagesMove

(* A captured image is no newer than the newest capture.                   *)
LEMMA NewestCapture ==
  ASSUME PerceptionTypeOK, ImagesInv, NEW n \in DOMAIN images,
         \A m \in DOMAIN images : m > n => ~images[m].capture,
         NEW id \in Nat, Captured(id)
  PROVE  images[n].id \in Nat /\ id <= images[n].id
<1>1. images # <<>> /\ images \in Seq(Row)
  BY DEF Captured, PerceptionTypeOK, Row
<1>2. /\ Len(images) \in Nat \ {0} /\ DOMAIN images = 1..Len(images)
      /\ images[1].id \in Nat /\ images[Len(images)].id = images[1].id + (Len(images) - 1)
      /\ \A m \in 1..Len(images) : images[m] \in Row /\ images[m].id = images[1].id + (m - 1)
      /\ Ids(images) = images[1].id..images[Len(images)].id
  BY <1>1, IdsInterval DEF ImagesInv
<1>3. images[n].id \in Nat /\ images[n].id = images[1].id + (n - 1) /\ n \in 1..Len(images)
  BY <1>2 DEF Row
<1>4. CASE id \in Ids(images)
  <2>1. PICK m \in 1..Len(images) : images[m].id = id
    BY <1>2, <1>4 DEF Ids
  <2>2. images[m].capture
    BY <1>2, <2>1 DEF Captured
  <2>3. ~(m > n)
    BY <1>2, <2>2
  <2>4. id = images[1].id + (m - 1)
    BY <1>2, <2>1
  <2> QED  BY <1>2, <1>3, <2>3, <2>4
<1>5. CASE id \notin Ids(images)
  <2>1. id < images[1].id
    BY <1>2, <1>5 DEF Captured
  <2> QED  BY <1>2, <1>3, <2>1
<1> QED  BY <1>3, <1>4, <1>5

LEMMA QueueKept == PerceptionTypeOK /\ ImagesInv /\ QueueInv /\ Moves => QueueInv'
<1> SUFFICES ASSUME PerceptionTypeOK, ImagesInv, QueueInv, Moves PROVE QueueInv'
  OBVIOUS
<1>0. worker.image \in Nat
  BY DEF PerceptionTypeOK
<1>1. CASE Upload
  <2>1. /\ NextId \in Nat /\ \A id \in Nat : Captured(id) => Captured(id)' /\ id < NextId
        /\ \A id : id = NextId => Captured(id)'
    <3>1. Append(images, NextRow(TRUE)) # images
      <4>1. NextId \in Nat /\ images \in Seq(Row)
        BY NextIdType DEF PerceptionTypeOK, Row
      <4>2. NextRow(TRUE) \in Row
        BY <4>1 DEF Row, NextRow
      <4>3. Len(Append(images, NextRow(TRUE))) = Len(images) + 1 /\ Len(images) \in Nat
        BY <4>1, <4>2, LenProperties
      <4> SUFFICES ASSUME Append(images, NextRow(TRUE)) = images PROVE FALSE
        OBVIOUS
      <4> QED  BY <4>3
    <3> QED  BY <1>1, <3>1, UploadGrows, GrowthKeeps
  <2>2. queue' = Enqueued(NextId) /\ worker' = worker
    BY <1>1 DEF Upload
  <2>3. Head(queue') = NextId
    BY <2>1, <2>2, OneWaits
  <2>4. queue' # <<>> => Captured(Head(queue))'
    BY <2>1, <2>3 DEF Captured
  <2>5. worker.pc = "analyse" => Captured(worker.image)' /\ worker.image <= Head(queue')
    BY <1>0, <2>1, <2>2, <2>3 DEF QueueInv, Captured
  <2> QED  BY <2>2, <2>4, <2>5 DEF QueueInv
<1>2. CASE AnalyseAgain
  <2>1. PICK n \in DOMAIN images :
          /\ images[n].capture /\ \A m \in DOMAIN images : m > n => ~images[m].capture
          /\ queue' = Enqueued(images[n].id)
    BY <1>2 DEF AnalyseAgain
  <2>2. images' = images /\ worker' = worker
    BY <1>2 DEF AnalyseAgain
  <2>3. /\ images \in Seq(Row) /\ images # <<>> /\ DOMAIN images = 1..Len(images)
        /\ Len(images) \in Nat /\ images[1].id \in Nat
        /\ \A m \in 1..Len(images) : images[m].id = images[1].id + (m - 1)
    <3>1. images \in Seq(Row) /\ DOMAIN images = 1..Len(images) /\ images # <<>>
      <4>1. images \in Seq(Row)
        BY DEF PerceptionTypeOK, Row
      <4>2. DOMAIN images = 1..Len(images) /\ Len(images) \in Nat
        BY <4>1, LenProperties
      <4>3. images = <<>> => Len(images) = 0
        OBVIOUS
      <4> QED  BY <4>1, <4>2, <4>3, <2>1
    <3> QED  BY <3>1, IdsInterval DEF ImagesInv
  <2>4. images[n].id \in Nat /\ images[n].id <= images[Len(images)].id
    BY <2>3
  <2>5. \A m \in DOMAIN images : images[m].id = images[n].id => m = n
    BY <2>3
  <2>6. Head(queue') = images[n].id
    BY <2>1, <2>4, OneWaits
  <2>7. Captured(Head(queue))'
    BY <2>1, <2>2, <2>3, <2>4, <2>5, <2>6 DEF Captured
  <2>8. worker.pc = "analyse" => Captured(worker.image)' /\ worker.image <= Head(queue')
    <3>1. worker.pc = "analyse" => Captured(worker.image)
      BY DEF QueueInv
    <3>2. worker.pc = "analyse" => worker.image <= images[n].id
      BY <1>0, <2>1, <3>1, NewestCapture
    <3> QED  BY <2>2, <2>6, <3>1, <3>2 DEF Captured
  <2> QED  BY <2>2, <2>7, <2>8 DEF QueueInv
<1>3. CASE TakeImage
  <2>1. /\ images' = images /\ queue' = <<>> /\ queue # <<>> /\ worker.pc = "idle"
        /\ worker' = IF Head(queue) \in Ids(images)
                     THEN [worker EXCEPT !.pc = "analyse", !.image = Head(queue)]
                     ELSE worker
    BY <1>3 DEF TakeImage
  <2>2. worker'.pc = "analyse" => worker'.image = Head(queue)
    BY <2>1 DEF PerceptionTypeOK
  <2>3. worker'.pc = "analyse" => Captured(worker.image)'
    BY <2>1, <2>2 DEF QueueInv, Captured
  <2> QED  BY <2>1, <2>3 DEF QueueInv
<1>4. ASSUME NEW detection \in Detections, NEW sight \in Sights, Record(detection, sight)
      PROVE  QueueInv'
  <2>1. queue' = queue /\ worker'.pc = "handle"
    BY <1>4 DEF Record, PerceptionTypeOK
  <2>2. queue # <<>> => Captured(Head(queue))'
    <3>1. ASSUME queue # <<>>, NEW id, id = Head(queue) PROVE Captured(id)'
      BY <3>1, HeadWaits, CapturedStays DEF QueueInv
    <3> QED  BY <2>1, <3>1 DEF Captured
  <2> QED  BY <2>1, <2>2 DEF QueueInv
<1>5. CASE Second \/ UNCHANGED perceptionVars
  BY <1>5 DEF Second, perceptionVars, QueueInv, Captured
<1>6. CASE Remind \/ PerceptionCrash
  <2>1. images' = images /\ worker'.pc = "idle" /\ (queue' = queue \/ queue' = <<>>)
    BY <1>6 DEF Remind, PerceptionCrash, PerceptionTypeOK
  <2> QED  BY <2>1 DEF QueueInv, Captured
<1>7. ASSUME NEW detection \in Detections, NEW sight \in Sights, Lose(detection, sight)
      PROVE  QueueInv'
  <2>1. images' = images /\ worker'.pc = "idle" /\ queue' = queue
    BY <1>7 DEF Lose, PerceptionTypeOK
  <2> QED  BY <2>1 DEF QueueInv, Captured
<1>8. ASSUME NEW listens \in BOOLEAN, NotDue(listens) PROVE QueueInv'
  <2>1. images' = images /\ worker'.pc = "idle" /\ queue' = queue
    BY <1>8 DEF NotDue, PerceptionTypeOK
  <2> QED  BY <2>1 DEF QueueInv, Captured
<1> QED  BY <1>1, <1>2, <1>3, <1>4, <1>5, <1>6, <1>7, <1>8 DEF Moves

-----------------------------------------------------------------------------
(* The history of results *)

LEMMA LogTypes ==
  ASSUME PerceptionTypeOK
  PROVE  /\ Len(log) \in Nat /\ DOMAIN log = 1..Len(log)
         /\ \A n \in 1..Len(log) : /\ log[n] \in LogEntry
                                   /\ log[n].time \in Nat /\ log[n].life \in Nat
                                   /\ log[n].sight \in Sights
                                   /\ log[n].sitting \in BOOLEAN
                                   /\ log[n].stored \in BOOLEAN
<1>1. log \in Seq(LogEntry)
  BY DEF PerceptionTypeOK
<1>2. Len(log) \in Nat /\ DOMAIN log = 1..Len(log) /\ \A n \in 1..Len(log) : log[n] \in LogEntry
  BY <1>1, LenProperties, ElementOfSeq
<1> QED  BY <1>2 DEF LogEntry

Logged(entry) ==
  /\ entry \in LogEntry /\ Len(log') = Len(log) + 1 /\ DOMAIN log' = 1..(Len(log) + 1)
  /\ log'[Len(log) + 1] = entry /\ \A n \in 1..Len(log) : log'[n] = log[n]

(* What the worker saw is logged.                                          *)
LEMMA SeenLogged ==
  ASSUME PerceptionTypeOK, ImagesInv,
         NEW detection \in Detections, NEW sight \in Sights, NEW stored \in BOOLEAN,
         Seen(detection, sight, stored)
  PROVE  \E entry : /\ Logged(entry)
                    /\ entry.time = clock /\ entry.stored = stored
                    /\ entry.life = worker.life /\ entry.sight = sight
                    /\ entry.sitting = Result(detection, sight).sitting
                    /\ entry.posture = Reported(smoother', Classified(sight)).posture
<1>1. PICK entry \in LogEntry :
        /\ log' = Append(log, entry) /\ entry.time = clock /\ entry.stored = stored
        /\ entry.life = worker.life /\ entry.sight = sight
        /\ entry.sitting = Result(detection, sight).sitting
        /\ entry.posture = Reported(smoother', Classified(sight)).posture
  BY ResultTypes
<1>2. Len(log') = Len(log) + 1 /\ DOMAIN log' = 1..(Len(log) + 1)
      /\ log'[Len(log) + 1] = entry /\ \A n \in 1..Len(log) : log'[n] = log[n]
  <2>1. log \in Seq(LogEntry) /\ Len(log) \in Nat
    BY LogTypes DEF PerceptionTypeOK
  <2> QED  BY ONLY <1>1, <2>1
<1> QED  BY <1>1, <1>2 DEF Logged

(* Whatever the step, the history stays, or the worker has seen something. *)
LEMMA LogMoves ==
  ASSUME PerceptionTypeOK, ImagesInv, Moves
  PROVE  \/ log' = log
         \/ /\ worker.pc = "analyse" /\ worker'.pc \in {"handle", "idle"}
            /\ worker'.life = worker.life /\ clock' = clock /\ reminders' = reminders
            /\ \E entry : Logged(entry) /\ entry.time = clock /\ entry.life = worker.life
<1>1. ASSUME NEW detection \in Detections, NEW sight \in Sights,
             Record(detection, sight) \/ Lose(detection, sight)
      PROVE  /\ worker.pc = "analyse" /\ worker'.pc \in {"handle", "idle"}
             /\ worker'.life = worker.life /\ clock' = clock /\ reminders' = reminders
             /\ \E entry : Logged(entry) /\ entry.time = clock /\ entry.life = worker.life
  <2>1. \E stored \in BOOLEAN : Seen(detection, sight, stored)
    BY <1>1 DEF Record, Lose
  <2>2. \E entry : Logged(entry) /\ entry.time = clock /\ entry.life = worker.life
    BY <2>1, SeenLogged
  <2>3. /\ worker.pc = "analyse" /\ clock' = clock /\ reminders' = reminders
        /\ \E pc \in {"handle", "idle"} : \E pose : worker' = [worker EXCEPT !.pc = pc, !.pose = pose]
    BY <1>1 DEF Record, Lose
  <2>4. worker'.pc \in {"handle", "idle"} /\ worker'.life = worker.life
    BY <2>3 DEF PerceptionTypeOK
  <2> QED  BY <2>2, <2>3, <2>4
<1> QED
  BY <1>1 DEF Moves, Upload, AnalyseAgain, Second, TakeImage, Remind, PerceptionCrash, NotDue,
              perceptionVars

(* Results come one after the other, each analysis takes its time.         *)
ClockInv ==
  /\ \A m, n \in DOMAIN log : m < n => log[m].time < log[n].time
  /\ \A n \in DOMAIN log :
       log[n].time <= clock /\ (worker.pc = "analyse" => log[n].time < clock)

(* Time goes on before an image is analysed.                               *)
LEMMA TimeGoesOn ==
  ASSUME PerceptionTypeOK, Moves
  PROVE  /\ clock' \in Nat /\ clock <= clock'
         /\ worker'.pc = "analyse" => worker.pc = "analyse" \/ clock < clock'
<1>1. clock \in Nat
  BY DEF PerceptionTypeOK
<1>2. clock' \in {clock, clock + 1}
  BY DEF Moves, Upload, AnalyseAgain, Second, TakeImage, Remind, PerceptionCrash, Record, Lose,
         NotDue, perceptionVars
<1>3. worker'.pc = "analyse" => worker.pc = "analyse" \/ clock' = clock + 1
  BY DEF PerceptionTypeOK, Moves, Upload, AnalyseAgain, Second, TakeImage, Remind,
         PerceptionCrash, Record, Lose, NotDue, perceptionVars
<1> QED  BY <1>1, <1>2, <1>3

LEMMA ClockKept == PerceptionTypeOK /\ ImagesInv /\ ClockInv /\ Moves => ClockInv'
<1> SUFFICES ASSUME PerceptionTypeOK, ImagesInv, ClockInv, Moves PROVE ClockInv'
  OBVIOUS
<1>1. clock \in Nat /\ clock' \in Nat /\ clock <= clock'
      /\ (worker'.pc = "analyse" => worker.pc = "analyse" \/ clock < clock')
  BY TimeGoesOn DEF PerceptionTypeOK
<1>2. Len(log) \in Nat /\ DOMAIN log = 1..Len(log) /\ \A n \in 1..Len(log) : log[n].time \in Nat
  BY LogTypes
<1>3. CASE log' = log
  BY <1>1, <1>2, <1>3 DEF ClockInv
<1>4. ASSUME NEW entry, Logged(entry), entry.time = clock, worker.pc = "analyse",
             worker'.pc \in {"handle", "idle"}, clock' = clock
      PROVE  ClockInv'
  <2>1. \A n \in DOMAIN log' : n \in 1..Len(log) \/ n = Len(log) + 1
    BY <1>2, <1>4 DEF Logged
  <2>2. \A n \in 1..Len(log) : log'[n].time = log[n].time /\ log[n].time < clock
    BY <1>2, <1>4 DEF Logged, ClockInv
  <2>3. log'[Len(log) + 1].time = clock
    BY <1>4 DEF Logged
  <2>4. ASSUME NEW m \in DOMAIN log', NEW n \in DOMAIN log', m < n
        PROVE  log'[m].time < log'[n].time
    <3>1. m \in 1..Len(log)
      BY <1>2, <2>1, <2>4
    <3> QED  BY <1>1, <1>2, <2>1, <2>2, <2>3, <2>4, <3>1 DEF ClockInv
  <2>5. \A n \in DOMAIN log' : log'[n].time <= clock'
    BY <1>1, <1>2, <1>4, <2>1, <2>2, <2>3
  <2> QED  BY <1>4, <2>4, <2>5 DEF ClockInv
<1> QED  BY <1>3, <1>4, LogMoves

-----------------------------------------------------------------------------
(* The rows are the latest results *)

PoseOK(p) ==
  /\ p.image \in Ids(images) /\ Captured(p.image)
  /\ p.annotated # Nobody => p.annotated \in Ids(images) /\ p.image < p.annotated
  /\ queue # <<>> => p.image <= Head(queue)
  /\ worker.pc = "analyse" => p.image <= worker.image

PosesInv ==
  /\ \A p \in poses : PoseOK(p)
  /\ \A p, q \in poses : p.time <= q.time => p.image <= q.image
  /\ \A p, q \in poses : p.time = q.time => p = q

Tells(p, entry) ==
  entry.stored /\ entry.time = p.time /\ entry.sitting = p.sitting

(* The rows are the latest stored results: pruning takes the oldest.       *)
RowsInv ==
  /\ \A p \in poses : \E n \in DOMAIN log : Tells(p, log[n])
  /\ \A p \in poses : \A n \in DOMAIN log :
       log[n].stored /\ p.time <= log[n].time => \E q \in poses : q.time = log[n].time
  /\ worker.pc = "handle" =>
       /\ log # <<>> /\ Tells(worker.pose, log[Len(log)])
       /\ \A q \in poses : q.time = worker.pose.time => q = worker.pose

LEMMA PoseTypes ==
  ASSUME PerceptionTypeOK, NEW p \in Pose
  PROVE  /\ p.image \in Nat /\ p.time \in Nat /\ p.annotated \in Nat \cup {Nobody}
         /\ Nobody \notin Nat /\ p.sitting \in BOOLEAN
BY PerceptionAssumption DEF Pose

LEMMA PosesKept ==
  PerceptionTypeOK /\ ImagesInv /\ QueueInv /\ PosesInv /\ ClockInv /\ RowsInv /\ Moves
    => PosesInv'
<1> SUFFICES ASSUME PerceptionTypeOK, ImagesInv, QueueInv, PosesInv, ClockInv, RowsInv, Moves
             PROVE  PosesInv'
  OBVIOUS
<1>1. /\ \A p \in poses : p \in Pose /\ PoseOK(p) /\ p.image \in Nat /\ p.time \in Nat
      /\ worker.image \in Nat
  BY PoseTypes DEF PosesInv, PerceptionTypeOK
<1>2. CASE Upload
  <2>1. /\ poses' = {p \in poses : Shown(images', p)} /\ queue' = Enqueued(NextId)
        /\ worker' = worker
    BY <1>2 DEF Upload
  <2>2. /\ NextId \in Nat /\ \A id \in Nat : Captured(id) => Captured(id)' /\ id < NextId
    BY <1>2, UploadGrows, GrowthKeeps
  <2>3. Head(queue') = NextId
    BY <2>1, <2>2, OneWaits
  <2>4. ASSUME NEW p \in poses' PROVE PoseOK(p)'
    <3>1. p \in poses /\ Shown(images', p) /\ PoseOK(p) /\ p.image \in Nat
      BY <1>1, <2>1
    <3>2. p.image \in Ids(images)' /\ Captured(p.image)' /\ p.image <= NextId
      BY <2>2, <3>1 DEF Shown, PoseOK, Ids
    <3>3. p.annotated # Nobody => p.annotated \in Ids(images)' /\ p.image < p.annotated
      BY <3>1 DEF Shown, PoseOK, Ids
    <3> QED  BY <2>1, <2>3, <3>1, <3>2, <3>3 DEF PoseOK
  <2> QED  BY <2>1, <2>4 DEF PosesInv
<1>3. ASSUME NEW detection \in Detections, NEW sight \in Sights, Record(detection, sight)
      PROVE  PosesInv'
  <2> DEFINE r == Result(detection, sight)
  <2>1. /\ worker.pc = "analyse" /\ worker'.pc = "handle" /\ queue' = queue
        /\ r.image = worker.image /\ r.time = clock
    BY <1>3 DEF Record, Result, PerceptionTypeOK
  <2>2. poses' = {q \in poses \cup {r} : Shown(images', q)}
    <3> HIDE DEF r
    <3> QED  BY <1>3 DEF Record, r
  <2>3. PICK grown : /\ Growth(grown, FALSE)
                     /\ grown = images => r.annotated = Nobody
                     /\ grown # images => r.annotated = NextId
    BY <1>3, RecordGrows
  <2>4. /\ NextId \in Nat /\ \A id \in Nat : Captured(id) => Captured(id)' /\ id < NextId
    BY <2>3, GrowthKeeps
  <2>5. r.annotated \in {NextId, Nobody}
    BY <2>3
  <2> HIDE DEF r
  <2>6. ASSUME NEW p \in poses' PROVE PoseOK(p)'
    <3>1. Shown(images', p)
      BY <2>2
    <3>2. CASE p \in poses
      <4>1. PoseOK(p) /\ p.image \in Nat
        BY <1>1, <3>2
      <4>2. p.image \in Ids(images)' /\ Captured(p.image)'
        BY <2>4, <3>1, <4>1 DEF Shown, PoseOK, Ids
      <4>3. p.annotated # Nobody => p.annotated \in Ids(images)' /\ p.image < p.annotated
        BY <3>1, <4>1 DEF Shown, PoseOK, Ids
      <4> QED  BY <2>1, <4>1, <4>2, <4>3 DEF PoseOK
    <3>3. CASE p = r
      <4>1. p.image = worker.image /\ p.image \in Nat /\ Captured(p.image)
        BY <1>1, <2>1, <3>3 DEF QueueInv
      <4>2. p.image \in Ids(images)' /\ Captured(p.image)' /\ p.image < NextId
        BY <2>4, <3>1, <4>1 DEF Shown, Ids
      <4>3. p.annotated # Nobody => p.annotated \in Ids(images)' /\ p.image < p.annotated
        BY <2>5, <3>1, <3>3, <4>2 DEF Shown, Ids
      <4>4. queue' # <<>> => p.image <= Head(queue')
        BY <2>1, <4>1 DEF QueueInv
      <4> QED  BY <2>1, <4>2, <4>3, <4>4 DEF PoseOK
    <3> QED  BY <2>2, <3>2, <3>3
  <2>7. \A p \in poses : p.time < r.time /\ p.image <= r.image
    <3>1. ASSUME NEW p \in poses PROVE p.time < clock
      <4>1. PICK n \in DOMAIN log : Tells(p, log[n])
        BY DEF RowsInv
      <4> QED  BY <2>1, <4>1 DEF Tells, ClockInv
    <3> QED  BY <1>1, <2>1, <3>1 DEF PoseOK
  <2>8. r.time \in Nat /\ r.image \in Nat
    BY <2>1 DEF PerceptionTypeOK
  <2>9. \A p, q \in poses' : p.time <= q.time => p.image <= q.image
    BY <1>1, <2>2, <2>7, <2>8 DEF PosesInv
  <2>10. \A p, q \in poses' : p.time = q.time => p = q
    BY <1>1, <2>2, <2>7, <2>8 DEF PosesInv
  <2> QED  BY <2>6, <2>9, <2>10 DEF PosesInv
<1>4. CASE AnalyseAgain
  <2>1. PICK n \in DOMAIN images :
          /\ images[n].capture /\ \A m \in DOMAIN images : m > n => ~images[m].capture
          /\ queue' = Enqueued(images[n].id)
    BY <1>4 DEF AnalyseAgain
  <2>2. UNCHANGED <<images, poses, worker>>
    BY <1>4 DEF AnalyseAgain
  <2>3. ASSUME NEW p \in poses PROVE PoseOK(p)'
    <3>1. PoseOK(p) /\ p.image \in Nat
      BY <1>1
    <3>2. images[n].id \in Nat /\ p.image <= images[n].id
      BY <2>1, <3>1, NewestCapture DEF PoseOK
    <3>3. Head(queue') = images[n].id
      BY <2>1, <3>2, OneWaits
    <3> QED  BY <2>2, <3>1, <3>2, <3>3 DEF PoseOK, Ids, Captured
  <2> QED  BY <2>2, <2>3 DEF PosesInv
<1>5. CASE TakeImage
  <2>1. /\ UNCHANGED <<images, poses>> /\ queue' = <<>> /\ queue # <<>> /\ worker.pc = "idle"
        /\ worker' = IF Head(queue) \in Ids(images)
                     THEN [worker EXCEPT !.pc = "analyse", !.image = Head(queue)]
                     ELSE worker
    BY <1>5 DEF TakeImage
  <2>2. worker'.pc = "analyse" => worker'.image = Head(queue)
    BY <2>1 DEF PerceptionTypeOK
  <2>3. ASSUME NEW p \in poses PROVE PoseOK(p)'
    BY <1>1, <2>1, <2>2 DEF PoseOK, Ids, Captured
  <2> QED  BY <2>1, <2>3 DEF PosesInv
<1>6. CASE /\ UNCHANGED <<images, poses>> /\ queue' \in {queue, <<>>}
           /\ worker' = worker \/ worker'.pc = "idle"
  <2>1. ASSUME NEW p \in poses PROVE PoseOK(p)'
    BY <1>1, <1>6 DEF PoseOK, Ids, Captured
  <2> QED  BY <1>6, <2>1 DEF PosesInv
<1>7. CASE Second \/ Remind \/ PerceptionCrash \/ UNCHANGED perceptionVars
           \/ \E listens \in BOOLEAN : NotDue(listens)
  <2>1. /\ UNCHANGED <<images, poses>> /\ queue' \in {queue, <<>>}
        /\ worker' = worker \/ worker'.pc = "idle"
    BY <1>7 DEF Second, Remind, PerceptionCrash, NotDue, perceptionVars, PerceptionTypeOK
  <2> QED  BY <1>6, <2>1
<1>8. ASSUME NEW detection \in Detections, NEW sight \in Sights, Lose(detection, sight)
      PROVE  PosesInv'
  <2>1. UNCHANGED <<images, poses, queue>> /\ worker'.pc = "idle"
    BY <1>8 DEF Lose, PerceptionTypeOK
  <2> QED  BY <1>6, <2>1
<1> QED  BY <1>2, <1>3, <1>4, <1>5, <1>7, <1>8 DEF Moves

(* Pruning that leaves a row leaves those of later images.                 *)
LEMMA LaterRowsStay ==
  ASSUME PerceptionTypeOK, ImagesInv, NEW grown, NEW capture \in BOOLEAN,
         Growth(grown, capture), NEW first \in Ids(images'), first \in Nat,
         NEW q \in Pose, PoseOK(q), first <= q.image
  PROVE  Shown(images', q)
<1>1. \A id \in Ids(images) : first <= id => id \in Ids(images')
  BY GrowthKeeps
<1>2. q.image \in Nat /\ q.image \in Ids(images) /\ q.annotated \in Nat \cup {Nobody}
  BY PoseTypes DEF PoseOK
<1>3. q.image \in Ids(images')
  BY <1>1, <1>2
<1>4. q.annotated # Nobody => q.annotated \in Ids(images')
  BY <1>1, <1>2 DEF PoseOK
<1> QED  BY <1>3, <1>4 DEF Shown

LEMMA RowsKept ==
  PerceptionTypeOK /\ ImagesInv /\ QueueInv /\ PosesInv /\ ClockInv /\ RowsInv /\ Moves
    => RowsInv'
<1> SUFFICES ASSUME PerceptionTypeOK, ImagesInv, QueueInv, PosesInv, ClockInv, RowsInv, Moves
             PROVE  RowsInv'
  OBVIOUS
<1>1. /\ \A p \in poses : p \in Pose /\ PoseOK(p) /\ p.image \in Nat /\ p.time \in Nat
      /\ worker.image \in Nat /\ clock \in Nat
  BY PoseTypes DEF PosesInv, PerceptionTypeOK
<1>2. Len(log) \in Nat /\ DOMAIN log = 1..Len(log) /\ \A n \in 1..Len(log) : log[n].time \in Nat
  BY LogTypes
<1>3. CASE Upload
  <2>1. /\ poses' = {p \in poses : Shown(images', p)} /\ UNCHANGED <<worker, log>>
    BY <1>3 DEF Upload
  <2>2. Growth(Append(images, NextRow(TRUE)), TRUE)
    BY <1>3, UploadGrows
  <2>3. ASSUME NEW p \in poses', NEW n \in DOMAIN log, log[n].stored, p.time <= log[n].time
        PROVE  \E q \in poses' : q.time = log[n].time
    <3>1. p \in poses /\ Shown(images', p)
      BY <2>1
    <3>2. PICK q \in poses : q.time = log[n].time
      BY <2>3, <3>1 DEF RowsInv
    <3>3. p.image <= q.image
      BY <2>3, <3>1, <3>2 DEF PosesInv
    <3>4. p.image \in Ids(images') /\ p.image \in Nat /\ q \in Pose /\ PoseOK(q)
      BY <1>1, <3>1 DEF Shown
    <3>5. Shown(images', q)
      BY <2>2, <3>3, <3>4, LaterRowsStay
    <3> QED  BY <2>1, <3>2, <3>5
  <2> QED  BY <2>1, <2>3 DEF RowsInv, Tells
<1>4. ASSUME NEW detection \in Detections, NEW sight \in Sights, Record(detection, sight)
      PROVE  RowsInv'
  <2> DEFINE r == Result(detection, sight)
  <2>1. /\ worker.pc = "analyse" /\ worker'.pc = "handle" /\ worker'.pose = r
        /\ r.image = worker.image /\ r.time = clock /\ worker.image \in Ids(images)
        /\ Seen(detection, sight, TRUE)
    <3>1. r.image = worker.image /\ r.time = clock
      BY DEF Result
    <3> HIDE DEF r
    <3>2. worker.pc = "analyse" /\ worker' = [worker EXCEPT !.pc = "handle", !.pose = r]
      BY <1>4 DEF Record, r
    <3>3. worker'.pc = "handle" /\ worker'.pose = r
      BY <3>2 DEF PerceptionTypeOK
    <3> QED  BY <1>4, <3>1, <3>2, <3>3 DEF Record
  <2>2. poses' = {q \in poses \cup {r} : Shown(images', q)}
    <3> HIDE DEF r
    <3> QED  BY <1>4 DEF Record, r
  <2>3. PICK grown : /\ Growth(grown, FALSE)
                     /\ grown = images => r.annotated = Nobody
                     /\ grown # images => r.annotated = NextId
    BY <1>4, RecordGrows
  <2>4. PICK entry : /\ Logged(entry) /\ entry.time = clock /\ entry.stored
                     /\ entry.sitting = r.sitting
    <3>1. PICK stored \in BOOLEAN : stored
      OBVIOUS
    <3>2. Seen(detection, sight, stored)
      BY <2>1, <3>1
    <3>3. \E entry : /\ Logged(entry) /\ entry.time = clock /\ entry.stored = stored
                     /\ entry.sitting = Result(detection, sight).sitting
      BY <3>2, SeenLogged
    <3> QED  BY <3>1, <3>3
  <2>5. r \in Pose
    BY <2>1, ResultTypes
  <2> HIDE DEF r
  <2>6. Tells(r, entry)
    BY <2>1, <2>4 DEF Tells
  <2>7. \A p \in poses : p.time < r.time /\ p.image <= r.image
    <3>1. ASSUME NEW p \in poses PROVE p.time < clock
      <4>1. PICK n \in DOMAIN log : Tells(p, log[n])
        BY DEF RowsInv
      <4> QED  BY <2>1, <4>1 DEF Tells, ClockInv
    <3> QED  BY <1>1, <2>1, <3>1 DEF PoseOK
  <2>8. \A n \in DOMAIN log' : n \in 1..Len(log) \/ n = Len(log) + 1
    BY <1>2, <2>4 DEF Logged
  <2>9. \A p \in poses' : \E n \in DOMAIN log' : Tells(p, log'[n])
    <3>1. Tells(r, log'[Len(log) + 1]) /\ Len(log) + 1 \in DOMAIN log'
      BY <1>2, <2>4, <2>6 DEF Logged
    <3>2. ASSUME NEW p \in poses PROVE \E n \in DOMAIN log' : Tells(p, log'[n])
      <4>1. PICK n \in 1..Len(log) : Tells(p, log[n])
        BY <1>2 DEF RowsInv
      <4>2. n \in DOMAIN log' /\ log'[n] = log[n]
        BY <1>2, <2>4 DEF Logged
      <4> QED  BY <4>1, <4>2
    <3> QED  BY <2>2, <3>1, <3>2
  <2>10. ASSUME NEW p \in poses', p \in poses PROVE Shown(images', r)
    <3>1. /\ \A id \in Ids(images), first \in Ids(images') : first <= id => id \in Ids(images')
          /\ grown # images => NextId \in Ids(images')
      BY <2>3, GrowthKeeps
    <3>2. p.image \in Ids(images') /\ p.image <= r.image
      BY <2>2, <2>7, <2>10 DEF Shown
    <3>3. r.image \in Ids(images') /\ r.annotated \in Ids(images') \cup {Nobody}
      BY <2>1, <2>3, <3>1, <3>2
    <3> QED  BY <3>3 DEF Shown
  <2>11. ASSUME NEW p \in poses', NEW n \in DOMAIN log', log'[n].stored,
                p.time <= log'[n].time
         PROVE  \E q \in poses' : q.time = log'[n].time
    <3>1. CASE p \notin poses
      <4>1. p = r
        BY <2>2, <3>1
      <4>2. CASE n = Len(log) + 1
        <5>1. log'[n].time = r.time
          BY <2>1, <2>4, <4>2 DEF Logged
        <5> QED  BY <4>1, <5>1
      <4>3. CASE n \in 1..Len(log)
        <5>1. log'[n].time < clock
          BY <1>2, <2>1, <2>4, <4>3 DEF Logged, ClockInv
        <5>2. log'[n].time \in Nat
          BY <1>2, <2>4, <4>3 DEF Logged
        <5> QED  BY <1>1, <2>1, <2>11, <4>1, <5>1, <5>2
      <4> QED  BY <2>8, <4>2, <4>3
    <3>2. CASE p \in poses
      <4>1. Shown(images', p) /\ p.image \in Ids(images') /\ p.image \in Nat
        BY <1>1, <2>2, <3>2 DEF Shown
      <4>2. CASE n = Len(log) + 1
        <5>1. log'[n].time = r.time
          BY <2>1, <2>4, <4>2 DEF Logged
        <5>2. r \in poses'
          BY <2>2, <2>10, <3>2
        <5> QED  BY <5>1, <5>2
      <4>3. CASE n \in 1..Len(log)
        <5>1. log'[n] = log[n] /\ n \in DOMAIN log
          BY <1>2, <2>4, <4>3 DEF Logged
        <5>2. PICK q \in poses : q.time = log[n].time
          BY <2>11, <3>2, <5>1 DEF RowsInv
        <5>3. p.image <= q.image
          BY <2>11, <3>2, <5>1, <5>2 DEF PosesInv
        <5>4. q \in Pose /\ PoseOK(q)
          BY <1>1
        <5>5. Shown(images', q)
          BY <2>3, <4>1, <5>3, <5>4, LaterRowsStay
        <5> QED  BY <2>2, <5>1, <5>2, <5>5
      <4> QED  BY <2>8, <4>2, <4>3
    <3> QED  BY <3>1, <3>2
  <2>12. /\ log' # <<>> /\ Tells(r, log'[Len(log')])
         /\ \A q \in poses' : q.time = r.time => q = r
    <3>1. log' # <<>>
      <4>1. Len(log') # 0
        BY <1>2, <2>4 DEF Logged
      <4> QED  BY <4>1
    <3>2. \A q \in poses' : q.time = r.time => q = r
      <4>1. r.time \in Nat
        BY <2>5, PoseTypes
      <4> QED  BY <1>1, <2>2, <2>7, <4>1
    <3> QED  BY <2>4, <2>6, <3>1, <3>2 DEF Logged
  <2> QED  BY <2>1, <2>9, <2>11, <2>12 DEF RowsInv, Tells
<1>5. ASSUME NEW detection \in Detections, NEW sight \in Sights, Lose(detection, sight)
      PROVE  RowsInv'
  <2>1. poses' = poses /\ worker'.pc = "idle" /\ Seen(detection, sight, FALSE)
    BY <1>5 DEF Lose, PerceptionTypeOK
  <2>2. PICK entry : Logged(entry) /\ entry.stored = FALSE
    BY <2>1, SeenLogged
  <2>3. ASSUME NEW p \in poses PROVE \E n \in DOMAIN log' : Tells(p, log'[n])
    <3>1. PICK n \in 1..Len(log) : Tells(p, log[n])
      BY <1>2 DEF RowsInv
    <3>2. n \in DOMAIN log' /\ log'[n] = log[n]
      BY <1>2, <2>2 DEF Logged
    <3> QED  BY <3>1, <3>2
  <2>4. ASSUME NEW p \in poses, NEW n \in DOMAIN log', log'[n].stored, p.time <= log'[n].time
        PROVE  \E q \in poses : q.time = log'[n].time
    <3>1. n \in DOMAIN log /\ log'[n] = log[n]
      BY <1>2, <2>2, <2>4 DEF Logged
    <3> QED  BY <2>4, <3>1 DEF RowsInv
  <2> QED  BY <2>1, <2>3, <2>4 DEF RowsInv, Tells
<1>6. CASE UNCHANGED <<poses, log>> /\ (worker' = worker \/ worker'.pc # "handle")
  BY <1>6 DEF RowsInv, Tells
<1>7. CASE AnalyseAgain \/ Second \/ TakeImage \/ Remind \/ PerceptionCrash
           \/ UNCHANGED perceptionVars \/ \E listens \in BOOLEAN : NotDue(listens)
  <2>1. UNCHANGED <<poses, log>> /\ (worker' = worker \/ worker'.pc \in {"idle", "analyse"})
    BY <1>7 DEF AnalyseAgain, Second, TakeImage, Remind, PerceptionCrash, NotDue,
                perceptionVars, PerceptionTypeOK
  <2> QED  BY <1>6, <2>1
<1> QED  BY <1>3, <1>4, <1>5, <1>7 DEF Moves

RemindersInv ==
  \A r \in DOMAIN reminders :
    /\ reminders[r].after \in 1..Len(log)
    /\ reminders[r].time <= clock
    /\ worker.pc = "analyse" => reminders[r].time < clock
    /\ worker.pc = "handle" => reminders[r].time < worker.pose.time

LEMMA ReminderTypes ==
  ASSUME PerceptionTypeOK
  PROVE  /\ Len(reminders) \in Nat /\ DOMAIN reminders = 1..Len(reminders)
         /\ \A r \in 1..Len(reminders) : reminders[r].time \in Nat /\ reminders[r].after \in Nat
<1>1. reminders \in Seq([time : Nat, after : Nat])
  BY DEF PerceptionTypeOK
<1>2. /\ Len(reminders) \in Nat /\ DOMAIN reminders = 1..Len(reminders)
      /\ \A r \in 1..Len(reminders) : reminders[r] \in [time : Nat, after : Nat]
  BY <1>1, LenProperties, ElementOfSeq
<1> QED  BY <1>2

(* The new reminder is the last, and of now.                               *)
LEMMA RemindAppends ==
  ASSUME PerceptionTypeOK, Remind
  PROVE  /\ Len(reminders') = Len(reminders) + 1 /\ DOMAIN reminders' = 1..(Len(reminders) + 1)
         /\ reminders'[Len(reminders) + 1].time = clock
         /\ reminders'[Len(reminders) + 1].after = Len(log)
         /\ \A r \in 1..Len(reminders) : reminders'[r] = reminders[r]
<1> DEFINE new == [time |-> clock, after |-> Len(log)]
<1>1. new \in [time : Nat, after : Nat] /\ new.time = clock /\ new.after = Len(log)
  BY LogTypes DEF PerceptionTypeOK
<1>2. reminders \in Seq([time : Nat, after : Nat]) /\ Len(reminders) \in Nat
  BY ReminderTypes DEF PerceptionTypeOK
<1>3. reminders' = Append(reminders, new)
  BY DEF Remind
<1> HIDE DEF new
<1>4. /\ Len(reminders') = Len(reminders) + 1 /\ DOMAIN reminders' = 1..(Len(reminders) + 1)
      /\ reminders'[Len(reminders) + 1] = new
      /\ \A r \in 1..Len(reminders) : reminders'[r] = reminders[r]
  BY ONLY <1>1, <1>2, <1>3
<1> QED  BY <1>1, <1>4

LEMMA RemindersKept ==
  PerceptionTypeOK /\ ImagesInv /\ RowsInv /\ RemindersInv /\ Moves => RemindersInv'
<1> SUFFICES ASSUME PerceptionTypeOK, ImagesInv, RowsInv, RemindersInv, Moves
             PROVE  RemindersInv'
  OBVIOUS
<1>1. /\ Len(reminders) \in Nat /\ DOMAIN reminders = 1..Len(reminders)
      /\ \A r \in 1..Len(reminders) : reminders[r].time \in Nat /\ reminders[r].after \in Nat
  BY ReminderTypes
<1>2. /\ clock \in Nat /\ clock' \in Nat /\ clock <= clock'
      /\ worker'.pc = "analyse" => worker.pc = "analyse" \/ clock < clock'
  BY TimeGoesOn DEF PerceptionTypeOK
<1>3. Len(log) \in Nat /\ Len(log') \in Nat /\ Len(log) <= Len(log')
  <2>1. Len(log) \in Nat
    BY LogTypes
  <2>2. log' = log \/ Len(log') = Len(log) + 1
    BY LogMoves DEF Logged
  <2> QED  BY <2>1, <2>2
<1>4. CASE Remind
  <2>1. worker'.pc = "idle" /\ log' = log /\ clock' = clock /\ worker.pc = "handle"
    BY <1>4 DEF Remind, PerceptionTypeOK
  <2>2. Len(log) \in 1..Len(log)
    <3>1. log = <<>> <=> Len(log) = 0
      <4>1. log \in Seq(LogEntry)
        BY DEF PerceptionTypeOK
      <4> QED  BY <4>1, EmptySeq
    <3> QED  BY <1>3, <2>1, <3>1 DEF RowsInv
  <2>3. ASSUME NEW r \in DOMAIN reminders'
        PROVE  reminders'[r].after \in 1..Len(log) /\ reminders'[r].time <= clock
    <3>1. CASE r \in 1..Len(reminders)
      BY <1>1, <1>4, <3>1, RemindAppends DEF RemindersInv
    <3>2. CASE r = Len(reminders) + 1
      BY <1>2, <1>4, <2>2, <3>2, RemindAppends
    <3> QED  BY <1>1, <1>4, <3>1, <3>2, RemindAppends
  <2> QED  BY <2>1, <2>3 DEF RemindersInv
<1>5. CASE reminders' = reminders /\ (worker' = worker \/ worker'.pc # "handle")
  <2>1. ASSUME NEW r \in DOMAIN reminders
        PROVE  /\ reminders[r].after \in 1..Len(log') /\ reminders[r].time <= clock'
               /\ worker'.pc = "analyse" => reminders[r].time < clock'
               /\ worker'.pc = "handle" => reminders[r].time < worker'.pose.time
    <3>1. /\ reminders[r].after \in 1..Len(log) /\ reminders[r].time <= clock
          /\ worker.pc = "analyse" => reminders[r].time < clock
          /\ worker.pc = "handle" => reminders[r].time < worker.pose.time
          /\ reminders[r].time \in Nat
      BY <1>1 DEF RemindersInv
    <3>2. /\ reminders[r].after \in 1..Len(log') /\ reminders[r].time <= clock'
          /\ worker'.pc = "analyse" => reminders[r].time < clock'
      BY <1>2, <1>3, <3>1
    <3>3. worker'.pc = "handle" => reminders[r].time < worker'.pose.time
      BY <1>5, <3>1
    <3> QED  BY <3>2, <3>3
  <2> QED  BY <1>5, <2>1 DEF RemindersInv
<1>6. ASSUME NEW detection \in Detections, NEW sight \in Sights, Record(detection, sight)
      PROVE  RemindersInv'
  <2> DEFINE p == Result(detection, sight)
  <2>1. worker.pc = "analyse" /\ reminders' = reminders /\ clock' = clock
    BY <1>6 DEF Record
  <2>2. worker'.pc = "handle" /\ worker'.pose = p
    <3> HIDE DEF p
    <3> QED  BY <1>6 DEF Record, PerceptionTypeOK, p
  <2>3. p.time = clock
    BY DEF Result
  <2> HIDE DEF p
  <2>4. \A r \in DOMAIN reminders : reminders[r].after \in 1..Len(log')
    BY <1>1, <1>3 DEF RemindersInv
  <2> QED  BY <2>1, <2>2, <2>3, <2>4 DEF RemindersInv
<1>7. ASSUME NEW detection \in Detections, NEW sight \in Sights, Lose(detection, sight)
      PROVE  RemindersInv'
  <2>1. reminders' = reminders /\ worker'.pc = "idle"
    BY <1>7 DEF Lose, PerceptionTypeOK
  <2> QED  BY <1>5, <2>1
<1>8. CASE Upload \/ AnalyseAgain \/ Second \/ TakeImage \/ PerceptionCrash
           \/ UNCHANGED perceptionVars \/ \E listens \in BOOLEAN : NotDue(listens)
  <2>1. reminders' = reminders /\ (worker' = worker \/ worker'.pc \in {"idle", "analyse"})
    BY <1>8 DEF Upload, AnalyseAgain, Second, TakeImage, PerceptionCrash, NotDue,
                perceptionVars, PerceptionTypeOK
  <2> QED  BY <1>5, <2>1
<1> QED  BY <1>4, <1>6, <1>7, <1>8 DEF Moves

-----------------------------------------------------------------------------
(* The posture that stands was seen twice in a row *)

(* What is reported is what stood before, or the candidate that was seen   *)
(* once more, or nothing.                                                  *)
LEMMA SmoothedStep ==
  ASSUME PerceptionTypeOK, NEW o \in Observation, NEW s, s = Smoothed(smoother, o)
  PROVE  /\ s.candidate # Unknown => s.candidate = o
         /\ \/ Reported(s, o).posture = "unknown" /\ s.stable = smoother.stable
            \/ /\ smoother.stable # Unknown /\ s.stable = smoother.stable
               /\ Reported(s, o).posture = s.stable.posture
            \/ /\ smoother.candidate # Unknown /\ o = smoother.candidate /\ s.stable = o
               /\ o.posture # "unknown" /\ Reported(s, o).posture = o.posture
<1>1. /\ smoother \in [stable : Observation, candidate : Observation, missing : 0..3]
      /\ Unknown.posture = "unknown" /\ [o EXCEPT !.posture = "unknown"].posture = "unknown"
  BY DEF PerceptionTypeOK, Kept, Unknown, Observation
<1>2. CASE o.posture = "unknown"
  <2>1. \E m : s = [smoother EXCEPT !.candidate = Unknown, !.missing = m]
    BY <1>2 DEF Smoothed
  <2>2. s.stable = smoother.stable /\ s.candidate = Unknown
    BY <1>1, <2>1
  <2>3. CASE s.stable # Unknown /\ s.missing <= Kept
    <3>1. Reported(s, o) = s.stable
      BY <2>3 DEF Reported
    <3> QED  BY <2>2, <2>3, <3>1
  <2>4. CASE ~(s.stable # Unknown /\ s.missing <= Kept)
    <3>1. Reported(s, o) = [o EXCEPT !.posture = "unknown"]
      BY <2>4 DEF Reported
    <3> QED  BY <1>1, <2>2, <3>1
  <2> QED  BY <2>3, <2>4
<1>3. CASE o.posture # "unknown" /\ o \in {smoother.stable, smoother.candidate}
  <2>1. s.stable = o /\ s.candidate = Unknown /\ s.missing = 0
    BY <1>3 DEF Smoothed
  <2>2. o # Unknown
    BY <1>1, <1>3
  <2>3. Reported(s, o) = o
    BY <2>1, <2>2 DEF Reported, Kept
  <2> QED  BY <1>3, <2>1, <2>2, <2>3
<1>4. CASE o.posture # "unknown" /\ o \notin {smoother.stable, smoother.candidate}
  <2>1. s = [smoother EXCEPT !.candidate = o, !.missing = 0]
    BY <1>4 DEF Smoothed
  <2>2. s.stable = smoother.stable /\ s.candidate = o /\ s.missing = 0
    BY <1>1, <2>1
  <2>3. CASE s.stable # Unknown
    <3>1. Reported(s, o) = s.stable
      BY <2>2, <2>3 DEF Reported, Kept
    <3> QED  BY <2>2, <2>3, <3>1
  <2>4. CASE s.stable = Unknown
    <3>1. Reported(s, o) = [o EXCEPT !.posture = "unknown"]
      BY <2>4 DEF Reported
    <3> QED  BY <1>1, <2>2, <3>1
  <2> QED  BY <2>3, <2>4
<1> QED  BY <1>2, <1>3, <1>4

LivesInv ==
  /\ \A m, n \in DOMAIN log : m <= n => log[m].life <= log[n].life
  /\ \A n \in DOMAIN log : log[n].life <= worker.life

(* The results since the worker began, and those that tell a posture.      *)
Current(n) == log[n].life = worker.life
Known == {n \in DOMAIN log : Current(n) /\ log[n].posture # "unknown"}

SmootherInv ==
  /\ smoother.stable # Unknown =>
       /\ smoother.stable.posture # "unknown"
       /\ \E n \in Known : /\ \A m \in Known : m <= n
                           /\ log[n].posture = smoother.stable.posture
  /\ smoother.candidate # Unknown =>
       /\ log # <<>> /\ Current(Len(log))
       /\ Classified(log[Len(log)].sight) = smoother.candidate

KnownBefore(n) == {m \in 1..(n - 1) : Same(m, n) /\ log[m].posture # "unknown"}

Confirmed(n) ==
  log[n].posture # "unknown"
    /\ (\A m \in KnownBefore(n) :
          (\A k \in KnownBefore(n) : k <= m) => log[m].posture # log[n].posture)
  => /\ n > 1 /\ Same(n - 1, n)
     /\ \A m \in {n - 1, n} : Classified(log[m].sight).posture = log[n].posture

LEMMA ConfirmedAll == PostureIsConfirmed <=> \A n \in DOMAIN log : Confirmed(n)
BY DEF PostureIsConfirmed, Confirmed, KnownBefore

(* What is confirmed of the results so far stays so.                       *)
LEMMA ConfirmedStays ==
  ASSUME PerceptionTypeOK, NEW entry, Logged(entry), NEW n \in 1..Len(log), Confirmed(n)
  PROVE  Confirmed(n)'
<1>1. \A m \in 1..n : log'[m] = log[m]
  BY LogTypes DEF Logged
<1>2. \A m \in 1..n : \A k \in m..n : k \in 1..n
  BY LogTypes
<1>3. \A m \in 1..n : Same(m, n)' <=> Same(m, n)
  BY <1>1, <1>2 DEF Same
<1>4. n \in 1..n /\ \A m \in 1..(n - 1) : m \in 1..n
  BY LogTypes
<1>5. KnownBefore(n)' = KnownBefore(n)
  BY <1>1, <1>3, <1>4 DEF KnownBefore
<1>6. n > 1 => n - 1 \in 1..n
  BY LogTypes
<1>7. KnownBefore(n) \subseteq 1..(n - 1)
  BY DEF KnownBefore
<1> QED  BY <1>1, <1>3, <1>4, <1>5, <1>6, <1>7 DEF Confirmed

LEMMA LivesKept == PerceptionTypeOK /\ ImagesInv /\ LivesInv /\ Moves => LivesInv'
<1> SUFFICES ASSUME PerceptionTypeOK, ImagesInv, LivesInv, Moves PROVE LivesInv'
  OBVIOUS
<1>1. /\ Len(log) \in Nat /\ DOMAIN log = 1..Len(log)
      /\ \A n \in 1..Len(log) : log[n].life \in Nat
      /\ worker.life \in Nat
  BY LogTypes DEF PerceptionTypeOK
<1>2. CASE log' = log
  <2>1. worker'.life \in {worker.life, worker.life + 1}
    BY DEF Moves, Upload, AnalyseAgain, Second, TakeImage, Remind, PerceptionCrash, Record,
           Lose, NotDue, perceptionVars, PerceptionTypeOK
  <2> QED  BY <1>1, <1>2, <2>1 DEF LivesInv
<1>3. ASSUME NEW entry, Logged(entry), entry.life = worker.life, worker'.life = worker.life
      PROVE  LivesInv'
  <2>1. /\ \A n \in DOMAIN log' : n \in 1..Len(log) \/ n = Len(log) + 1
        /\ \A n \in 1..Len(log) : log'[n].life = log[n].life
        /\ log'[Len(log) + 1].life = worker.life
    BY <1>1, <1>3 DEF Logged
  <2>2. ASSUME NEW m \in DOMAIN log', NEW n \in DOMAIN log', m <= n
        PROVE  log'[m].life <= log'[n].life
    <3>1. CASE n \in 1..Len(log)
      <4>1. m \in 1..Len(log)
        BY <1>1, <2>1, <2>2, <3>1
      <4> QED  BY <1>1, <2>1, <2>2, <3>1, <4>1 DEF LivesInv
    <3>2. CASE n = Len(log) + 1
      BY <1>1, <2>1, <3>2 DEF LivesInv
    <3> QED  BY <2>1, <3>1, <3>2
  <2>3. \A n \in DOMAIN log' : log'[n].life <= worker'.life
    BY <1>1, <1>3, <2>1 DEF LivesInv
  <2> QED  BY <2>2, <2>3 DEF LivesInv
<1> QED  BY <1>2, <1>3, LogMoves

LEMMA SeenConfirmed ==
  ASSUME PerceptionTypeOK, ImagesInv, LivesInv, SmootherInv, PostureIsConfirmed,
         NEW detection \in Detections, NEW sight \in Sights, NEW stored \in BOOLEAN,
         Seen(detection, sight, stored), worker'.life = worker.life
  PROVE  SmootherInv' /\ PostureIsConfirmed'
<1> DEFINE o == Classified(sight)
           N == Len(log)
           posture == Reported(smoother', o).posture
<1>1. PICK entry : /\ Logged(entry) /\ entry.life = worker.life /\ entry.sight = sight
                   /\ entry.posture = posture
  BY SeenLogged
<1>2. /\ N \in Nat /\ DOMAIN log = 1..N /\ worker.life \in Nat
      /\ \A n \in 1..N : log[n].life \in Nat
  BY LogTypes DEF PerceptionTypeOK
<1>3. /\ DOMAIN log' = 1..(N + 1) /\ Len(log') = N + 1
      /\ \A n \in 1..N : log'[n] = log[n]
      /\ log'[N + 1].life = worker.life /\ log'[N + 1].sight = sight
      /\ log'[N + 1].posture = posture
  BY <1>1 DEF Logged
<1>4. /\ smoother'.candidate # Unknown => smoother'.candidate = o
      /\ \/ posture = "unknown" /\ smoother'.stable = smoother.stable
         \/ /\ smoother.stable # Unknown /\ smoother'.stable = smoother.stable
            /\ posture = smoother'.stable.posture
         \/ /\ smoother.candidate # Unknown /\ o = smoother.candidate /\ smoother'.stable = o
            /\ o.posture # "unknown" /\ posture = o.posture
  <2>1. o \in Observation /\ smoother' = Smoothed(smoother, o)
    BY ModelTypes DEF Seen
  <2> HIDE DEF o
  <2> QED  BY <2>1, SmoothedStep
<1> HIDE DEF o, N, posture
<1>5. /\ Known \subseteq 1..N
      /\ \A n \in 1..N : (n \in Known') <=> (n \in Known)
      /\ (N + 1 \in Known') <=> (posture # "unknown")
      /\ Known' \subseteq 1..(N + 1)
  BY <1>2, <1>3 DEF Known, Current
<1>6. SmootherInv'
  <2>1. ASSUME smoother'.stable # Unknown
        PROVE  /\ smoother'.stable.posture # "unknown"
               /\ \E n \in Known' : /\ \A m \in Known' : m <= n
                                    /\ log'[n].posture = smoother'.stable.posture
    <3>1. CASE posture = "unknown" /\ smoother'.stable = smoother.stable
      <4>1. PICK n \in Known : /\ \A m \in Known : m <= n
                               /\ log[n].posture = smoother.stable.posture
        BY <2>1, <3>1 DEF SmootherInv
      <4>2. \A k : (k \in Known') <=> (k \in Known)
        <5>1. \A k \in 1..(N + 1) : k \in 1..N \/ k = N + 1
          BY <1>2
        <5>2. N + 1 \notin 1..N
          BY <1>2
        <5> QED  BY <1>5, <3>1, <5>1, <5>2
      <4>3. log'[n] = log[n]
        BY <1>3, <1>5
      <4> QED  BY <2>1, <3>1, <4>1, <4>2, <4>3 DEF SmootherInv
    <3>2. CASE ~(posture = "unknown" /\ smoother'.stable = smoother.stable)
      <4>1. posture = smoother'.stable.posture /\ posture # "unknown"
        BY <1>4, <3>2 DEF SmootherInv
      <4>2. N + 1 \in Known'
        BY <1>5, <4>1
      <4>3. \A m \in 1..(N + 1) : m <= N + 1
        BY <1>2
      <4> QED  BY <1>3, <1>5, <4>1, <4>2, <4>3
    <3> QED  BY <3>1, <3>2
  <2>2. log' # <<>>
    <3>1. Len(log') # 0
      BY <1>2, <1>3
    <3> QED  BY <3>1
  <2>3. smoother'.candidate # Unknown =>
          Classified(log'[Len(log')].sight) = smoother'.candidate
    BY <1>3, <1>4 DEF o
  <2>4. Current(Len(log))'
    BY <1>3 DEF Current
  <2> QED  BY <2>1, <2>2, <2>3, <2>4 DEF SmootherInv
<1>7. ASSUME NEW n, n = N + 1 PROVE Confirmed(n)'
  <2> SUFFICES ASSUME posture # "unknown",
                      \A m \in KnownBefore(n)' :
                        (\A k \in KnownBefore(n)' : k <= m) => log'[m].posture # posture
               PROVE  /\ n > 1 /\ Same(n - 1, n)'
                      /\ \A m \in {n - 1, n} : Classified(log'[m].sight).posture = posture
    BY <1>3, <1>7 DEF Confirmed
  <2>1. CASE smoother.stable # Unknown /\ posture = smoother.stable.posture
    <3>1. PICK m \in Known : /\ \A k \in Known : k <= m
                             /\ log[m].posture = smoother.stable.posture
      BY <2>1 DEF SmootherInv
    <3>2. m \in 1..N /\ log'[m] = log[m] /\ log[m].life = worker.life
          /\ log[m].posture # "unknown"
      BY <1>3, <1>5 DEF Known, Current
    <3>3. Same(m, n)'
      <4>1. ASSUME NEW j \in m..n PROVE log'[j].life = log'[n].life
        <5>1. CASE j = N + 1
          BY <1>7, <5>1
        <5>2. CASE j # N + 1
          <6>1. j \in 1..N /\ m <= j
            BY <1>2, <1>7, <3>2, <5>2
          <6>2. log[m].life <= log[j].life /\ log[j].life <= worker.life
            BY <1>2, <3>2, <6>1 DEF LivesInv
          <6> QED  BY <1>2, <1>3, <1>7, <3>2, <6>1, <6>2
        <5> QED  BY <5>1, <5>2
      <4> QED  BY <4>1 DEF Same
    <3>4. m \in KnownBefore(n)'
      BY <1>2, <1>7, <3>2, <3>3 DEF KnownBefore
    <3>5. ASSUME NEW k \in KnownBefore(n)' PROVE k <= m
      <4>1. k \in 1..N /\ Same(k, n)' /\ log'[k].posture # "unknown"
        BY <1>2, <1>7 DEF KnownBefore
      <4>2. log'[k].life = log'[n].life
        BY <1>2, <1>7, <4>1 DEF Same
      <4>3. k \in Known
        BY <1>2, <1>3, <1>7, <4>1, <4>2 DEF Known, Current
      <4> QED  BY <3>1, <4>3
    <3> QED  BY <2>1, <3>1, <3>2, <3>4, <3>5
  <2>2. CASE smoother.candidate # Unknown /\ o = smoother.candidate /\ posture = o.posture
    <3>1. /\ log # <<>> /\ log[N].life = worker.life
          /\ Classified(log[N].sight) = o
      BY <2>2 DEF SmootherInv, Current, N
    <3>2. N \in 1..N
      <4>1. log = <<>> <=> N = 0
        <5>1. log \in Seq(LogEntry)
          BY DEF PerceptionTypeOK
        <5> QED  BY <5>1, EmptySeq DEF N
      <4> QED  BY <1>2, <3>1, <4>1
    <3>3. n > 1 /\ n - 1 = N /\ n - 1 \in 1..N
      BY <1>2, <1>7, <3>2
    <3>4. Same(n - 1, n)'
      <4>1. \A j \in (n - 1)..n : j = N \/ j = N + 1
        BY <1>2, <1>7
      <4>2. log'[N].life = worker.life /\ log'[N + 1].life = worker.life
        BY <1>3, <3>1, <3>2
      <4> QED  BY <1>7, <4>1, <4>2 DEF Same
    <3>5. Classified(log'[N].sight).posture = posture
          /\ Classified(log'[N + 1].sight).posture = posture
      BY <1>3, <2>2, <3>1, <3>2 DEF o
    <3> QED  BY <1>7, <3>3, <3>4, <3>5
  <2> QED  BY <1>4, <2>1, <2>2
<1>8. \A n \in 1..N : Confirmed(n)'
  <2>1. ASSUME NEW n \in 1..N PROVE Confirmed(n)'
    <3>1. Confirmed(n)
      BY <1>2, ConfirmedAll
    <3> QED  BY <1>1, <3>1, ConfirmedStays DEF N
  <2> QED  BY <2>1
<1>9. \A n \in DOMAIN log' : n \in 1..N \/ n = N + 1
  BY <1>2, <1>3
<1>10. \A n \in DOMAIN log' : Confirmed(n)'
  BY <1>7, <1>8, <1>9
<1>11. (\A n \in DOMAIN log' : Confirmed(n)') => PostureIsConfirmed'
  BY DEF PostureIsConfirmed, Confirmed, KnownBefore
<1> QED  BY <1>6, <1>10, <1>11

LEMMA SmootherKept ==
  PerceptionTypeOK /\ ImagesInv /\ LivesInv /\ SmootherInv /\ PostureIsConfirmed /\ Moves
    => SmootherInv' /\ PostureIsConfirmed'
<1> SUFFICES ASSUME PerceptionTypeOK, ImagesInv, LivesInv, SmootherInv, PostureIsConfirmed, Moves
             PROVE  SmootherInv' /\ PostureIsConfirmed'
  OBVIOUS
<1>1. ASSUME NEW detection \in Detections, NEW sight \in Sights,
             Record(detection, sight) \/ Lose(detection, sight)
      PROVE  SmootherInv' /\ PostureIsConfirmed'
  <2>1. \E pc, pose : worker' = [worker EXCEPT !.pc = pc, !.pose = pose]
    BY <1>1 DEF Record, Lose
  <2>2. worker'.life = worker.life
    BY <2>1 DEF PerceptionTypeOK
  <2>3. \E stored \in BOOLEAN : Seen(detection, sight, stored)
    BY <1>1 DEF Record, Lose
  <2> QED  BY <2>2, <2>3, SeenConfirmed
<1>2. ASSUME log' = log PROVE PostureIsConfirmed'
  BY <1>2 DEF PostureIsConfirmed, Same
<1>3. CASE PerceptionCrash
  <2>1. log' = log /\ smoother' = NewSmoother
    BY <1>3 DEF PerceptionCrash
  <2>2. SmootherInv'
    BY <2>1 DEF SmootherInv, NewSmoother
  <2> QED  BY <1>2, <2>1, <2>2
<1>4. ASSUME log' = log, smoother' = smoother, worker'.life = worker.life
      PROVE  SmootherInv' /\ PostureIsConfirmed'
  <2>1. SmootherInv'
    BY <1>4 DEF SmootherInv, Known, Current
  <2> QED  BY <1>2, <1>4, <2>1
<1>5. CASE Upload \/ AnalyseAgain \/ Second \/ TakeImage \/ Remind \/ UNCHANGED perceptionVars
  <2>1. log' = log /\ smoother' = smoother
    BY <1>5 DEF Upload, AnalyseAgain, Second, TakeImage, Remind, perceptionVars
  <2>2. worker'.life = worker.life
    BY <1>5 DEF Upload, AnalyseAgain, Second, TakeImage, Remind, perceptionVars, PerceptionTypeOK
  <2> QED  BY <1>4, <2>1, <2>2
<1>6. ASSUME NEW listens \in BOOLEAN, NotDue(listens) PROVE SmootherInv' /\ PostureIsConfirmed'
  <2>1. log' = log /\ smoother' = smoother
    BY <1>6 DEF NotDue
  <2>2. worker'.life = worker.life
    BY <1>6 DEF NotDue, PerceptionTypeOK
  <2> QED  BY <1>4, <2>1, <2>2
<1> QED  BY <1>1, <1>3, <1>5, <1>6 DEF Moves

-----------------------------------------------------------------------------
(* Reminders are earned *)

LEMMA TimesDiffer ==
  ASSUME PerceptionTypeOK, ClockInv
  PROVE  \A m, n \in DOMAIN log :
           /\ m < n <=> log[m].time < log[n].time
           /\ log[m].time = log[n].time => m = n
BY LogTypes DEF ClockInv

LEMMA SittingStays ==
  ASSUME PerceptionTypeOK, NEW entry, Logged(entry), NEW b \in 1..Len(log), LongSitting(b)
  PROVE  LongSitting(b)'
<1>1. b \in Nat /\ b >= 1 /\ \A n \in 1..b : log'[n] = log[n]
  BY LogTypes DEF Logged
<1>2. ASSUME NEW a \in Nat, a >= 1, NEW c \in Int, c <= b
      PROVE  Stored(a, c)' = Stored(a, c)
  <2>1. \A n \in a..c : n \in 1..b
    BY <1>1, <1>2
  <2> QED  BY <1>1, <2>1 DEF Stored
<1>3. ASSUME NEW a \in Nat, a >= 1, Sat(a, b) PROVE Sat(a, b)'
  <2>1. Stored(a, b)' = Stored(a, b) /\ Stored(a, b - 1)' = Stored(a, b - 1)
    BY <1>1, <1>2, <1>3
  <2>2. \A n \in Stored(a, b) : n \in 1..b
    BY <1>1, <1>3 DEF Stored
  <2>3. \A n \in Stored(a, b - 1) : n \in 1..b /\ n + 1 \in Nat /\ n + 1 >= 1
    BY <1>1, <1>3 DEF Stored
  <2>4. \A n \in Stored(a, b - 1) : Stored(n + 1, b)' = Stored(n + 1, b)
    BY <1>1, <1>2, <2>3
  <2>5. \A n \in Stored(a, b - 1) : \A m \in Stored(n + 1, b) : m \in 1..b
    BY <1>1, <2>3 DEF Stored
  <2>6. \A n \in Stored(a, b)' : log'[n].sitting
    <3>1. \A n \in Stored(a, b) : log'[n] = log[n] /\ log[n].sitting
      BY <1>1, <1>3, <2>2 DEF Sat
    <3> QED  BY <2>1, <3>1
  <2>7. ASSUME NEW n \in Stored(a, b - 1)'
        PROVE  \E m \in Stored(n + 1, b)' : log'[m].time - log'[n].time <= MaxGap
    <3>1. n \in Stored(a, b - 1)
      BY <2>1
    <3>2. PICK m \in Stored(n + 1, b) : log[m].time - log[n].time <= MaxGap
      BY <1>3, <3>1 DEF Sat
    <3>3. log'[m] = log[m] /\ log'[n] = log[n]
      BY <1>1, <2>3, <2>5, <3>1
    <3>4. m \in Stored(n + 1, b)'
      BY <2>4, <3>1
    <3> QED  BY <3>2, <3>3, <3>4
  <2> QED  BY <2>6, <2>7 DEF Sat
<1>4. PICK a \in Stored(1, b) : log[a].time + SedentaryThreshold <= log[b].time /\ Sat(a, b)
  BY DEF LongSitting
<1>5. a \in 1..b /\ a \in Stored(1, b)'
  BY <1>1, <1>2, <1>4 DEF Stored
<1>6. log'[a] = log[a] /\ log'[b] = log[b] /\ Sat(a, b)'
  BY <1>1, <1>3, <1>4, <1>5
<1> QED  BY <1>4, <1>5, <1>6 DEF LongSitting

LEMMA RemindIsEarned ==
  ASSUME PerceptionTypeOK, PosesInv, ClockInv, RowsInv, Remind
  PROVE  LongSitting(Len(log))
<1> DEFINE N == Len(log)
           p == worker.pose
<1>1. /\ N \in Nat /\ DOMAIN log = 1..N /\ \A n \in 1..N : log[n].time \in Nat
      /\ SedentaryThreshold \in Nat /\ MaxGap \in Nat
  BY LogTypes, PerceptionAssumption
<1>2. p \in poses /\ \A q \in poses : q.time \in Nat
  BY PoseTypes DEF Remind, Due, PerceptionTypeOK
<1>3. N \in 1..N /\ Tells(p, log[N])
  <2>1. log # <<>> /\ Tells(p, log[N])
    BY DEF Remind, RowsInv
  <2>2. log \in Seq(LogEntry)
    BY DEF PerceptionTypeOK
  <2> QED  BY <1>1, <2>1, <2>2, EmptySeq
<1>4. PICK q \in Anchor(p) : SatFrom(q.time)
  BY DEF Remind, Due
<1>5. q \in poses /\ q.time + SedentaryThreshold <= p.time
  BY <1>4 DEF Anchor
<1>6. PICK a \in 1..N : Tells(q, log[a])
  BY <1>1, <1>5 DEF RowsInv
<1>7. ASSUME NEW n \in Stored(a, N)
      PROVE  \E o \in poses : Tells(o, log[n]) /\ o.time >= q.time
  <2>1. n \in 1..N /\ a <= n /\ log[n].stored
    BY <1>1, <1>6 DEF Stored
  <2>2. log[a].time <= log[n].time
    BY <1>1, <1>6, <2>1, TimesDiffer
  <2>3. PICK o \in poses : o.time = log[n].time
    BY <1>1, <1>5, <1>6, <2>1, <2>2 DEF RowsInv, Tells
  <2>4. PICK m \in 1..N : Tells(o, log[m])
    BY <1>1, <2>3 DEF RowsInv
  <2>5. m = n
    BY <1>1, <2>1, <2>3, <2>4, TimesDiffer DEF Tells
  <2> QED  BY <1>6, <2>2, <2>3, <2>4, <2>5 DEF Tells
<1>8. \A n \in Stored(a, N) : log[n].sitting
  BY <1>4, <1>7 DEF SatFrom, Tells
<1>9. ASSUME NEW n \in Stored(a, N - 1)
      PROVE  \E m \in Stored(n + 1, N) : log[m].time - log[n].time <= MaxGap
  <2>1. n \in Stored(a, N) /\ n \in 1..N /\ n < N
    BY <1>1, <1>6 DEF Stored
  <2>2. PICK o \in poses : Tells(o, log[n]) /\ o.time >= q.time
    BY <1>7, <2>1
  <2>3. log[n].time < log[N].time
    BY <1>1, <1>3, <2>1, TimesDiffer
  <2>4. p \in Since(o.time)
    BY <1>2, <1>3, <2>2, <2>3 DEF Since, Tells
  <2>5. PICK r \in Since(o.time) : r.time - o.time <= MaxGap
    BY <1>4, <2>2, <2>4 DEF SatFrom
  <2>6. r \in poses /\ r.time > o.time
    BY <2>5 DEF Since
  <2>7. PICK m \in 1..N : Tells(r, log[m])
    BY <1>1, <2>6 DEF RowsInv
  <2>8. n < m
    <3>1. log[n].time < log[m].time
      BY <1>2, <2>2, <2>6, <2>7 DEF Tells
    <3> QED  BY <1>1, <2>1, <2>7, <3>1, TimesDiffer
  <2>9. m \in Stored(n + 1, N)
    BY <1>1, <2>1, <2>7, <2>8 DEF Stored, Tells
  <2> QED  BY <2>2, <2>5, <2>7, <2>9 DEF Tells
<1>10. a \in Stored(1, N) /\ log[a].time + SedentaryThreshold <= log[N].time
  BY <1>1, <1>3, <1>5, <1>6 DEF Stored, Tells
<1>11. Sat(a, N)
  BY <1>8, <1>9 DEF Sat
<1> HIDE DEF N
<1> QED  BY <1>10, <1>11 DEF LongSitting, N

LEMMA EarnedKept ==
  /\ PerceptionTypeOK /\ ImagesInv /\ PosesInv /\ ClockInv /\ RowsInv /\ RemindersInv
  /\ ReminderIsEarned /\ Moves
  => ReminderIsEarned'
<1> SUFFICES ASSUME PerceptionTypeOK, ImagesInv, PosesInv, ClockInv, RowsInv, RemindersInv,
                    ReminderIsEarned, Moves
             PROVE  ReminderIsEarned'
  OBVIOUS
<1>1. /\ Len(reminders) \in Nat /\ DOMAIN reminders = 1..Len(reminders)
  BY ReminderTypes
<1>2. ASSUME log' = log, NEW b, LongSitting(b) PROVE LongSitting(b)'
  BY <1>2 DEF LongSitting, Sat, Stored
<1>3. CASE Remind
  <2>1. log' = log
    BY <1>3 DEF Remind
  <2>2. LongSitting(Len(log))'
    <3>1. \A b : b = Len(log) => LongSitting(b)'
      BY <1>2, <1>3, <2>1, RemindIsEarned
    <3>2. PICK b : b = Len(log)
      OBVIOUS
    <3> QED  BY <2>1, <3>1, <3>2
  <2>3. ASSUME NEW r \in DOMAIN reminders' PROVE LongSitting(reminders[r].after)'
    <3>1. CASE r \in 1..Len(reminders)
      <4>1. LongSitting(reminders[r].after) /\ reminders'[r] = reminders[r]
        BY <1>1, <1>3, <3>1, RemindAppends DEF ReminderIsEarned
      <4>2. PICK b : b = reminders[r].after
        OBVIOUS
      <4>3. LongSitting(b)'
        BY <1>2, <2>1, <4>1, <4>2
      <4> QED  BY <4>1, <4>2, <4>3
    <3>2. CASE r = Len(reminders) + 1
      <4>1. reminders'[r].after = Len(log')
        BY <1>3, <2>1, <3>2, RemindAppends
      <4> QED  BY <2>2, <4>1
    <3> QED  BY <1>1, <1>3, <3>1, <3>2, RemindAppends
  <2> QED  BY <2>3 DEF ReminderIsEarned
<1>4. CASE reminders' = reminders
  <2>1. ASSUME NEW r \in DOMAIN reminders PROVE LongSitting(reminders[r].after)'
    <3>1. LongSitting(reminders[r].after) /\ reminders[r].after \in 1..Len(log)
      BY DEF ReminderIsEarned, RemindersInv
    <3>2. PICK b \in 1..Len(log) : b = reminders[r].after
      BY <3>1
    <3>3. log' = log \/ \E entry : Logged(entry)
      BY LogMoves
    <3>4. LongSitting(b)'
      BY <1>2, <3>1, <3>2, <3>3, SittingStays
    <3> QED  BY <1>4, <3>2, <3>4
  <2> QED  BY <1>4, <2>1 DEF ReminderIsEarned
<1>5. CASE Upload \/ AnalyseAgain \/ Second \/ TakeImage \/ PerceptionCrash
           \/ UNCHANGED perceptionVars \/ \E listens \in BOOLEAN : NotDue(listens)
  BY <1>4, <1>5 DEF Upload, AnalyseAgain, Second, TakeImage, PerceptionCrash, NotDue,
                    perceptionVars
<1>6. ASSUME NEW detection \in Detections, NEW sight \in Sights,
             Record(detection, sight) \/ Lose(detection, sight)
      PROVE  ReminderIsEarned'
  BY <1>4, <1>6 DEF Record, Lose
<1> QED  BY <1>3, <1>5, <1>6 DEF Moves

-----------------------------------------------------------------------------
(* Who sits is reminded *)

AllKept == \A n \in Stored(1, Len(log)) : \E p \in poses : p.time = log[n].time

Reminded ==
  \E r \in DOMAIN reminders : \A n \in Stored(1, Len(log)) :
    log[n].time > reminders[r].time => log[n].sitting

LEMMA SitterMeans ==
  SitterIsReminded <=>
    (/\ worker.pc = "idle" /\ worker.pose # Nobody /\ worker.listened
     /\ AllKept /\ LongSitting(Len(log))
     => Reminded)
BY DEF SitterIsReminded, AllKept, Reminded

(* A row tells the result of its time.                                     *)
LEMMA RowTells ==
  ASSUME PerceptionTypeOK, ClockInv, RowsInv, NEW n \in DOMAIN log,
         NEW o \in poses, o.time = log[n].time
  PROVE  Tells(o, log[n])
<1>1. PICK m \in DOMAIN log : Tells(o, log[m])
  BY DEF RowsInv
<1>2. m = n
  BY <1>1, TimesDiffer DEF Tells
<1> QED  BY <1>1, <1>2

(* If every result has its row, a long sitting shows in the rows: only     *)
(* that a reminder was given already can stand against another.            *)
LEMMA SittingShows ==
  ASSUME PerceptionTypeOK, PosesInv, ClockInv, RowsInv, worker.pc = "handle",
         AllKept, LongSitting(Len(log))
  PROVE  /\ worker.pose \in poses /\ worker.pose.sitting
         /\ \E q \in Anchor(worker.pose) : SatFrom(q.time)
<1> DEFINE N == Len(log)
           p == worker.pose
<1>1. /\ N \in Nat /\ DOMAIN log = 1..N /\ \A n \in 1..N : log[n].time \in Nat
      /\ SedentaryThreshold \in Nat /\ MaxGap \in Nat
  BY LogTypes, PerceptionAssumption
<1>2. \A q \in poses : q.time \in Nat
  BY PoseTypes DEF PerceptionTypeOK
<1>3. N \in 1..N /\ Tells(p, log[N])
  <2>1. log # <<>> /\ Tells(p, log[N])
    BY DEF RowsInv
  <2>2. log \in Seq(LogEntry)
    BY DEF PerceptionTypeOK
  <2> QED  BY <1>1, <2>1, <2>2, EmptySeq
<1>4. PICK a \in Stored(1, N) : log[a].time + SedentaryThreshold <= log[N].time /\ Sat(a, N)
  BY DEF LongSitting
<1>5. a \in 1..N /\ log[a].stored
  BY <1>4 DEF Stored
<1>6. ASSUME NEW n \in 1..N, log[n].stored PROVE \E o \in poses : o.time = log[n].time
  BY <1>1, <1>6 DEF AllKept, Stored
<1>7. p \in poses
  <2>1. PICK o \in poses : o.time = log[N].time
    BY <1>3, <1>6 DEF Tells
  <2> QED  BY <1>3, <2>1 DEF RowsInv, Tells
<1>8. p.sitting
  <2>1. N \in Stored(a, N)
    BY <1>1, <1>3, <1>5 DEF Stored, Tells
  <2> QED  BY <1>3, <1>4, <2>1 DEF Sat, Tells
<1>9. PICK q \in Anchor(p) : q \in poses /\ log[a].time <= q.time
  <2> DEFINE old == {x \in poses : x.time + SedentaryThreshold <= p.time}
             T == {x.time : x \in old}
  <2>1. PICK o \in poses : o.time = log[a].time
    BY <1>5, <1>6
  <2>2. o \in old
    BY <1>3, <1>4, <2>1 DEF Tells
  <2>3. T \in SUBSET (0..p.time) /\ T # {} /\ p.time \in Nat
    <3>1. p.time \in Nat
      BY <1>2, <1>7
    <3>2. \A x \in old : x.time \in 0..p.time
      BY <1>1, <1>2, <3>1
    <3> QED  BY <2>2, <3>1, <3>2
  <2>4. PICK m \in T : \A k \in T : k <= m
    <3> HIDE DEF T
    <3> QED  BY <2>3, GreatestExists
  <2>5. PICK q \in old : q.time = m
    OBVIOUS
  <2>6. \A x \in old : x.time <= q.time
    BY <2>4, <2>5
  <2> QED  BY <2>1, <2>2, <2>5, <2>6 DEF Anchor
<1>10. ASSUME NEW o \in poses, o.time >= q.time
       PROVE  \E n \in Stored(a, N) : Tells(o, log[n])
  <2>1. PICK n \in 1..N : Tells(o, log[n])
    BY <1>1 DEF RowsInv
  <2>2. log[a].time <= log[n].time
    BY <1>1, <1>2, <1>5, <1>9, <1>10, <2>1 DEF Tells
  <2>3. a <= n
    BY <1>1, <1>5, <2>1, <2>2, TimesDiffer
  <2> QED  BY <1>1, <1>5, <2>1, <2>3 DEF Stored, Tells
<1>11. ASSUME NEW o \in poses, o.time >= q.time, Since(o.time) # {}
       PROVE  \E s \in Since(o.time) : s.time - o.time <= MaxGap
  <2>1. PICK n \in Stored(a, N) : Tells(o, log[n])
    BY <1>10, <1>11
  <2>2. n \in 1..N /\ a <= n /\ log[n].stored
    BY <1>1, <1>5, <2>1 DEF Stored
  <2>3. PICK l \in poses : l.time > o.time
    BY <1>11 DEF Since
  <2>4. PICK k \in 1..N : Tells(l, log[k])
    BY <1>1 DEF RowsInv
  <2>5. n < k
    <3>1. log[n].time < log[k].time
      BY <1>2, <2>1, <2>3, <2>4 DEF Tells
    <3> QED  BY <1>1, <2>2, <2>4, <3>1, TimesDiffer
  <2>6. n \in Stored(a, N - 1)
    BY <1>1, <1>5, <2>2, <2>4, <2>5 DEF Stored
  <2>7. PICK m \in Stored(n + 1, N) : log[m].time - log[n].time <= MaxGap
    BY <1>4, <2>6 DEF Sat
  <2>8. m \in 1..N /\ n < m /\ log[m].stored
    BY <1>1, <2>2, <2>7 DEF Stored
  <2>9. PICK s \in poses : s.time = log[m].time
    BY <1>6, <2>8
  <2>10. log[n].time < log[m].time
    BY <1>1, <2>2, <2>8, TimesDiffer
  <2> QED  BY <2>1, <2>7, <2>9, <2>10 DEF Since, Tells
<1>12. SatFrom(q.time)
  <2>1. ASSUME NEW o \in poses, o.time >= q.time PROVE o.sitting
    <3>1. PICK n \in Stored(a, N) : Tells(o, log[n])
      BY <1>10, <2>1
    <3> QED  BY <1>4, <3>1 DEF Sat, Tells
  <2> QED  BY <1>11, <2>1 DEF SatFrom
<1> QED  BY <1>7, <1>8, <1>9, <1>12

LEMMA NotDueReminded ==
  ASSUME PerceptionTypeOK, PosesInv, ClockInv, RowsInv, RemindersInv, worker.pc = "handle",
         AllKept, LongSitting(Len(log)), ~Due(worker.pose)
  PROVE  Reminded
<1> DEFINE p == worker.pose
           L == Len(reminders)
<1>1. /\ L \in Nat /\ DOMAIN reminders = 1..L
      /\ reminders \in Seq([time : Nat, after : Nat])
  BY ReminderTypes DEF PerceptionTypeOK
<1>2. /\ p \in poses /\ p.sitting /\ ~RoseSince(p)
      /\ Len(log) \in Nat /\ DOMAIN log = 1..Len(log)
  BY SittingShows, LogTypes DEF Due
<1>3. reminders # <<>>
  BY <1>2 DEF RoseSince
<1>4. L \in 1..L /\ Last(reminders) = reminders[L]
  <2>1. L # 0
    BY <1>1, <1>3, EmptySeq
  <2> QED  BY <1>1, <2>1 DEF Last
<1>5. reminders[L].time < p.time /\ reminders[L].time \in Nat
  BY <1>1, <1>4, ReminderTypes DEF RemindersInv
<1>6. \A q \in Since(reminders[L].time) : q.sitting
  BY <1>2, <1>4, <1>5, PoseTypes DEF RoseSince, PerceptionTypeOK
<1>7. ASSUME NEW n \in Stored(1, Len(log)), log[n].time > reminders[L].time
      PROVE  log[n].sitting
  <2>1. PICK o \in poses : o.time = log[n].time
    BY DEF AllKept
  <2>2. o.sitting
    BY <1>6, <1>7, <2>1 DEF Since
  <2>3. Tells(o, log[n])
    BY <1>2, <2>1, RowTells DEF Stored
  <2> QED  BY <2>2, <2>3 DEF Tells
<1> QED  BY <1>1, <1>4, <1>7 DEF Reminded

LEMMA SitterKept ==
  /\ PerceptionTypeOK /\ PosesInv /\ ClockInv /\ RowsInv /\ RemindersInv
  /\ SitterIsReminded /\ Moves
  => SitterIsReminded'
<1> SUFFICES ASSUME PerceptionTypeOK, PosesInv, ClockInv, RowsInv, RemindersInv,
                    SitterIsReminded, Moves
             PROVE  SitterIsReminded'
  OBVIOUS
<1>1. ASSUME worker'.pc # "idle" \/ worker'.pose = Nobody \/ ~worker'.listened
      PROVE  SitterIsReminded'
  BY <1>1 DEF SitterIsReminded
<1>2. ASSUME log' = log
      PROVE  /\ LongSitting(Len(log))' => LongSitting(Len(log))
             /\ Reminded /\ reminders' = reminders => Reminded'
             /\ poses' \subseteq poses /\ AllKept' => AllKept
  BY <1>2 DEF LongSitting, Sat, Stored, Reminded, AllKept
<1>3. ASSUME log' = log, reminders' = reminders, worker' = worker, poses' \subseteq poses
      PROVE  SitterIsReminded'
  <2> SUFFICES ASSUME worker'.pc = "idle", worker'.pose # Nobody, worker'.listened,
                      AllKept', LongSitting(Len(log))'
               PROVE  Reminded'
    BY DEF SitterIsReminded, AllKept, Reminded
  <2>1. AllKept /\ LongSitting(Len(log))
    BY <1>2, <1>3
  <2>2. Reminded
    BY <1>3, <2>1, SitterMeans
  <2> QED  BY <1>2, <1>3, <2>2
<1>4. CASE Upload \/ AnalyseAgain \/ Second \/ UNCHANGED perceptionVars
  BY <1>3, <1>4 DEF Upload, AnalyseAgain, Second, perceptionVars
<1>5. CASE TakeImage
  <2>1. worker' = worker \/ worker'.pc = "analyse"
    BY <1>5 DEF TakeImage, PerceptionTypeOK
  <2> QED  BY <1>1, <1>3, <1>5, <2>1 DEF TakeImage
<1>6. CASE PerceptionCrash
  <2>1. worker'.pose = Nobody
    BY <1>6 DEF PerceptionCrash, PerceptionTypeOK
  <2> QED  BY <1>1, <2>1
<1>7. ASSUME NEW detection \in Detections, NEW sight \in Sights,
             Record(detection, sight) \/ Lose(detection, sight)
      PROVE  SitterIsReminded'
  <2>1. \/ \E pose : worker' = [worker EXCEPT !.pc = "handle", !.pose = pose]
        \/ worker' = [worker EXCEPT !.pc = "idle", !.pose = Nobody]
    BY <1>7 DEF Record, Lose
  <2>2. worker'.pc = "handle" \/ worker'.pose = Nobody
    BY <2>1 DEF PerceptionTypeOK
  <2> QED  BY <1>1, <2>2
<1>8. CASE Remind
  <2>1. /\ Len(reminders) \in Nat /\ DOMAIN reminders' = 1..(Len(reminders) + 1)
        /\ reminders'[Len(reminders) + 1].time = clock
    BY <1>8, ReminderTypes, RemindAppends
  <2>2. log' = log /\ clock \in Nat
    BY <1>8 DEF Remind, PerceptionTypeOK
  <2>3. \A n \in Stored(1, Len(log)) : log[n].time \in Nat /\ log[n].time <= clock
    BY LogTypes DEF ClockInv, Stored
  <2>4. \A n \in Stored(1, Len(log)) : ~(log[n].time > clock)
    BY <2>2, <2>3
  <2>5. Stored(1, Len(log))' = Stored(1, Len(log))
    BY <2>2 DEF Stored
  <2>6. Reminded'
    BY <2>1, <2>2, <2>4, <2>5 DEF Reminded
  <2> QED  BY <2>6 DEF SitterIsReminded, Reminded
<1>9. ASSUME NEW listens \in BOOLEAN, NotDue(listens) PROVE SitterIsReminded'
  <2>1. /\ worker.pc = "handle" /\ worker'.listened = listens
        /\ listens => ~Due(worker.pose)
        /\ log' = log /\ reminders' = reminders /\ poses' = poses
    BY <1>9 DEF NotDue, PerceptionTypeOK
  <2> SUFFICES ASSUME listens, AllKept', LongSitting(Len(log))'
               PROVE  Reminded'
    BY <2>1 DEF SitterIsReminded, AllKept, Reminded
  <2>2. AllKept /\ LongSitting(Len(log))
    BY <1>2, <2>1
  <2>3. Reminded
    BY <2>1, <2>2, NotDueReminded
  <2> QED  BY <1>2, <2>1, <2>3
<1> QED  BY <1>4, <1>5, <1>6, <1>7, <1>8, <1>9 DEF Moves

-----------------------------------------------------------------------------
(* The theorems *)

PerceptionInv ==
  /\ PerceptionTypeOK /\ ImagesInv /\ QueueInv /\ PosesInv /\ ClockInv /\ RowsInv
  /\ RemindersInv /\ LivesInv /\ SmootherInv
  /\ PostureIsConfirmed /\ ReminderIsEarned /\ SitterIsReminded

LEMMA PerceptionInitially == Init => PerceptionInv
<1> SUFFICES ASSUME Init PROVE PerceptionInv
  OBVIOUS
<1>1. /\ images = <<>> /\ poses = {} /\ reminders = <<>> /\ queue = <<>> /\ log = <<>>
      /\ worker.pc = "idle" /\ worker.pose = Nobody /\ smoother = NewSmoother
  BY DEF Init, PerceptionInit
<1>2. DOMAIN log = {} /\ DOMAIN reminders = {}
  BY <1>1
<1>3. QueueInv /\ PosesInv /\ ClockInv /\ RowsInv /\ RemindersInv /\ LivesInv
  BY <1>1, <1>2 DEF QueueInv, PosesInv, ClockInv, RowsInv, RemindersInv, LivesInv
<1>4. SmootherInv
  BY <1>1 DEF SmootherInv, NewSmoother
<1>5. PostureIsConfirmed /\ ReminderIsEarned /\ SitterIsReminded
  BY <1>1, <1>2 DEF PostureIsConfirmed, ReminderIsEarned, SitterIsReminded
<1> QED  BY <1>3, <1>4, <1>5, TypesInitially DEF PerceptionInv

LEMMA PerceptionStep == PerceptionInv /\ [Next]_vars => PerceptionInv'
<1> SUFFICES ASSUME PerceptionInv, [Next]_vars PROVE PerceptionInv'
  OBVIOUS
<1> USE DEF PerceptionInv
<1>1. Moves
  BY NextMoves
<1>2. PerceptionTypeOK' /\ ImagesInv' /\ QueueInv'
  BY <1>1, TypesKept, QueueKept
<1>3. ClockInv' /\ PosesInv' /\ RowsInv' /\ RemindersInv'
  BY <1>1, ClockKept, PosesKept, RowsKept, RemindersKept
<1>4. LivesInv' /\ SmootherInv' /\ PostureIsConfirmed'
  BY <1>1, LivesKept, SmootherKept
<1>5. ReminderIsEarned' /\ SitterIsReminded'
  BY <1>1, EarnedKept, SitterKept
<1> QED  BY <1>2, <1>3, <1>4, <1>5

LEMMA PerceptionAlways == Spec => []PerceptionInv
<1> QED  BY PerceptionInitially, PerceptionStep, PTL DEF Spec

(* What the gateway perceives and what starts its runs keep their shape:   *)
(* at most one image waits behind the worker (PoseService.enqueue), and    *)
(* tracker and smoother stay within their bounds.                          *)
THEOREM TypeCorrect == Spec => []TypeOK
<1>1. PerceptionInv /\ TriggersInv => TypeOK
  BY DEF PerceptionInv, TriggersInv, TypeOK
<1> QED  BY <1>1, PerceptionAlways, TriggersInitially, TriggersStep, PTL DEF Spec

(* No posture is told that two results in a row did not show, in any       *)
(* order of failures and restarts (PostureSmoother.update).                *)
THEOREM PosturesAreConfirmed == Spec => []PostureIsConfirmed
<1>1. PerceptionInv => PostureIsConfirmed
  BY DEF PerceptionInv
<1> QED  BY <1>1, PerceptionAlways, PTL

(* Nobody is reminded who has not been sitting for the threshold, whatever *)
(* prune_images has taken of the rows and however often the gateway has    *)
(* restarted (detect_sedentary_event).                                     *)
THEOREM RemindersAreEarned == Spec => []ReminderIsEarned
<1>1. PerceptionInv => ReminderIsEarned
  BY DEF PerceptionInv
<1> QED  BY <1>1, PerceptionAlways, PTL

(* Who has been sitting for the threshold while the policy listens has     *)
(* been reminded once the result is handled, if every result still has its *)
(* row (detect_sedentary_event behind handle_pose_result).                 *)
THEOREM SittersAreReminded == Spec => []SitterIsReminded
<1>1. PerceptionInv => SitterIsReminded
  BY DEF PerceptionInv
<1> QED  BY <1>1, PerceptionAlways, PTL
=============================================================================
