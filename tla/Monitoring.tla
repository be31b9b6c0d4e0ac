----------------------------- MODULE Monitoring -----------------------------
(***************************************************************************)
(* The gateway that perceives (Perception) and what starts the AI runs     *)
(* (AiTriggers), as the gateway puts them together (main.py): the result   *)
(* of an image changes what a patrol looks at, and a reminder is an        *)
(* incident, told by the pose worker before it takes the next image.       *)
(***************************************************************************)
EXTENDS Perception, AiTriggers

CONSTANT Scenes  \* the chances of a behaviour: of images, and of the rest

ASSUME MonitoringAssumption == Scenes \subseteq Shots \X Chances

vars == <<perceptionVars, triggerVars>>

TypeOK == PerceptionTypeOK /\ TriggersTypeOK

Init ==
  /\ \E scene \in Scenes : allowed = scene[1] /\ budget = scene[2]
  /\ PerceptionInit
  /\ TriggersInit

-----------------------------------------------------------------------------
(* A result, or its loss by pruning, shows in a snapshot of the device.    *)
Show ==
  /\ Upload \/ \E o \in allowed.outcomes : Record(o[1], o[2])
  /\ world' = [world EXCEPT !.present = Present(poses')]
  /\ UNCHANGED <<policy, runs, lease, ticks, calls, unread, looked, budget>>

(* detect_sedentary_event: the switch of the events is not asked.          *)
Detects == policy.enabled /\ policy.sedentary

(* The worker awaits result_handler before it takes the next image.        *)
Perceive ==
  /\ \/ AnalyseAgain \/ Second
     \/ calls["pose"].pc = "idle" /\ TakeImage
     \/ \E o \in allowed.outcomes : Lose(o[1], o[2])
     \/ NotDue(Detects)
  /\ UNCHANGED triggerVars

(* handle_pose_result                                                      *)
RemindAndTell ==
  /\ Detects
  /\ Remind
  /\ Incident("pose")
  /\ UNCHANGED <<policy, world, lease, ticks, looked, budget>>

Trigger == TriggersNext /\ UNCHANGED perceptionVars

(* The gateway stops and starts again; the workers go on.                  *)
GatewayCrash ==
  /\ Spend("crashes")
  /\ PerceptionCrash
  /\ calls' = [c \in Callers |-> [pc |-> "idle", found |-> FALSE]]
  /\ UNCHANGED <<policy, world, runs, lease, ticks, unread, looked>>

Next == Show \/ Perceive \/ RemindAndTell \/ Trigger \/ GatewayCrash

(* Schedulers tick, calls return, runs are worked on, and time goes by;    *)
(* no image ever has to come.                                              *)
Fairness ==
  /\ \A i \in Instances : WF_vars(Schedule(i) /\ UNCHANGED perceptionVars)
  /\ WF_vars((\E c \in Callers : Call(c)) /\ UNCHANGED perceptionVars)
  /\ \A k \in Kinds :
       WF_vars((\E n \in 1..MaxRuns : Work(k, n)) /\ UNCHANGED perceptionVars)
  /\ \A k \in Scheduled :
       /\ WF_vars(IntervalEnds(k) /\ UNCHANGED perceptionVars)
       /\ WF_vars(ForceIntervalEnds(k) /\ UNCHANGED perceptionVars)
  /\ WF_vars(LeaseExpires /\ UNCHANGED perceptionVars)

Spec == Init /\ [][Next]_vars /\ Fairness
=============================================================================
