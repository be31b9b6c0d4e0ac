---------------------------- MODULE WindowControl ----------------------------
(***************************************************************************)
(* Who moves the window and the LED of the ESP32-S3 firmware: the control  *)
(* priority and the manual overrides (state/control_state.c), the commands *)
(* and the loop of the actuator task (actuators/actuators.c, main.c), the  *)
(* button (inputs/inputs.c) and the smoke source, which vetoes closing.    *)
(*                                                                         *)
(* A step is what a task does under one lock.  actuator_apply works on a   *)
(* snapshot taken when it begins; the button, the smoke sensor and a       *)
(* restart come between its steps, also while the servo turns (1.2 s).     *)
(* The servo and the LED are wired (CONFIG_APP_ACTUATOR_ENABLED,           *)
(* CONFIG_APP_LED_ENABLED).  Alarm, voice and display commands are those   *)
(* of SmokeAlarm; an iteration that carries one moves the window as an     *)
(* iteration without a command does.  Flash is external: a write to it     *)
(* that fails has stored nothing.                                          *)
(***************************************************************************)
EXTENDS Naturals

CONSTANTS
  MaxWindowCommands,  \* bound on the commands taken from the queue
  MaxRestarts         \* bound on restarts of the device

ASSUME WindowAssumption == MaxWindowCommands \in Nat /\ MaxRestarts \in Nat

VARIABLES
  priority,        \* s_state.priority
  stored,          \* the priority in flash, "unset" before the first write
  window,          \* the window's part of s_state
  led,             \* the LED's part of s_state
  smoke,           \* CONTROL_ALARM_SMOKE is among the alarm sources
  actuator,        \* actuator_task
  windowCommands,  \* commands taken so far
  restarts

windowVars == <<priority, stored, window, led, smoke, actuator, windowCommands, restarts>>

-----------------------------------------------------------------------------
(* Types *)

ControlPriority == {"manual_first", "auto_first"}

CommandSource == {"frontend", "automatic"}

Command ==
  [type: {"window.open", "window.close", "led.on", "led.off"}, source: CommandSource]
    \cup [type: {"control.set_priority"}, to: ControlPriority]
    \cup [type: {"control.resume_auto"}]

NoCommand == [type |-> "none"]

Window == [open: BOOLEAN, overridden: BOOLEAN, manualOpen: BOOLEAN]
Led == [on: BOOLEAN, overridden: BOOLEAN]

(* sawSmoke and target are locals of actuator_apply.                       *)
Actuator == [pc: {"init", "idle", "check", "override", "led", "priority", "enforce",
                  "window", "turning"},
             command: Command \cup {NoCommand}, sawSmoke: BOOLEAN, target: BOOLEAN]

(* Every variable holds what the static or local it stands for can hold.   *)
WindowTypeOK ==
  /\ priority \in ControlPriority
  /\ stored \in ControlPriority \cup {"unset"}
  /\ window \in Window
  /\ led \in Led
  /\ smoke \in BOOLEAN
  /\ actuator \in Actuator
  /\ windowCommands \in 0..MaxWindowCommands
  /\ restarts \in 0..MaxRestarts

-----------------------------------------------------------------------------
ActuatorIdle == [pc |-> "idle", command |-> NoCommand, sawSmoke |-> FALSE, target |-> FALSE]

WindowAtBoot == [open |-> FALSE, overridden |-> FALSE, manualOpen |-> FALSE]
LedAtBoot == [on |-> FALSE, overridden |-> FALSE]

WindowInit ==
  /\ window = WindowAtBoot
  /\ led = LedAtBoot
  /\ smoke = FALSE
  /\ actuator = [ActuatorIdle EXCEPT !.pc = "init"]
  /\ priority = "manual_first"
  /\ stored = "unset"
  /\ windowCommands = 0
  /\ restarts = 0

(* The task returns from actuator_apply.                                   *)
Return == actuator' = ActuatorIdle

ActuatorInit ==
  /\ actuator.pc = "init"
  /\ window' = [window EXCEPT !.open = FALSE]
  /\ led' = [led EXCEPT !.on = FALSE]
  /\ Return
  /\ UNCHANGED <<priority, stored, smoke, windowCommands, restarts>>

-----------------------------------------------------------------------------
(* actuator_apply *)

InManual == priority = "manual_first" /\ window.overridden

(* Mutant: the loop keeps the window where it is.                          *)
TargetAsIs == window.open

(* The target of an iteration that no window command changes.              *)
Target == IF InManual THEN window.manualOpen ELSE window.open

FirstStep(command) ==
  CASE command.type \in {"window.open", "window.close", "led.on", "led.off"} -> "check"
    [] command.type = "control.set_priority" -> "priority"
    [] OTHER -> "window"

(* The loop takes a command, or none, and reads the control state.         *)
Begin(command) ==
  actuator' = [pc |-> FirstStep(command), command |-> command, sawSmoke |-> smoke,
               target |-> Target]

BeginIteration ==
  /\ actuator.pc = "idle"
  /\ Begin(NoCommand)
  /\ UNCHANGED <<priority, stored, window, led, smoke, windowCommands, restarts>>

TakeWindowCommand ==
  /\ actuator.pc = "idle"
  /\ windowCommands < MaxWindowCommands
  /\ windowCommands' = windowCommands + 1
  /\ \E command \in Command :
       IF command.type = "control.resume_auto"
         THEN /\ window' = [window EXCEPT !.overridden = FALSE]
              /\ led' = [led EXCEPT !.overridden = FALSE]
              /\ Return
         ELSE Begin(command) /\ UNCHANGED <<window, led>>
  /\ UNCHANGED <<priority, stored, smoke, restarts>>

OnWindow(command) == command.type \in {"window.open", "window.close"}

(* control_state_is_automatic_source_allowed                               *)
Allowed(command) ==
  \/ command.source = "frontend"
  \/ priority = "auto_first"
  \/ ~(IF OnWindow(command) THEN window.overridden ELSE led.overridden)

Vetoed(command) == command.type = "window.close" /\ actuator.sawSmoke

CheckCommand ==
  /\ actuator.pc = "check"
  /\ IF ~Vetoed(actuator.command) /\ Allowed(actuator.command)
       THEN actuator' = [actuator EXCEPT !.pc = "override"]
       ELSE Return
  /\ UNCHANGED <<priority, stored, window, led, smoke, windowCommands, restarts>>

OverriddenBy(command) == command.source = "frontend" /\ priority = "manual_first"

(* control_state_set_manual_window                                         *)
OverrideWindow ==
  /\ actuator.pc = "override" /\ OnWindow(actuator.command)
  /\ LET open == actuator.command.type = "window.open" IN
       /\ window' = [window EXCEPT !.overridden = OverriddenBy(actuator.command),
                                   !.manualOpen = open]
       /\ actuator' = [actuator EXCEPT !.pc = "window", !.target = open]
  /\ UNCHANGED <<priority, stored, led, smoke, windowCommands, restarts>>

(* control_state_set_manual_led                                            *)
OverrideLed ==
  /\ actuator.pc = "override" /\ ~OnWindow(actuator.command)
  /\ led' = [led EXCEPT !.overridden = OverriddenBy(actuator.command)]
  /\ actuator' = [actuator EXCEPT !.pc = "led"]
  /\ UNCHANGED <<priority, stored, window, smoke, windowCommands, restarts>>

SetLed ==
  /\ actuator.pc = "led"
  /\ led' = [led EXCEPT !.on = actuator.command.type = "led.on"]
  /\ Return
  /\ UNCHANGED <<priority, stored, window, smoke, windowCommands, restarts>>

(* control_state_set_priority writes the flash first, and only then takes  *)
(* the lock and changes the state.                                         *)
StorePriority ==
  /\ actuator.pc = "priority"
  /\ stored' = actuator.command.to
  /\ actuator' = [actuator EXCEPT !.pc = "enforce"]
  /\ UNCHANGED <<priority, window, led, smoke, windowCommands, restarts>>

StoreFails ==
  /\ actuator.pc = "priority" /\ Return
  /\ UNCHANGED <<priority, stored, window, led, smoke, windowCommands, restarts>>

SetPriority ==
  /\ actuator.pc = "enforce"
  /\ priority' = actuator.command.to
  /\ IF priority' = "auto_first"
       THEN /\ window' = [window EXCEPT !.overridden = FALSE]
            /\ led' = [led EXCEPT !.overridden = FALSE]
       ELSE UNCHANGED <<window, led>>
  /\ Return
  /\ UNCHANGED <<stored, smoke, windowCommands, restarts>>

(* set_window                                                              *)
StartTurning ==
  /\ actuator.pc = "window" /\ window.open # actuator.target
  /\ actuator' = [actuator EXCEPT !.pc = "turning"]
  /\ UNCHANGED <<priority, stored, window, led, smoke, windowCommands, restarts>>

WindowInPlace ==
  /\ actuator.pc = "window" /\ window.open = actuator.target
  /\ Return
  /\ UNCHANGED <<priority, stored, window, led, smoke, windowCommands, restarts>>

Turned ==
  /\ actuator.pc = "turning"
  /\ window' = [window EXCEPT !.open = actuator.target]
  /\ Return
  /\ UNCHANGED <<priority, stored, led, smoke, windowCommands, restarts>>

ActuatorStep ==
  \/ ActuatorInit \/ BeginIteration \/ TakeWindowCommand \/ CheckCommand
  \/ OverrideWindow \/ OverrideLed \/ SetLed
  \/ StorePriority \/ StoreFails \/ SetPriority
  \/ StartTurning \/ WindowInPlace \/ Turned

-----------------------------------------------------------------------------
(* The button, the smoke sensor and a restart *)

(* control_state_toggle_manual_window                                      *)
PressButton ==
  /\ window' = [window EXCEPT !.overridden = priority = "manual_first",
                              !.manualOpen = ~@]
  /\ UNCHANGED <<priority, stored, led, smoke, actuator, windowCommands, restarts>>

SmokeChanges ==
  /\ smoke' = ~smoke
  /\ UNCHANGED <<priority, stored, window, led, actuator, windowCommands, restarts>>

(* Mutant: the device comes up with the default priority.                  *)
DefaultPriority == "manual_first"

(* control_state_init                                                      *)
PriorityAtBoot == IF stored = "unset" THEN "manual_first" ELSE stored

Restart ==
  /\ restarts < MaxRestarts
  /\ restarts' = restarts + 1
  /\ window' = WindowAtBoot
  /\ led' = LedAtBoot
  /\ smoke' = FALSE
  /\ actuator' = [ActuatorIdle EXCEPT !.pc = "init"]
  /\ priority' = PriorityAtBoot
  /\ UNCHANGED <<stored, windowCommands>>

WindowNext == ActuatorStep \/ PressButton \/ SmokeChanges \/ Restart

WindowSpec == WindowInit /\ [][WindowNext]_windowVars

(* FreeRTOS schedules the actuator task again and again.                   *)
FairWindowSpec == WindowSpec /\ WF_windowVars(ActuatorStep)

-----------------------------------------------------------------------------
(* Properties *)

(* In AUTO_FIRST nothing is overridden, however a command of the frontend, *)
(* a button press and a change of priority interleave: an override that    *)
(* survived would block the automation when MANUAL_FIRST returns.          *)
AutoFirstOverridesNothing ==
  priority = "auto_first" => ~window.overridden /\ ~led.overridden

(* The priority in force is the priority in flash, but between the two     *)
(* writes of one command: a change that failed is not in force, and a      *)
(* restart brings back what was in force.                                  *)
PriorityIsStored ==
  \/ priority = stored
  \/ stored = "unset" /\ priority = "manual_first"
  \/ actuator.pc = "enforce" /\ stored = actuator.command.to

(* A manual target that is not replaced is reached and kept: button        *)
(* presses during a turn, commands and restarts in between do not lose it. *)
ManualTargetIsReached ==
  \A open \in BOOLEAN :
    <>[](InManual /\ window.manualOpen = open) => <>[](window.open = open)

(* Smoke vetoes closing: an iteration of the loop that saw the smoke       *)
(* source does not start to close the window.                              *)
SmokeVetoesClosing ==
  [][actuator'.pc = "turning" /\ actuator.pc # "turning" /\ actuator.sawSmoke
       => actuator.target]_windowVars
=============================================================================
