---------------------------- MODULE FirmwareProofs ----------------------------
(***************************************************************************)
(* Proofs about the three modules of the ESP32-S3 device, for every value  *)
(* of their constants.                                                     *)
(*                                                                         *)
(* SmokeAlarm: its types, that no silence outlives its episode, and that   *)
(* the pending bit stands for one warning.                                 *)
(*                                                                         *)
(* WindowControl: its types, that nothing is overridden in AUTO_FIRST, and *)
(* that the priority in force is the one in flash.                         *)
(*                                                                         *)
(* FirmwareSimulator: that the events tell the episode, that a client that *)
(* was stopped is retained as offline, and that the alarm is due.          *)
(***************************************************************************)
EXTENDS SmokeAlarm, WindowControl, FirmwareSimulator, SequenceTheorems, TLAPS

-----------------------------------------------------------------------------
(* The smoke alarm *)

SafetyPc == {"poll", "read", "beep", "voice", "episode"}

(* Updates of the safety task's record leave it one.                       *)
LEMMA SafetyUpdates ==
  ASSUME NEW s \in Safety
  PROVE  /\ \A p \in SafetyPc : [s EXCEPT !.pc = p] \in Safety
         /\ \A p \in SafetyPc, b \in BOOLEAN :
              /\ [s EXCEPT !.pc = p, !.detected = b] \in Safety
              /\ [s EXCEPT !.pc = p, !.alarm = b] \in Safety
              /\ [s EXCEPT !.pc = p, !.silenced = b] \in Safety
         /\ \A e \in BOOLEAN, c \in AlarmTimer, n \in {"recent", "old"} :
              [s EXCEPT !.pc = "poll", !.episode = e, !.clear = c, !.announced = n]
                \in Safety
         /\ \A c \in AlarmTimer : /\ [s EXCEPT !.pc = "poll", !.clear = c] \in Safety
                             /\ [s EXCEPT !.clear = c] \in Safety
         /\ [s EXCEPT !.announced = "old"] \in Safety
<1> USE DEF Safety, SafetyPc
<1>1. \A p \in SafetyPc : [s EXCEPT !.pc = p] \in Safety
  OBVIOUS
<1>2. ASSUME NEW p \in SafetyPc, NEW b \in BOOLEAN
      PROVE  /\ [s EXCEPT !.pc = p, !.detected = b] \in Safety
             /\ [s EXCEPT !.pc = p, !.alarm = b] \in Safety
             /\ [s EXCEPT !.pc = p, !.silenced = b] \in Safety
  OBVIOUS
<1>3. \A e \in BOOLEAN, c \in AlarmTimer, n \in {"recent", "old"} :
        [s EXCEPT !.pc = "poll", !.episode = e, !.clear = c, !.announced = n] \in Safety
  OBVIOUS
<1>4. \A c \in AlarmTimer : /\ [s EXCEPT !.pc = "poll", !.clear = c] \in Safety
                       /\ [s EXCEPT !.clear = c] \in Safety
  OBVIOUS
<1>5. [s EXCEPT !.announced = "old"] \in Safety
  OBVIOUS
<1> QED  BY <1>1, <1>2, <1>3, <1>4, <1>5

(* So do updates of the actuator task's and of the announcer's.            *)
LEMMA TaskUpdates ==
  /\ \A a \in Refresher, p \in {"init", "idle", "read", "beep"}, b \in BOOLEAN :
       /\ [a EXCEPT !.pc = p] \in Refresher
       /\ [a EXCEPT !.pc = p, !.alarm = b] \in Refresher
  /\ \A a \in Announcer, p \in {"wait", "check", "speak", "done"} :
       [a EXCEPT !.pc = p] \in Announcer
  BY DEF Refresher, Announcer

(* An announcement that is checked again has an attempt left.              *)
AttemptInv == announcer.pc = "check" => announcer.attempt < VoiceAttempts

(* The announcer keeps to its attempts.                                    *)
LEMMA AttemptsLeft ==
  ASSUME AlarmTypeOK, AttemptInv, AnnouncerStep
  PROVE  announcer' \in Announcer /\ announcer'.attempt <= VoiceAttempts /\ AttemptInv'
<1> USE AlarmAssumption DEF AlarmTypeOK, AttemptInv
<1>1. CASE ReceiveWarning
  BY <1>1 DEF ReceiveWarning, Announcer
<1>2. CASE Check
  <2>1. CASE voice.active /\ ~voice.silenced
    <3>1. announcer' = [announcer EXCEPT !.pc = "speak", !.attempt = @ + 1]
      BY <1>2, <2>1 DEF Check
    <3>2. announcer.attempt + 1 \in Nat /\ announcer.attempt + 1 <= VoiceAttempts
      BY <1>2 DEF Check, Announcer
    <3>3. announcer \in Announcer
      OBVIOUS
    <3> HIDE DEF AlarmTypeOK, AttemptInv
    <3>4. /\ announcer' \in Announcer
          /\ announcer'.attempt = announcer.attempt + 1
          /\ announcer'.pc = "speak"
      BY <3>1, <3>2, <3>3 DEF Announcer
    <3> QED  BY <3>2, <3>4 DEF AttemptInv
  <2>2. CASE ~(voice.active /\ ~voice.silenced)
    <3>1. announcer' = [announcer EXCEPT !.pc = "done"]
      BY <1>2, <2>2 DEF Check
    <3> QED  BY <3>1 DEF Announcer
  <2> QED  BY <2>1, <2>2
<1>3. CASE Speak
  BY <1>3 DEF Speak, Announcer
<1>4. CASE Finish
  BY <1>4 DEF Finish, Announcer
<1> QED  BY <1>1, <1>2, <1>3, <1>4 DEF AnnouncerStep

(* The variables hold values of their types in every reachable state.      *)
THEOREM AlarmTypeCorrect == AlarmSpec => []AlarmTypeOK
<1>1. ASSUME AlarmInit PROVE AlarmTypeOK /\ AttemptInv
  <2> USE <1>1 DEF AlarmInit
  <2>1. safety \in Safety
    BY DEF Safety, AlarmTimer
  <2>2. refresher \in Refresher /\ announcer \in Announcer
    BY DEF Refresher, Announcer
  <2>3. voice \in [active: BOOLEAN, silenced: BOOLEAN]
    OBVIOUS
  <2>4. alarmCommands \in 0..MaxAlarmCommands /\ announcer.attempt <= VoiceAttempts
    BY AlarmAssumption
  <2> QED  BY <2>1, <2>2, <2>3, <2>4 DEF AlarmTypeOK, AttemptInv, AlarmTimer
<1>2. AlarmTypeOK /\ AttemptInv /\ [AlarmNext]_alarmVars => AlarmTypeOK' /\ AttemptInv'
  <2> SUFFICES ASSUME AlarmTypeOK, AttemptInv, [AlarmNext]_alarmVars PROVE AlarmTypeOK' /\ AttemptInv'
    OBVIOUS
  <2> USE DEF AlarmTypeOK, AttemptInv, control, speech
  <2>a. Refreshed \in AlarmTimer
    BY DEF Refreshed, AlarmTimer
  <2>b. AlarmOn \in BOOLEAN /\ Silenced \in BOOLEAN
    BY DEF AlarmOn, Silenced
  <2>c. "unset" \in AlarmTimer /\ "running" \in AlarmTimer /\ "elapsed" \in AlarmTimer
    BY DEF AlarmTimer
  <2>1. CASE SafetyStep
    <3>1. CASE Poll
      <4>1. PICK detected \in BOOLEAN :
              /\ sources' \in {sources \cup {"smoke"}, sources \ {"smoke"}}
              /\ safety' = [safety EXCEPT !.pc = "read", !.detected = detected]
        BY <3>1 DEF Poll
      <4>2. safety' \in Safety
        BY <4>1, SafetyUpdates DEF SafetyPc
      <4>3. sources' \subseteq AlarmSource
        BY <4>1 DEF AlarmSource
      <4> QED  BY <2>a, <3>1, <4>2, <4>3 DEF Poll
    <3>2. CASE SafetyReadsAlarm
      BY <2>a, <2>b, <3>2, SafetyUpdates DEF SafetyPc, SafetyReadsAlarm
    <3>3. CASE SafetyBeeps
      <4>1. safety.alarm \in BOOLEAN
        BY DEF Safety
      <4> QED  BY <3>3, <4>1, SafetyUpdates DEF SafetyPc, SafetyBeeps
    <3>4. CASE TellVoice
      BY <2>a, <2>b, <3>4, SafetyUpdates DEF SafetyPc, TellVoice
    <3>5. CASE SmokePresent
      <4>1. PICK n \in {"recent", "old"} :
              safety' = [safety EXCEPT !.pc = "poll", !.episode = TRUE, !.clear = "unset",
                                       !.announced = n]
        BY <3>5 DEF SmokePresent, Safety
      <4>2. pending' \in BOOLEAN /\ queued' \in BOOLEAN
        BY <3>5 DEF SmokePresent, QueueWarning
      <4>3. safety' \in Safety
        BY <2>c, <4>1, SafetyUpdates
      <4> QED  BY <3>5, <4>2, <4>3 DEF SmokePresent
    <3>6. CASE SmokeAbsent
      <4>1. CASE EndEpisode
        <5>1. PICK n \in {"recent", "old"} :
                safety' = [safety EXCEPT !.pc = "poll", !.episode = FALSE,
                                         !.clear = "unset", !.announced = n]
          BY <4>1 DEF EndEpisode
        <5>2. safety' \in Safety
          BY <2>c, <5>1, SafetyUpdates
        <5> QED  BY <2>c, <4>1, <5>2 DEF EndEpisode
      <4>2. CASE StartClearing
        <5>1. PICK c \in AlarmTimer : safety' = [safety EXCEPT !.pc = "poll", !.clear = c]
          BY <2>c, <4>2 DEF StartClearing, Safety
        <5>2. safety' \in Safety
          BY <5>1, SafetyUpdates
        <5> QED  BY <4>2, <5>2 DEF StartClearing
      <4> QED  BY <3>6, <4>1, <4>2 DEF SmokeAbsent
    <3> QED  BY <2>1, <3>1, <3>2, <3>3, <3>4, <3>5, <3>6 DEF SafetyStep
  <2>2. CASE RefresherStep
    <3>1. Take => alarmCommands' \in 0..MaxAlarmCommands
      BY AlarmAssumption DEF Take
    <3>2. CASE RefresherInit
      BY <3>2, TaskUpdates DEF RefresherInit
    <3>3. CASE NoAlarmCommand
      BY <3>3, TaskUpdates DEF NoAlarmCommand
    <3>4. CASE AlarmCommand
      BY <2>a, <3>1, <3>4, TaskUpdates DEF AlarmCommand, AlarmSource
    <3>5. CASE SilenceCommand
      BY <2>a, <2>c, <3>1, <3>5, TaskUpdates DEF SilenceCommand
    <3>6. CASE ActuatorReadsAlarm
      BY <2>a, <2>b, <3>6, TaskUpdates DEF ActuatorReadsAlarm
    <3>7. CASE ActuatorBeeps
      <4>1. refresher.alarm \in BOOLEAN
        BY DEF Refresher
      <4> QED  BY <3>7, <4>1, TaskUpdates DEF ActuatorBeeps
    <3> QED  BY <2>2, <3>2, <3>3, <3>4, <3>5, <3>6, <3>7 DEF RefresherStep
  <2>3. CASE AnnouncerStep
    BY <2>3, AttemptsLeft DEF AnnouncerStep, ReceiveWarning, Check, Speak, Finish
  <2>4. CASE Clock
    <3>1. CASE SilenceRunsOut
      BY <2>c, <3>1 DEF SilenceRunsOut
    <3>2. CASE ClearIsStable
      <4>1. safety' \in Safety
        BY <2>c, <3>2, SafetyUpdates DEF ClearIsStable
      <4> QED  BY <3>2, <4>1 DEF ClearIsStable
    <3>3. CASE WarningAges
      <4>1. safety' \in Safety
        BY <3>3, SafetyUpdates DEF WarningAges
      <4> QED  BY <3>3, <4>1 DEF WarningAges
    <3> QED  BY <2>4, <3>1, <3>2, <3>3 DEF Clock
  <2>5. CASE UNCHANGED alarmVars
    BY <2>5 DEF alarmVars
  <2> QED  BY <2>1, <2>2, <2>3, <2>4, <2>5 DEF AlarmNext
<1> QED  BY <1>1, <1>2, PTL DEF AlarmSpec

-----------------------------------------------------------------------------
(* What the safety task knows.  Only it changes the smoke source, so the   *)
(* source is its last reading; and a silence that was accepted before the  *)
(* task opened the episode of this reading is within the same round.       *)
EpisodeInv ==
  /\ "smoke" \in sources <=> safety.detected
  /\ safety.detected /\ safety.pc = "poll" => safety.episode
  /\ silence = "running" => safety.episode \/ (safety.detected /\ safety.pc # "poll")

(* A silence window never outlives its smoke episode.                      *)
THEOREM SilenceIsOfItsEpisode == AlarmSpec => []SilenceEndsWithEpisode
<1>1. AlarmInit => EpisodeInv
  BY DEF AlarmInit, EpisodeInv
<1>2. AlarmTypeOK /\ EpisodeInv /\ [AlarmNext]_alarmVars => EpisodeInv'
  <2> SUFFICES ASSUME AlarmTypeOK, EpisodeInv, [AlarmNext]_alarmVars PROVE EpisodeInv'
    OBVIOUS
  <2> USE DEF EpisodeInv, AlarmTypeOK, Safety, control, speech
  <2> Refreshed = "running" => silence = "running"
    BY DEF Refreshed
  <2>1. CASE SafetyStep
    <3>1. CASE Poll  BY <3>1 DEF Poll
    <3>2. CASE SafetyReadsAlarm  BY <3>2 DEF SafetyReadsAlarm
    <3>3. CASE SafetyBeeps  BY <3>3 DEF SafetyBeeps
    <3>4. CASE TellVoice  BY <3>4 DEF TellVoice
    <3>5. CASE SmokePresent  BY <3>5 DEF SmokePresent
    <3>6. CASE SmokeAbsent
      BY <3>6 DEF SmokeAbsent, EndEpisode, StartClearing
    <3> QED  BY <2>1, <3>1, <3>2, <3>3, <3>4, <3>5, <3>6 DEF SafetyStep
  <2>2. CASE RefresherStep
    <3>1. CASE AlarmCommand  BY <3>1 DEF AlarmCommand
    <3>2. CASE SilenceCommand  BY <3>2 DEF SilenceCommand, SilencePermitted
    <3>3. CASE RefresherInit \/ NoAlarmCommand \/ ActuatorReadsAlarm \/ ActuatorBeeps
      BY <3>3 DEF RefresherInit, NoAlarmCommand, ActuatorReadsAlarm, ActuatorBeeps
    <3> QED  BY <2>2, <3>1, <3>2, <3>3 DEF RefresherStep
  <2>3. CASE AnnouncerStep
    BY <2>3 DEF AnnouncerStep, ReceiveWarning, Check, Speak, Finish
  <2>4. CASE Clock
    BY <2>4 DEF Clock, SilenceRunsOut, ClearIsStable, WarningAges
  <2>5. CASE UNCHANGED alarmVars
    BY <2>5 DEF alarmVars
  <2> QED  BY <2>1, <2>2, <2>3, <2>4, <2>5 DEF AlarmNext
<1>3. EpisodeInv => SilenceEndsWithEpisode
  BY DEF EpisodeInv, SilenceEndsWithEpisode
<1> QED  BY <1>1, <1>2, <1>3, AlarmTypeCorrect, PTL DEF AlarmSpec

-----------------------------------------------------------------------------
(* The pending bit stands for exactly one warning: the invariant is        *)
(* inductive, because the safety task, which sets the bit, and the         *)
(* announcer, which clears it last, hand the one warning over.             *)
THEOREM NoWarningIsLost == AlarmSpec => []PendingIsOneWarning
<1>1. AlarmInit => PendingIsOneWarning
  BY DEF AlarmInit, PendingIsOneWarning
<1>2. AlarmTypeOK /\ PendingIsOneWarning /\ [AlarmNext]_alarmVars => PendingIsOneWarning'
  <2> SUFFICES ASSUME AlarmTypeOK, PendingIsOneWarning, [AlarmNext]_alarmVars
               PROVE PendingIsOneWarning'
    OBVIOUS
  <2> USE DEF PendingIsOneWarning, AlarmTypeOK, Announcer, speech
  <2>1. CASE SafetyStep
    <3>1. CASE Poll \/ SafetyReadsAlarm \/ SafetyBeeps \/ TellVoice \/ SmokeAbsent
      BY <3>1 DEF Poll, SafetyReadsAlarm, SafetyBeeps, TellVoice, SmokeAbsent,
                  EndEpisode, StartClearing
    <3>2. CASE SmokePresent  BY <3>2 DEF SmokePresent, QueueWarning
    <3> QED  BY <2>1, <3>1, <3>2 DEF SafetyStep
  <2>2. CASE RefresherStep
    BY <2>2 DEF RefresherStep, RefresherInit, NoAlarmCommand, AlarmCommand, SilenceCommand,
                ActuatorReadsAlarm, ActuatorBeeps
  <2>3. CASE AnnouncerStep
    <3>1. CASE ReceiveWarning  BY <3>1 DEF ReceiveWarning
    <3>2. CASE Check  BY <3>2 DEF Check
    <3>3. CASE Speak  BY <3>3 DEF Speak
    <3>4. CASE Finish  BY <3>4 DEF Finish
    <3> QED  BY <2>3, <3>1, <3>2, <3>3, <3>4 DEF AnnouncerStep
  <2>4. CASE Clock
    BY <2>4 DEF Clock, SilenceRunsOut, ClearIsStable, WarningAges
  <2>5. CASE UNCHANGED alarmVars
    BY <2>5 DEF alarmVars
  <2> QED  BY <2>1, <2>2, <2>3, <2>4, <2>5 DEF AlarmNext
<1> QED  BY <1>1, <1>2, AlarmTypeCorrect, PTL DEF AlarmSpec

-----------------------------------------------------------------------------
(* The window and the LED *)

(* Writing a column of the control state leaves it one.                    *)
LEMMA ControlUpdates ==
  ASSUME NEW b \in BOOLEAN, NEW m \in BOOLEAN
  PROVE  /\ \A w \in Window : /\ [w EXCEPT !.open = b] \in Window
                              /\ [w EXCEPT !.overridden = b] \in Window
                              /\ [w EXCEPT !.overridden = b, !.manualOpen = m] \in Window
         /\ \A l \in Led : /\ [l EXCEPT !.on = b] \in Led
                           /\ [l EXCEPT !.overridden = b] \in Led
<1>1. \A w \in Window : [w EXCEPT !.open = b] \in Window
  BY Zenon DEF Window
<1>2. \A w \in Window : [w EXCEPT !.overridden = b] \in Window
  BY Zenon DEF Window
<1>3. \A w \in Window : [w EXCEPT !.overridden = b, !.manualOpen = m] \in Window
  BY DEF Window
<1>4. \A l \in Led : [l EXCEPT !.on = b] \in Led /\ [l EXCEPT !.overridden = b] \in Led
  BY DEF Led
<1> QED  BY <1>1, <1>2, <1>3, <1>4

(* A command that writes a priority carries one.                           *)
CarriesPriority ==
  actuator.pc \in {"priority", "enforce"} => actuator.command.to \in ControlPriority

(* The variables hold values of their types in every reachable state.      *)
THEOREM WindowTypeCorrect == WindowSpec => []WindowTypeOK
<1> USE DEF WindowTypeOK, CarriesPriority, Actuator, Window, Led, ControlPriority, ActuatorIdle, NoCommand
<1>0. /\ WindowAtBoot \in Window /\ LedAtBoot \in Led
      /\ [ActuatorIdle EXCEPT !.pc = "init"] \in Actuator
  BY DEF WindowAtBoot, LedAtBoot
<1>1. ASSUME WindowInit PROVE WindowTypeOK /\ CarriesPriority
  <2>1. windowCommands \in 0..MaxWindowCommands /\ restarts \in 0..MaxRestarts
    BY <1>1, WindowAssumption DEF WindowInit
  <2>2. CarriesPriority
    BY <1>1 DEF WindowInit
  <2> HIDE DEF Actuator, Window, Led, ActuatorIdle, CarriesPriority
  <2> QED  BY <1>0, <1>1, <2>1, <2>2 DEF WindowInit
<1>2. WindowTypeOK /\ CarriesPriority /\ [WindowNext]_windowVars => WindowTypeOK' /\ CarriesPriority'
  <2> SUFFICES ASSUME WindowTypeOK, CarriesPriority, [WindowNext]_windowVars
               PROVE  WindowTypeOK' /\ CarriesPriority'
    OBVIOUS
  <2> Target \in BOOLEAN
    BY DEF Target
  <2>1. ASSUME NEW command \in Command \cup {NoCommand}, Begin(command)
        PROVE  actuator' \in Actuator /\ CarriesPriority'
    <3>1. FirstStep(command) \in {"check", "priority", "window"}
      BY DEF FirstStep
    <3>2. FirstStep(command) = "priority" => command.to \in ControlPriority
      BY DEF FirstStep, Command
    <3> QED  BY <2>1, <3>1, <3>2 DEF Begin
  <2>2. Return => actuator' \in Actuator /\ CarriesPriority'
    BY DEF Return
  <2>3. CASE ActuatorInit
    BY <2>2, <2>3 DEF ActuatorInit
  <2>4. CASE BeginIteration
    BY <2>1, <2>4 DEF BeginIteration
  <2>5. CASE TakeWindowCommand
    <3>1. windowCommands' \in 0..MaxWindowCommands
      BY <2>5, WindowAssumption DEF TakeWindowCommand
    <3>2. PICK command \in Command :
            IF command.type = "control.resume_auto"
              THEN /\ window' = [window EXCEPT !.overridden = FALSE]
                   /\ led' = [led EXCEPT !.overridden = FALSE]
                   /\ Return
              ELSE Begin(command) /\ UNCHANGED <<window, led>>
      BY <2>5 DEF TakeWindowCommand
    <3>3. actuator' \in Actuator /\ CarriesPriority'
      BY <2>1, <2>2, <3>2
    <3>4. window' \in Window /\ led' \in Led
      <4> HIDE DEF Actuator, Window, Led, ActuatorIdle, CarriesPriority, NoCommand
      <4>1. FALSE \in BOOLEAN
        OBVIOUS
      <4> QED  BY <3>2, <4>1, ControlUpdates
    <3> QED  BY <2>5, <3>1, <3>3, <3>4 DEF TakeWindowCommand
  <2>6. CASE CheckCommand
    BY <2>2, <2>6 DEF CheckCommand
  <2>7. CASE OverrideWindow
    <3> OverriddenBy(actuator.command) \in BOOLEAN
      BY DEF OverriddenBy
    <3> QED  BY <2>7 DEF OverrideWindow
  <2>8. CASE OverrideLed
    <3> OverriddenBy(actuator.command) \in BOOLEAN
      BY DEF OverriddenBy
    <3> QED  BY <2>8 DEF OverrideLed
  <2>9. CASE SetLed
    <3>1. (actuator.command.type = "led.on") \in BOOLEAN
      OBVIOUS
    <3>2. led' = [led EXCEPT !.on = (actuator.command.type = "led.on")]
      BY <2>9 DEF SetLed
    <3>3. actuator' \in Actuator /\ CarriesPriority'
      BY <2>2, <2>9 DEF SetLed
    <3> HIDE DEF Actuator, Window, Led, ActuatorIdle, CarriesPriority, NoCommand
    <3>4. led' \in Led
      BY <3>1, <3>2, ControlUpdates
    <3> QED  BY <2>9, <3>3, <3>4 DEF SetLed
  <2>10. CASE StorePriority
    BY <2>10 DEF StorePriority
  <2>11. CASE StoreFails
    BY <2>2, <2>11 DEF StoreFails
  <2>12. CASE SetPriority
    <3>1. actuator.command.to \in ControlPriority
      BY <2>12 DEF SetPriority
    <3>2. window' \in Window /\ led' \in Led
      <4> HIDE DEF Actuator, Window, Led, ActuatorIdle, CarriesPriority, NoCommand
      <4>1. FALSE \in BOOLEAN
        OBVIOUS
      <4> QED  BY <2>12, <4>1, ControlUpdates DEF SetPriority
    <3>3. actuator' \in Actuator /\ CarriesPriority'
      BY <2>2, <2>12 DEF SetPriority
    <3> HIDE DEF Actuator, Window, Led, CarriesPriority
    <3> QED  BY <2>12, <3>1, <3>2, <3>3 DEF SetPriority
  <2>13. CASE StartTurning \/ WindowInPlace \/ Turned
    BY <2>2, <2>13 DEF StartTurning, WindowInPlace, Turned
  <2>14. CASE PressButton \/ SmokeChanges
    <3>1. CASE PressButton
      <4>1. (priority = "manual_first") \in BOOLEAN /\ (~window.manualOpen) \in BOOLEAN
        OBVIOUS
      <4>2. window' = [window EXCEPT !.overridden = (priority = "manual_first"),
                                     !.manualOpen = ~window.manualOpen]
        BY <3>1 DEF PressButton
      <4> HIDE DEF Actuator, Window, Led, ActuatorIdle, NoCommand
      <4>3. window' \in Window
        BY <4>1, <4>2, ControlUpdates
      <4> QED  BY <3>1, <4>3 DEF PressButton
    <3>2. CASE SmokeChanges
      BY <3>2 DEF SmokeChanges
    <3> QED  BY <2>14, <3>1, <3>2
  <2>15. CASE Restart
    <3>1. restarts' \in 0..MaxRestarts
      BY <2>15, WindowAssumption DEF Restart
    <3>2. priority' \in ControlPriority
      BY <2>15 DEF Restart, PriorityAtBoot
    <3>3. CarriesPriority'
      BY <2>15 DEF Restart
    <3> HIDE DEF Actuator, Window, Led, ActuatorIdle, CarriesPriority
    <3> QED  BY <1>0, <3>3, <2>15, <3>1, <3>2 DEF Restart
  <2>16. CASE UNCHANGED windowVars
    BY <2>16 DEF windowVars
  <2> QED  BY <2>3, <2>4, <2>5, <2>6, <2>7, <2>8, <2>9, <2>10, <2>11, <2>12, <2>13,
              <2>14, <2>15, <2>16 DEF WindowNext, ActuatorStep
<1> QED  BY <1>1, <1>2, PTL DEF WindowSpec

-----------------------------------------------------------------------------
(* AUTO_FIRST excludes an override: every step leaves the overrides alone, *)
(* clears them, or sets one while it sees MANUAL_FIRST under the lock.     *)
THEOREM OverridesAreManual == WindowSpec => []AutoFirstOverridesNothing
<1>1. WindowInit => AutoFirstOverridesNothing
  BY DEF WindowInit, AutoFirstOverridesNothing
<1>2. WindowTypeOK /\ AutoFirstOverridesNothing /\ [WindowNext]_windowVars => AutoFirstOverridesNothing'
  <2> SUFFICES ASSUME WindowTypeOK, AutoFirstOverridesNothing, [WindowNext]_windowVars
               PROVE  AutoFirstOverridesNothing'
    OBVIOUS
  <2> USE DEF WindowTypeOK, Window, Led, AutoFirstOverridesNothing
  <2>1. CASE ActuatorInit \/ BeginIteration \/ CheckCommand \/ StorePriority
               \/ StoreFails \/ StartTurning \/ WindowInPlace \/ SmokeChanges
    BY <2>1 DEF ActuatorInit, BeginIteration, CheckCommand, StorePriority, StoreFails,
                StartTurning, WindowInPlace, SmokeChanges
  <2>2. CASE TakeWindowCommand
    BY <2>2 DEF TakeWindowCommand
  <2>3. CASE OverrideWindow
    BY <2>3 DEF OverrideWindow, OverriddenBy
  <2>4. CASE OverrideLed
    BY <2>4 DEF OverrideLed, OverriddenBy
  <2>5. CASE SetLed \/ Turned
    BY <2>5 DEF SetLed, Turned
  <2>6. CASE SetPriority
    BY <2>6 DEF SetPriority
  <2>7. CASE PressButton
    BY <2>7 DEF PressButton
  <2>8. CASE Restart
    BY <2>8 DEF Restart, WindowAtBoot, LedAtBoot
  <2>9. CASE UNCHANGED windowVars
    BY <2>9 DEF windowVars
  <2> QED  BY <2>1, <2>2, <2>3, <2>4, <2>5, <2>6, <2>7, <2>8, <2>9 DEF WindowNext, ActuatorStep
<1> QED  BY <1>1, <1>2, WindowTypeCorrect, PTL DEF WindowSpec

-----------------------------------------------------------------------------
(* Between the write of the flash and that of the state, the flash holds   *)
(* the priority of the command; otherwise it holds the one in force.       *)
StoredInv ==
  /\ PriorityIsStored
  /\ actuator.pc = "enforce" => stored = actuator.command.to

(* The priority in force is durable: a restart at any point brings up      *)
(* either it or the one whose command was about to take force.             *)
THEOREM PriorityIsDurable == WindowSpec => []PriorityIsStored
<1>1. WindowInit => StoredInv
  BY DEF WindowInit, StoredInv, PriorityIsStored, ActuatorIdle
<1>2. WindowTypeOK /\ StoredInv /\ [WindowNext]_windowVars => StoredInv'
  <2> SUFFICES ASSUME WindowTypeOK, StoredInv, [WindowNext]_windowVars PROVE StoredInv'
    OBVIOUS
  <2> USE DEF WindowTypeOK, Actuator, StoredInv, PriorityIsStored, ActuatorIdle, Return
  <2>1. CASE ActuatorInit \/ CheckCommand \/ OverrideWindow \/ OverrideLed \/ SetLed
    <3>1. CASE ActuatorInit  BY <3>1 DEF ActuatorInit
    <3>2. CASE CheckCommand  BY <3>2 DEF CheckCommand
    <3>3. CASE OverrideWindow  BY <3>3 DEF OverrideWindow
    <3>4. CASE OverrideLed  BY <3>4 DEF OverrideLed
    <3>5. CASE SetLed  BY <3>5 DEF SetLed
    <3> QED  BY <2>1, <3>1, <3>2, <3>3, <3>4, <3>5
  <2>2. ASSUME NEW command, Begin(command) PROVE actuator'.pc # "enforce"
    BY <2>2 DEF Begin, FirstStep
  <2>3. CASE BeginIteration
    BY <2>2, <2>3 DEF BeginIteration
  <2>4. CASE TakeWindowCommand
    <3>1. actuator'.pc # "enforce"
      BY <2>2, <2>4 DEF TakeWindowCommand
    <3> QED  BY <2>4, <3>1 DEF TakeWindowCommand
  <2>5. CASE StorePriority
    BY <2>5 DEF StorePriority
  <2>6. CASE StoreFails
    BY <2>6 DEF StoreFails
  <2>7. CASE SetPriority
    BY <2>7 DEF SetPriority
  <2>8. CASE StartTurning \/ WindowInPlace \/ Turned
    BY <2>8 DEF StartTurning, WindowInPlace, Turned
  <2>9. CASE PressButton \/ SmokeChanges
    BY <2>9 DEF PressButton, SmokeChanges
  <2>10. CASE Restart
    BY <2>10 DEF Restart, PriorityAtBoot
  <2>11. CASE UNCHANGED windowVars
    BY <2>11 DEF windowVars
  <2> QED  BY <2>1, <2>3, <2>4, <2>5, <2>6, <2>7, <2>8, <2>9, <2>10, <2>11
           DEF WindowNext, ActuatorStep
<1>3. StoredInv => PriorityIsStored
  BY DEF StoredInv
<1> QED  BY <1>1, <1>2, <1>3, WindowTypeCorrect, PTL DEF WindowSpec

-----------------------------------------------------------------------------
(* The simulator *)

(* What the broker will have heard last, when all that waits is published. *)
LastWord ==
  CASE eventQueue # <<>> -> eventQueue[Len(eventQueue)]
    [] eventQueue = <<>> /\ inHand.event # None -> inHand.event
    [] OTHER -> heard

EventsTyped ==
  /\ "event" \in DOMAIN inHand /\ inHand.event \in SmokeEvents \cup {None}
  /\ eventQueue \in Seq(SmokeEvents)
  /\ episode \in [active : BOOLEAN, clear : Timer]
  /\ uncertain \in BOOLEAN

(* The queue, the event in hand and the broker tell the episode together.  *)
EventsInv ==
  EventsTyped /\ (~uncertain => (episode.active <=> LastWord = "smoke.detected"))

(* The event that was announced last is the last word.                     *)
LEMMA Announced ==
  ASSUME EventsTyped, NEW event \in SmokeEvents, Announce(event)
  PROVE  eventQueue' \in Seq(SmokeEvents) /\ LastWord' = event /\ uncertain' = FALSE
<1>1. eventQueue \in Seq(SmokeEvents)
  BY DEF EventsTyped
<1>2. /\ eventQueue' \in Seq(SmokeEvents) /\ eventQueue' # <<>>
      /\ eventQueue'[Len(eventQueue')] = event
  BY <1>1 DEF Announce
<1> QED  BY <1>2 DEF LastWord, Announce

(* Steps that touch neither the events nor the episode.                    *)
LEMMA OthersTellNothing ==
  ASSUME EventsInv, UNCHANGED <<eventQueue, heard, uncertain>>,
         "event" \in DOMAIN inHand', inHand'.event = inHand.event,
         episode' \in [active : BOOLEAN, clear : Timer], episode'.active = episode.active
  PROVE  EventsInv'
BY DEF EventsInv, EventsTyped, LastWord

(* A connection that ends keeps the last word, unless it was an event in   *)
(* hand that is dropped and not heard, or one is put back behind it.       *)
LEMMA CancelTells ==
  ASSUME EventsInv, NEW failed, NEW reached, CancelTasks(failed, reached), episode' = episode
  PROVE  EventsInv'
<1> DEFINE event == inHand.event
<1>1. /\ inHand' = [Idle EXCEPT !.execute = inHand.execute]
      /\ eventQueue' = PutBack(eventQueue, event, "event" \in failed)
      /\ heard' = (IF event # None /\ "event" \in reached THEN event ELSE heard)
      /\ uncertain' = \/ uncertain
                      \/ /\ event # None
                         /\ IF "event" \in failed THEN eventQueue # <<>>
                            ELSE "event" \notin reached /\ eventQueue = <<>>
  BY DEF CancelTasks
<1>2. "event" \in DOMAIN inHand' /\ inHand'.event = None
  BY <1>1 DEF Idle
<1>3. eventQueue' \in Seq(SmokeEvents)
  BY <1>1 DEF PutBack, EventsInv, EventsTyped
<1>4. EventsTyped'
  BY <1>1, <1>2, <1>3 DEF EventsInv, EventsTyped
<1>5. ASSUME ~uncertain' PROVE LastWord' = LastWord
  <2>1. CASE event = None
    <3>1. eventQueue' = eventQueue /\ heard' = heard
      BY <1>1, <2>1 DEF PutBack
    <3> QED  BY <1>2, <2>1, <3>1 DEF LastWord
  <2>2. CASE event # None /\ "event" \in failed
    <3>1. eventQueue = <<>> /\ event \in SmokeEvents
      BY <1>1, <1>5, <2>2 DEF EventsInv, EventsTyped
    <3>2. eventQueue' = <<event>>
      BY <1>1, <2>2, <3>1 DEF PutBack
    <3>3. eventQueue' # <<>> /\ Len(eventQueue') = 1 /\ eventQueue'[1] = event
      BY <3>2
    <3> QED  BY <2>2, <3>1, <3>3 DEF LastWord
  <2>3. CASE event # None /\ "event" \notin failed
    <3>1. eventQueue' = eventQueue /\ ("event" \in reached \/ eventQueue # <<>>)
      BY <1>1, <1>5, <2>3 DEF PutBack
    <3>2. CASE eventQueue # <<>>
      BY <3>1, <3>2 DEF LastWord
    <3>3. CASE eventQueue = <<>> /\ "event" \in reached
      BY <1>1, <1>2, <2>3, <3>1, <3>3 DEF LastWord
    <3> QED  BY <3>1, <3>2, <3>3
  <2> QED  BY <2>1, <2>2, <2>3
<1>6. ~uncertain' => ~uncertain
  BY <1>1
<1> QED  BY <1>4, <1>5, <1>6 DEF EventsInv

(* A new process is in no episode, and what was heard says so unless it    *)
(* says that an episode goes on.                                           *)
LEMMA LeaveTells ==
  ASSUME NEW how, Leave(how)
  PROVE  EventsInv'
<1>1. /\ inHand' = Idle /\ eventQueue' = <<>> /\ episode' = NoEpisode
      /\ uncertain' = (heard' = "smoke.detected")
  BY DEF Leave
<1>2. "event" \in DOMAIN inHand' /\ inHand'.event = None
  BY <1>1 DEF Idle
<1>3. episode' \in [active : BOOLEAN, clear : Timer] /\ episode'.active = FALSE
  BY <1>1 DEF NoEpisode, Timer
<1>4. LastWord' = heard'
  BY <1>1, <1>2 DEF LastWord
<1>5. eventQueue' \in Seq(SmokeEvents) /\ uncertain' \in BOOLEAN
  BY <1>1
<1>6. EventsTyped'
  BY <1>2, <1>3, <1>5 DEF EventsTyped
<1>7. ~uncertain' => ~(LastWord' = "smoke.detected")
  BY <1>1, <1>4
<1> QED  BY <1>3, <1>6, <1>7 DEF EventsInv

LEMMA EventsStep == EventsInv /\ [Next]_vars => EventsInv'
<1> SUFFICES ASSUME EventsInv, [Next]_vars PROVE EventsInv'
  OBVIOUS
<1> USE DEF queues, model, history
<1>0. "event" \in DOMAIN inHand /\ episode \in [active : BOOLEAN, clear : Timer]
  BY DEF EventsInv, EventsTyped
<1>1. CASE Boot \/ RequestStop \/ Connect \/ Subscribe \/ PublishOffline \/ Telemetry
           \/ SilenceElapses \/ ChangeScenario \/ (\E c \in Commands : Expire(c) \/ Refuse(c))
           \/ UNCHANGED vars
  BY <1>0, <1>1, OthersTellNothing
     DEF Boot, RequestStop, Connect, Subscribe, PublishOffline, Telemetry, SilenceElapses,
         ChangeScenario, Expire, Refuse, vars
<1>2. CASE End \/ EndInConnection \/ Kill
  BY <1>2, LeaveTells DEF End, EndInConnection, Kill
<1>3. CASE ConnectionLost \/ StopConnection \/ \E c \in Commands : RefuseUnsaved(c)
  BY <1>3, CancelTells DEF ConnectionLost, StopConnection, RefuseUnsaved
<1>4. CASE PublishReply \/ TakeAck \/ PublishAck \/ TakeCommand \/ Execute \/ ExecuteUnsaved
           \/ \E c \in Commands : Replay(c) \/ Enqueue(c)
  <2>1. \E x : inHand' \in {[inHand EXCEPT !.receive = x], [inHand EXCEPT !.ack = x],
                            [inHand EXCEPT !.execute = x]}
    BY <1>4 DEF PublishReply, TakeAck, PublishAck, TakeCommand, Execute, ExecuteUnsaved, Replay,
                Enqueue
  <2>2. "event" \in DOMAIN inHand' /\ inHand'.event = inHand.event
    BY <1>0, <2>1
  <2>3. UNCHANGED <<eventQueue, heard, uncertain, episode>>
    BY <1>4 DEF PublishReply, TakeAck, PublishAck, TakeCommand, Execute, ExecuteUnsaved, Replay,
                Enqueue, WriteFails
  <2> QED  BY <1>0, <2>2, <2>3, OthersTellNothing
<1>5. CASE TakeEvent
  <2>1. /\ inHand.event = None /\ eventQueue # <<>> /\ eventQueue' = Tail(eventQueue)
        /\ inHand' = [inHand EXCEPT !.event = Head(eventQueue)]
        /\ UNCHANGED <<heard, uncertain, episode>>
    BY <1>5 DEF TakeEvent
  <2>2. eventQueue \in Seq(SmokeEvents)
    BY DEF EventsInv, EventsTyped
  <2>3. /\ Head(eventQueue) \in SmokeEvents /\ Tail(eventQueue) \in Seq(SmokeEvents)
        /\ Head(eventQueue) = eventQueue[1] /\ Len(eventQueue) \in Nat \ {0}
        /\ Len(Tail(eventQueue)) = Len(eventQueue) - 1
        /\ \A i \in 1..(Len(eventQueue) - 1) : Tail(eventQueue)[i] = eventQueue[i + 1]
    BY <2>1, <2>2, HeadTailProperties, EmptySeq
  <2>4. "event" \in DOMAIN inHand' /\ inHand'.event = Head(eventQueue)
    BY <1>0, <2>1
  <2>5. LastWord = eventQueue[Len(eventQueue)]
    BY <2>1 DEF LastWord
  <2>6. LastWord' = eventQueue[Len(eventQueue)]
    <3>1. CASE Len(eventQueue) = 1
      <4>1. eventQueue' = <<>>
        BY <2>1, <2>3, <3>1, EmptySeq
      <4>2. Head(eventQueue) # None
        BY <2>3, ConstantsAssumption
      <4> QED  BY <2>3, <2>4, <3>1, <4>1, <4>2 DEF LastWord
    <3>2. CASE Len(eventQueue) # 1
      <4>1. Len(eventQueue') \in 1..(Len(eventQueue) - 1)
            /\ Len(eventQueue') + 1 = Len(eventQueue)
        BY <2>1, <2>3, <3>2
      <4>2. eventQueue' # <<>>
        BY <4>1
      <4>3. eventQueue'[Len(eventQueue')] = eventQueue[Len(eventQueue)]
        BY <2>1, <2>3, <4>1
      <4> QED  BY <4>2, <4>3 DEF LastWord
    <3> QED  BY <3>1, <3>2
  <2>7. EventsTyped'
    BY <2>1, <2>3, <2>4 DEF EventsInv, EventsTyped
  <2> QED  BY <2>1, <2>5, <2>6, <2>7 DEF EventsInv
<1>6. CASE PublishEvent
  <2>1. /\ inHand.event # None /\ inHand' = [inHand EXCEPT !.event = None]
        /\ heard' = inHand.event /\ UNCHANGED <<eventQueue, uncertain, episode>>
    BY <1>6 DEF PublishEvent
  <2>2. "event" \in DOMAIN inHand' /\ inHand'.event = None
    BY <1>0, <2>1
  <2>3. LastWord' = LastWord
    BY <2>1, <2>2 DEF LastWord
  <2> QED  BY <2>1, <2>2, <2>3 DEF EventsInv, EventsTyped
<1>7. CASE SafetySample
  <2>1. UNCHANGED <<inHand, heard>>
    BY <1>7 DEF SafetySample
  <2>2. CASE SmokeSample
    <3>1. episode' = [active |-> TRUE, clear |-> "unset"]
      BY <2>2 DEF SmokeSample
    <3>2. CASE episode.active
      BY <1>0, <2>1, <2>2, <3>1, <3>2, OthersTellNothing DEF SmokeSample, Timer
    <3>3. CASE ~episode.active
      <4>1. Announce("smoke.detected")
        BY <2>2, <3>3 DEF SmokeSample
      <4>2. eventQueue' \in Seq(SmokeEvents) /\ LastWord' = "smoke.detected" /\ ~uncertain'
        BY <4>1, Announced DEF EventsInv, SmokeEvents
      <4>3. EventsTyped'
        BY <2>1, <3>1, <4>1, <4>2 DEF Announce, EventsInv, EventsTyped, Timer
      <4>4. episode'.active = TRUE
        BY <3>1
      <4> QED  BY <4>2, <4>3, <4>4 DEF EventsInv
    <3> QED  BY <3>2, <3>3
  <2>3. CASE ClearSample
    <3>1. CASE UNCHANGED <<episode, eventQueue, uncertain>>
      BY <1>0, <2>1, <3>1, OthersTellNothing
    <3>2. CASE episode' = [episode EXCEPT !.clear = "running"]
               /\ UNCHANGED <<eventQueue, uncertain>>
      <4>1. episode'.active = episode.active /\ episode' \in [active : BOOLEAN, clear : Timer]
        BY <1>0, <3>2 DEF Timer
      <4> QED  BY <1>0, <2>1, <3>2, <4>1, OthersTellNothing
    <3>3. CASE episode' = NoEpisode /\ Announce("smoke.cleared")
      <4>1. eventQueue' \in Seq(SmokeEvents) /\ LastWord' = "smoke.cleared" /\ ~uncertain'
        BY <3>3, Announced DEF EventsInv, SmokeEvents
      <4>2. EventsTyped'
        BY <2>1, <3>3, <4>1 DEF Announce, EventsInv, EventsTyped, NoEpisode, Timer
      <4>3. episode'.active = FALSE /\ ~(LastWord' = "smoke.detected")
        BY <3>3, <4>1 DEF NoEpisode
      <4> QED  BY <4>2, <4>3 DEF EventsInv
    <3> QED  BY <2>3, <3>1, <3>2, <3>3 DEF ClearSample
  <2> QED  BY <1>7, <2>2, <2>3 DEF SafetySample
<1>8. CASE ClearElapses
  <2>1. episode'.active = episode.active /\ episode' \in [active : BOOLEAN, clear : Timer]
    BY <1>0, <1>8 DEF ClearElapses, Timer
  <2> QED  BY <1>0, <1>8, <2>1, OthersTellNothing DEF ClearElapses
<1> QED
  BY <1>1, <1>2, <1>3, <1>4, <1>5, <1>6, <1>7, <1>8
     DEF Next, Lifecycle, Connection, Publishers, Executor, Environment, Receive

(* When nothing is left to publish, the last event that was heard tells    *)
(* whether the episode goes on, whatever connections break with an event   *)
(* in hand or queued again, and over kills and restarts.  Excepted is the  *)
(* time from a last word that was dropped unheard or overtaken by an event *)
(* put back, or from the end of a process in an episode, to the next event *)
(* (process_safety_sample, _event_publish_loop).                           *)
THEOREM EpisodesAreTold == Spec => []EventsTellEpisode
<1>1. Init => EventsInv
  <2> SUFFICES ASSUME Init PROVE EventsInv
    OBVIOUS
  <2>1. /\ "event" \in DOMAIN inHand /\ inHand.event = None
        /\ eventQueue = <<>> /\ eventQueue \in Seq(SmokeEvents)
    BY DEF Init, Idle
  <2>2. episode \in [active : BOOLEAN, clear : Timer] /\ episode.active = FALSE
    BY DEF Init, NoEpisode, Timer
  <2>3. LastWord = None /\ None # "smoke.detected" /\ uncertain = FALSE
    BY <2>1, ConstantsAssumption DEF Init, LastWord, SmokeEvents
  <2> QED  BY <2>1, <2>2, <2>3 DEF EventsInv, EventsTyped
<1>2. EventsInv => EventsTellEpisode
  BY DEF EventsInv, EventsTyped, EventsTellEpisode, LastWord
<1> QED  BY <1>1, <1>2, EventsStep, PTL DEF Spec

-----------------------------------------------------------------------------
(* The retained status *)

(* Where no connection is open, the broker has been told, or will not be.  *)
StatusInv ==
  /\ link \in {"closed", "gone"} /\ ~abrupt => retained # "online"
  /\ process \in {"ended", "killed"} => link = "closed"

LEMMA StatusStep == StatusInv /\ [Next]_vars => StatusInv'
<1> SUFFICES ASSUME StatusInv, [Next]_vars PROVE StatusInv'
  OBVIOUS
<1> USE DEF StatusInv, history
<1>1. CASE Lifecycle
  BY <1>1 DEF Lifecycle, Boot, RequestStop, End, EndInConnection, Kill, Leave, Alive
<1>2. CASE Connection
  BY <1>2 DEF Connection, Connect, Subscribe, ConnectionLost, StopConnection, PublishOffline
<1>3. CASE Publishers \/ Executor \/ ExecuteUnsaved
  BY <1>3 DEF Publishers, Executor, PublishReply, TakeAck, PublishAck, TakeEvent, PublishEvent,
              TakeCommand, Execute, ExecuteUnsaved
<1>4. CASE SafetySample \/ Telemetry \/ Environment \/ UNCHANGED vars
  BY <1>4 DEF SafetySample, Telemetry, Environment, SilenceElapses, ClearElapses, ChangeScenario,
              Expire, vars
<1>5. ASSUME NEW c \in Commands, Receive(c) PROVE StatusInv'
  BY <1>5 DEF Receive, Refuse, RefuseUnsaved, Replay, Enqueue, Arrive, Alive
<1> QED  BY <1>1, <1>2, <1>3, <1>4, <1>5 DEF Next

(* The broker keeps a stopped or killed simulator online only if it has    *)
(* disconnected its last connection itself without publishing "offline": a *)
(* broken connection and a kill have the last will, a stop publishes       *)
(* (_mqtt_supervisor, _run_connection).                                    *)
THEOREM StoppedIsToldOffline == Spec => []StoppedIsOffline
<1>1. Init => StatusInv
  BY DEF Init, StatusInv
<1>2. StatusInv => StoppedIsOffline
  BY DEF StatusInv, StoppedIsOffline
<1> QED  BY <1>1, <1>2, StatusStep, PTL DEF Spec

-----------------------------------------------------------------------------
(* The alarm *)

Sounds(s) ==
  s \in State /\ s.alarm = (s.manualAlarm \/ (s.smoke /\ ~s.silenced)) /\ (s.silenced => s.smoke)

AlarmInv == Sounds(state) /\ nvs.priority \in Priorities /\ scenario \in BOOLEAN

(* A reading leaves the alarm as it is due, and so does every command.     *)
LEMMA UpdatesSound ==
  ASSUME NEW s \in State, NEW sensed \in BOOLEAN
  PROVE  /\ Sounds(UpdateSafety(s, sensed))
         /\ UpdateSafety(s, sensed).priority = s.priority
BY DEF UpdateSafety, State, Sounds

LEMMA ClearedSounds ==
  ASSUME NEW s \in State
  PROVE  Sounds([UpdateSafety(s, FALSE) EXCEPT !.silence = "unset", !.silenced = FALSE])
BY DEF UpdateSafety, State, Sounds, Timer

AlarmFields == {"alarm", "manualAlarm", "smoke", "silenced"}

(* Only these fields matter to the alarm.                                  *)
LEMMA SameAlarm ==
  ASSUME AlarmInv, NEW s \in State, \A f \in AlarmFields : s[f] = state[f]
  PROVE  Sounds(s)
BY DEF AlarmInv, Sounds, AlarmFields

LEMMA CommandsSound ==
  ASSUME AlarmInv, NEW c \in Commands
  PROVE  Sounds(ApplyCommand(c))
<1> USE DEF AlarmInv
<1>1. state \in State
  BY DEF Sounds
<1>2. CASE Rejects(c)
  BY <1>2 DEF ApplyCommand
<1>3. CASE ~Rejects(c)
  <2>1. ApplyCommand(c) = Applied(c)
    BY <1>3 DEF ApplyCommand
  <2>2. CASE Kind[c] \in {"window.open", "window.close"}
    <3>1. Applied(c) = [state EXCEPT !.window = (Kind[c] = "window.open"),
                                     !.windowOverride = state.windowOverride \/ Manual(c)]
      BY <2>2 DEF Applied
    <3>2. PICK a, b \in BOOLEAN : Applied(c) = [state EXCEPT !.window = a, !.windowOverride = b]
      BY <3>1
    <3>3. Applied(c) \in State
      BY <1>1, <3>2 DEF State
    <3>4. \A f \in AlarmFields : Applied(c)[f] = state[f]
      BY <1>1, <3>2 DEF State, AlarmFields
    <3> QED  BY <2>1, <3>3, <3>4, SameAlarm
  <2>3. CASE Kind[c] \in {"led.on", "led.off"}
    <3>1. Applied(c) = [state EXCEPT !.led = (Kind[c] = "led.on"),
                                     !.ledOverride = state.ledOverride \/ Manual(c)]
      BY <2>3 DEF Applied
    <3>2. PICK a, b \in BOOLEAN : Applied(c) = [state EXCEPT !.led = a, !.ledOverride = b]
      BY <3>1
    <3>3. Applied(c) \in State
      BY <1>1, <3>2 DEF State
    <3>4. \A f \in AlarmFields : Applied(c)[f] = state[f]
      BY <1>1, <3>2 DEF State, AlarmFields
    <3> QED  BY <2>1, <3>3, <3>4, SameAlarm
  <2>4. CASE Kind[c] = "alarm.on"
    BY <1>1, <2>1, <2>4 DEF Applied, Sounds, State
  <2>5. CASE Kind[c] = "alarm.off"
    <3>1. [state EXCEPT !.manualAlarm = FALSE] \in State
      BY <1>1 DEF State
    <3> QED  BY <2>1, <2>5, <3>1, UpdatesSound DEF Applied
  <2>6. CASE Kind[c] = "alarm.silence"
    <3>1. state.smoke
      BY <1>3, <2>6 DEF Rejects
    <3>2. Applied(c) = [state EXCEPT !.silence = "running", !.silenced = TRUE,
                                     !.alarm = state.manualAlarm]
      BY <2>6 DEF Applied
    <3>3. Applied(c) \in State
      BY <1>1, <3>2 DEF State, Timer
    <3>4. /\ Applied(c).alarm = state.manualAlarm /\ Applied(c).silenced = TRUE
          /\ Applied(c).manualAlarm = state.manualAlarm /\ Applied(c).smoke = state.smoke
      BY <1>1, <3>2 DEF State
    <3>5. Applied(c).alarm = (Applied(c).manualAlarm
                                \/ (Applied(c).smoke /\ ~Applied(c).silenced))
      <4>1. state.manualAlarm \in BOOLEAN
        BY <1>1 DEF State
      <4> QED  BY <3>4, <4>1
    <3>6. Applied(c).silenced => Applied(c).smoke
      BY <3>1, <3>4
    <3> QED  BY <2>1, <3>3, <3>5, <3>6 DEF Sounds
  <2>7. CASE Kind[c] \in {"set_priority.manual_first", "set_priority.auto_first",
                          "control.resume_auto"}
    <3>1. CASE Kind[c] = "set_priority.manual_first"
      BY <1>1, <2>1, <3>1 DEF Applied, Sounds, State, Priorities
    <3>2. CASE Kind[c] = "set_priority.auto_first"
      <4>1. PICK p \in Priorities, b \in BOOLEAN :
              Applied(c) = [state EXCEPT !.priority = p, !.windowOverride = b, !.ledOverride = b]
        BY <3>2 DEF Applied, Priorities
      <4>2. Applied(c) \in State
        BY <1>1, <4>1 DEF State
      <4>3. \A f \in AlarmFields : Applied(c)[f] = state[f]
        BY <1>1, <4>1 DEF State, AlarmFields
      <4> QED  BY <2>1, <4>2, <4>3, SameAlarm
    <3>3. CASE Kind[c] = "control.resume_auto"
      <4>1. PICK b \in BOOLEAN :
              Applied(c) = [state EXCEPT !.windowOverride = b, !.ledOverride = b]
        BY <3>3 DEF Applied
      <4>2. Applied(c) \in State
        BY <1>1, <4>1 DEF State
      <4>3. \A f \in AlarmFields : Applied(c)[f] = state[f]
        BY <1>1, <4>1 DEF State, AlarmFields
      <4> QED  BY <2>1, <4>2, <4>3, SameAlarm
    <3> QED  BY <2>7, <3>1, <3>2, <3>3
  <2>8. CASE Kind[c] = "display.message"
    BY <2>1, <2>8 DEF Applied
  <2>9. Kind[c] \in CommandTypes
    BY ConstantsAssumption
  <2> QED  BY <2>2, <2>3, <2>4, <2>5, <2>6, <2>7, <2>8, <2>9 DEF CommandTypes
<1> QED  BY <1>2, <1>3

LEMMA AlarmStep == AlarmInv /\ [Next]_vars => AlarmInv'
<1> SUFFICES ASSUME AlarmInv, [Next]_vars PROVE AlarmInv'
  OBVIOUS
<1> USE DEF AlarmInv, queues, model, history
<1>1. state \in State /\ state.priority \in Priorities
  BY DEF Sounds, State
<1>2. ASSUME state' = state, scenario' = scenario, nvs' = nvs \/ nvs' = Snapshot(state)
      PROVE  AlarmInv'
  BY <1>1, <1>2 DEF Snapshot
<1>3. ASSUME scenario' = scenario, nvs' = nvs, Sounds(state') PROVE AlarmInv'
  BY <1>3
<1>4. CASE Boot
  <2>1. state' = FreshState(nvs.priority)
    BY <1>4 DEF Boot
  <2>2. Sounds(state')
    BY <2>1 DEF FreshState, Sounds, State, Timer
  <2> QED  BY <1>3, <1>4, <2>2 DEF Boot
<1>5. CASE Connection \/ Publishers \/ TakeCommand \/ (\E c \in Commands : Receive(c))
           \/ RequestStop \/ End \/ EndInConnection \/ Kill
  BY <1>2, <1>5
     DEF Connection, Connect, Subscribe, ConnectionLost, StopConnection, PublishOffline,
         Publishers, PublishReply, TakeAck, PublishAck, TakeEvent, PublishEvent, TakeCommand,
         Receive, Refuse, RefuseUnsaved, PublishTerminal, Replay, Enqueue,
         RequestStop, End, EndInConnection, Kill, Leave
<1>6. CASE Execute \/ ExecuteUnsaved
  <2>1. PICK c \in Commands : state' = ApplyCommand(c)
    BY <1>6 DEF Execute, ExecuteUnsaved
  <2>2. scenario' = scenario /\ (nvs' = nvs \/ nvs' = Snapshot(state'))
    BY <1>6 DEF Execute, ExecuteUnsaved, PublishTerminal, WriteFails
  <2>3. Sounds(state')
    BY <2>1, CommandsSound
  <2>4. state'.priority \in Priorities
    BY <2>3 DEF Sounds, State
  <2> QED  BY <2>2, <2>3, <2>4 DEF Snapshot
<1>7. CASE SafetySample
  <2>1. Sounds(state')
    BY <1>1, <1>7, UpdatesSound, ClearedSounds DEF SafetySample, SmokeSample, ClearSample
  <2> QED  BY <1>3, <1>7, <2>1 DEF SafetySample
<1>8. CASE Telemetry
  BY <1>1, <1>3, <1>8, UpdatesSound DEF Telemetry
<1>9. CASE SilenceElapses
  <2>1. Sounds(state')
    BY <1>1, <1>9 DEF SilenceElapses, Sounds, State, Timer
  <2> QED  BY <1>3, <1>9, <2>1 DEF SilenceElapses
<1>10. CASE ClearElapses \/ ChangeScenario \/ (\E c \in Commands : Expire(c)) \/ UNCHANGED vars
  BY <1>10 DEF ClearElapses, ChangeScenario, Expire, vars
<1> QED
  BY <1>4, <1>5, <1>6, <1>7, <1>8, <1>9, <1>10 DEF Next, Lifecycle, Executor, Environment

(* The alarm sounds for a command or for smoke that is not silenced, and   *)
(* for nothing else, whichever of the sampling tasks and commands wrote it *)
(* last (update_safety, apply_command, clear_smoke_episode).               *)
THEOREM AlarmIsDue == Spec => []AlarmAgrees
<1>1. Init => AlarmInv
  <2> SUFFICES ASSUME Init PROVE AlarmInv
    OBVIOUS
  <2>1. Sounds(state) /\ nvs.priority \in Priorities
    BY DEF Init, FreshState, Sounds, State, Timer, Priorities
  <2>2. scenario \in BOOLEAN
    BY ConstantsAssumption DEF Init
  <2> QED  BY <2>1, <2>2 DEF AlarmInv
<1>2. AlarmInv => AlarmAgrees
  BY DEF AlarmInv, Sounds, AlarmAgrees
<1> QED  BY <1>1, <1>2, AlarmStep, PTL DEF Spec
===============================================================================
