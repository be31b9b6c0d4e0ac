------------------------------ MODULE SmokeAlarm ------------------------------
(***************************************************************************)
(* The smoke alarm of the ESP32-S3 firmware: the alarm sources and the     *)
(* silence window (state/control_state.c), the buzzer that two tasks drive *)
(* from them (actuators/actuators.c, main.c), the smoke episodes of the    *)
(* safety task (main.c) and the spoken warning (voice/voice.c).            *)
(*                                                                         *)
(* A step is what a task does under one lock, or one access to a device.   *)
(* A refresh of the buzzer reads the control state under its mutex and     *)
(* writes the pin after releasing it: two steps, of either task.           *)
(*                                                                         *)
(* Of each timer, the ticks are abstracted to whether it is unset, running *)
(* or elapsed.  The smoke sensor may read anything at any time.  A reading *)
(* that is not valid leaves everything as it is.  MQTT events, the         *)
(* telemetry copy of the reading and the display are left out.             *)
(***************************************************************************)
EXTENDS Naturals

CONSTANTS
  VoiceAttempts,    \* AIOT_VOICE_LOCAL_RETRY_ATTEMPTS
  MaxAlarmCommands  \* bound on the alarm commands that arrive

ASSUME AlarmAssumption ==
  /\ VoiceAttempts \in Nat \ {0}
  /\ MaxAlarmCommands \in Nat

VARIABLES
  sources,        \* s_state.alarm_sources
  silence,        \* s_smoke_silenced_until
  buzzer,         \* level of the buzzer's pin
  safety,         \* safety_task
  refresher,      \* actuator_task
  alarmCommands,  \* commands taken from the queue so far
  voice,          \* s_smoke_active and s_smoke_silenced of voice.c
  pending,        \* the smoke bit of s_pending_mask
  queued,         \* the smoke warning is in s_announcement_queue
  announcer       \* announcement_task

alarmVars ==
  <<sources, silence, buzzer, safety, refresher, alarmCommands, voice, pending,
    queued, announcer>>

control == <<sources, silence>>
speech == <<voice, pending, queued, announcer>>

-----------------------------------------------------------------------------
(* Types *)

AlarmSource == {"smoke", "command"}
AlarmTimer == {"unset", "running", "elapsed"}

Safety == [pc: {"poll", "read", "beep", "voice", "episode"}, detected: BOOLEAN,
           alarm: BOOLEAN, silenced: BOOLEAN, episode: BOOLEAN,
           clear: AlarmTimer, announced: {"recent", "old"}]

Refresher == [pc: {"init", "idle", "read", "beep"}, alarm: BOOLEAN]

Announcer == [pc: {"wait", "check", "speak", "done"}, attempt: Nat]

(* The fields hold what the tasks' locals and the modules' statics hold;   *)
(* an announcement never has more attempts than its retry loop.            *)
AlarmTypeOK ==
  /\ sources \subseteq AlarmSource
  /\ silence \in AlarmTimer
  /\ buzzer \in BOOLEAN
  /\ safety \in Safety
  /\ refresher \in Refresher
  /\ alarmCommands \in 0..MaxAlarmCommands
  /\ voice \in [active: BOOLEAN, silenced: BOOLEAN]
  /\ pending \in BOOLEAN
  /\ queued \in BOOLEAN
  /\ announcer \in Announcer
  /\ announcer.attempt <= VoiceAttempts

-----------------------------------------------------------------------------
(* The control state, as refresh_locked leaves it *)

(* Mutant: the tick comparison is dropped.                                *)
SilenceForever == silence # "unset"

SilenceActive == silence = "running"

Refreshed == IF SilenceActive THEN silence ELSE "unset"

Silenced == "smoke" \in sources /\ SilenceActive

AlarmOn == (IF Silenced THEN sources \ {"smoke"} ELSE sources) # {}

AlarmInit ==
  /\ sources = {}
  /\ silence = "unset"
  /\ buzzer = FALSE
  /\ safety = [pc |-> "poll", detected |-> FALSE, alarm |-> FALSE,
               silenced |-> FALSE, episode |-> FALSE, clear |-> "unset",
               announced |-> "recent"]
  /\ refresher = [pc |-> "init", alarm |-> FALSE]
  /\ alarmCommands = 0
  /\ voice = [active |-> FALSE, silenced |-> FALSE]
  /\ pending = FALSE
  /\ queued = FALSE
  /\ announcer = [pc |-> "wait", attempt |-> 0]

-----------------------------------------------------------------------------
(* safety_task, every 100 ms *)

Poll ==
  /\ safety.pc = "poll"
  /\ \E detected \in BOOLEAN :
       /\ sources' = IF detected THEN sources \cup {"smoke"}
                                 ELSE sources \ {"smoke"}
       /\ safety' = [safety EXCEPT !.pc = "read", !.detected = detected]
  /\ silence' = Refreshed
  /\ UNCHANGED <<buzzer, refresher, alarmCommands, speech>>

SafetyReadsAlarm ==
  /\ safety.pc = "read"
  /\ safety' = [safety EXCEPT !.pc = "beep", !.alarm = AlarmOn]
  /\ silence' = Refreshed
  /\ UNCHANGED <<sources, buzzer, refresher, alarmCommands, speech>>

(* beep_set does nothing before actuator_init has set up the pin.          *)
SafetyBeeps ==
  /\ safety.pc = "beep"
  /\ buzzer' = IF refresher.pc = "init" THEN buzzer ELSE safety.alarm
  /\ safety' = [safety EXCEPT !.pc = "voice"]
  /\ UNCHANGED <<control, refresher, alarmCommands, speech>>

TellVoice ==
  /\ safety.pc = "voice"
  /\ safety' = [safety EXCEPT !.pc = "episode", !.silenced = Silenced]
  /\ voice' = [active |-> safety.episode \/ safety.detected, silenced |-> Silenced]
  /\ silence' = Refreshed
  /\ UNCHANGED <<sources, buzzer, refresher, alarmCommands, pending, queued, announcer>>

(* voice_announce: a warning that is pending already is not queued again.  *)
QueueWarning == pending' = TRUE /\ queued' = (queued \/ ~pending)

WarningDue == ~safety.episode \/ safety.announced = "old"

SmokePresent ==
  /\ safety.pc = "episode" /\ safety.detected
  /\ LET speak == WarningDue /\ ~safety.silenced IN
       /\ safety' = [safety EXCEPT !.pc = "poll", !.episode = TRUE, !.clear = "unset",
                                   !.announced = IF speak THEN "recent" ELSE @]
       /\ IF speak THEN QueueWarning ELSE UNCHANGED <<pending, queued>>
  /\ UNCHANGED <<control, buzzer, refresher, alarmCommands, voice, announcer>>

(* last_announcement := 0 is old once the device is up for as long as the  *)
(* warning's period, and recent before.                                    *)
EndEpisode ==
  /\ \E announced \in {"recent", "old"} :
       safety' = [safety EXCEPT !.pc = "poll", !.episode = FALSE, !.clear = "unset",
                                !.announced = announced]
  /\ silence' = "unset"
  /\ voice' = [active |-> FALSE, silenced |-> FALSE]
  /\ UNCHANGED <<sources, buzzer, refresher, alarmCommands, pending, queued, announcer>>

StartClearing ==
  /\ safety' = [safety EXCEPT !.pc = "poll",
                              !.clear = IF @ = "unset" /\ safety.episode
                                          THEN "running" ELSE @]
  /\ UNCHANGED <<control, buzzer, refresher, alarmCommands, speech>>

SmokeAbsent ==
  /\ safety.pc = "episode" /\ ~safety.detected
  /\ IF safety.episode /\ safety.clear = "elapsed" THEN EndEpisode ELSE StartClearing

SafetyStep ==
  \/ Poll \/ SafetyReadsAlarm \/ SafetyBeeps \/ TellVoice
  \/ SmokePresent \/ SmokeAbsent

-----------------------------------------------------------------------------
(* actuator_task, every 500 ms: one command or none, then the buzzer.      *)
(* alarm.silence returns before the buzzer; turning the window in between  *)
(* takes time and touches nothing of this module.                          *)

RefresherInit ==
  /\ refresher.pc = "init"
  /\ refresher' = [refresher EXCEPT !.pc = "idle"]
  /\ buzzer' = FALSE
  /\ UNCHANGED <<control, safety, alarmCommands, speech>>

NoAlarmCommand ==
  /\ refresher.pc = "idle"
  /\ refresher' = [refresher EXCEPT !.pc = "read"]
  /\ UNCHANGED <<control, buzzer, safety, alarmCommands, speech>>

Take ==
  /\ refresher.pc = "idle"
  /\ alarmCommands < MaxAlarmCommands
  /\ alarmCommands' = alarmCommands + 1

AlarmCommand ==
  /\ Take
  /\ \/ sources' = sources \cup {"command"}
     \/ sources' = sources \ {"command"}
  /\ silence' = Refreshed
  /\ refresher' = [refresher EXCEPT !.pc = "read"]
  /\ UNCHANGED <<buzzer, safety, speech>>

(* Mutant: a silence command is taken without smoke.                       *)
SilencePermittedAlways == TRUE

SilencePermitted == "smoke" \in sources

SilenceCommand ==
  /\ Take
  /\ silence' = IF SilencePermitted THEN "running" ELSE Refreshed
  /\ UNCHANGED <<sources, buzzer, safety, refresher, speech>>

ActuatorReadsAlarm ==
  /\ refresher.pc = "read"
  /\ refresher' = [refresher EXCEPT !.pc = "beep", !.alarm = AlarmOn]
  /\ silence' = Refreshed
  /\ UNCHANGED <<sources, buzzer, safety, alarmCommands, speech>>

ActuatorBeeps ==
  /\ refresher.pc = "beep"
  /\ buzzer' = refresher.alarm
  /\ refresher' = [refresher EXCEPT !.pc = "idle"]
  /\ UNCHANGED <<control, safety, alarmCommands, speech>>

RefresherStep ==
  \/ RefresherInit \/ NoAlarmCommand \/ AlarmCommand \/ SilenceCommand
  \/ ActuatorReadsAlarm \/ ActuatorBeeps

-----------------------------------------------------------------------------
(* announcement_task *)

ReceiveWarning ==
  /\ announcer.pc = "wait" /\ queued
  /\ queued' = FALSE
  /\ announcer' = [pc |-> "check", attempt |-> 0]
  /\ UNCHANGED <<control, buzzer, safety, refresher, alarmCommands, voice, pending>>

(* Mutant: a cancelled warning leaves early, its pending bit still set.    *)
CheckWithoutCleanup ==
  /\ announcer.pc = "check"
  /\ announcer' =
       IF voice.active /\ ~voice.silenced
         THEN [announcer EXCEPT !.pc = "speak", !.attempt = @ + 1]
         ELSE [pc |-> "wait", attempt |-> 0]
  /\ UNCHANGED <<control, buzzer, safety, refresher, alarmCommands, voice, pending, queued>>

Check ==
  /\ announcer.pc = "check"
  /\ announcer' =
       IF voice.active /\ ~voice.silenced
         THEN [announcer EXCEPT !.pc = "speak", !.attempt = @ + 1]
         ELSE [announcer EXCEPT !.pc = "done"]
  /\ UNCHANGED <<control, buzzer, safety, refresher, alarmCommands, voice, pending, queued>>

(* The module is busy, or the UART fails: another attempt, while there are *)
(* attempts left.                                                          *)
Speak ==
  /\ announcer.pc = "speak"
  /\ \/ announcer' = [announcer EXCEPT !.pc = "done"]
     \/ /\ announcer.attempt < VoiceAttempts
        /\ announcer' = [announcer EXCEPT !.pc = "check"]
  /\ UNCHANGED <<control, buzzer, safety, refresher, alarmCommands, voice, pending, queued>>

Finish ==
  /\ announcer.pc = "done"
  /\ pending' = FALSE
  /\ announcer' = [pc |-> "wait", attempt |-> 0]
  /\ UNCHANGED <<control, buzzer, safety, refresher, alarmCommands, voice, queued>>

AnnouncerStep == ReceiveWarning \/ Check \/ Speak \/ Finish

-----------------------------------------------------------------------------
(* The clock *)

SilenceRunsOut ==
  /\ silence = "running"
  /\ silence' = "elapsed"
  /\ UNCHANGED <<sources, buzzer, safety, refresher, alarmCommands, speech>>

ClearIsStable ==
  /\ safety.clear = "running"
  /\ safety' = [safety EXCEPT !.clear = "elapsed"]
  /\ UNCHANGED <<control, buzzer, refresher, alarmCommands, speech>>

WarningAges ==
  /\ safety.announced = "recent"
  /\ safety' = [safety EXCEPT !.announced = "old"]
  /\ UNCHANGED <<control, buzzer, refresher, alarmCommands, speech>>

Clock == SilenceRunsOut \/ ClearIsStable \/ WarningAges

AlarmNext == SafetyStep \/ RefresherStep \/ AnnouncerStep \/ Clock

AlarmSpec == AlarmInit /\ [][AlarmNext]_alarmVars

(* Each task is scheduled again and again, and time passes.                *)
AlarmFairness ==
  /\ WF_alarmVars(SafetyStep)
  /\ WF_alarmVars(RefresherStep)
  /\ WF_alarmVars(AnnouncerStep)
  /\ WF_alarmVars(SilenceRunsOut)
  /\ WF_alarmVars(ClearIsStable)
  /\ WF_alarmVars(WarningAges)

FairAlarmSpec == AlarmSpec /\ AlarmFairness

-----------------------------------------------------------------------------
(* Properties *)

(* The alarm is due: the command source is on, or smoke that nobody has    *)
(* silenced.                                                               *)
Due == "command" \in sources \/ ("smoke" \in sources /\ silence # "running")

(* Two tasks write the buzzer from what each read earlier, the silence     *)
(* window ends without an event, and a warning may be silenced between two *)
(* polls: once the alarm stays due the buzzer comes on and stays on, and   *)
(* once it stays not due the buzzer goes off and stays off.                *)
BuzzerSettles ==
  /\ <>[]Due => <>[]buzzer
  /\ <>[]~Due => <>[]~buzzer

(* A silence window is of one smoke episode: none is left when the safety  *)
(* task has ended the episode, so that the next one is heard at once.      *)
SilenceEndsWithEpisode ==
  safety.pc = "poll" /\ silence = "running" => safety.episode

(* While smoke stays and is not silenced, the warning is spoken again and  *)
(* again: no order of queue, pending bit, retry, cancellation and silence  *)
(* leaves the announcer without work for good.                             *)
WarningRepeats ==
  <>[]("smoke" \in sources /\ silence # "running") => []<>(announcer.pc = "speak")

(* The pending bit stands for exactly one warning, in the queue or in the  *)
(* hands of the announcer: none is lost and none is queued twice.          *)
PendingIsOneWarning ==
  /\ pending <=> (queued \/ announcer.pc # "wait")
  /\ ~(queued /\ announcer.pc # "wait")
=============================================================================
