-------------------------- MODULE MCFirmwareSimulator --------------------------
(* Instances of FirmwareSimulator: one command of each family that the       *)
(* interlocks and overrides tell apart.                                      *)
EXTENDS FirmwareSimulator

CONSTANTS close, open, silence, quiet, auto, sound

MCCommands == {close, open, silence, quiet, auto, sound}

MCKind ==
  close :> "window.close" @@ open :> "window.open"
    @@ silence :> "alarm.silence" @@ quiet :> "alarm.off"
    @@ auto :> "set_priority.auto_first" @@ sound :> "alarm.on"

MCSource ==
  close :> "frontend" @@ open :> "rule" @@ silence :> "frontend"
    @@ quiet :> "frontend" @@ auto :> "frontend" @@ sound :> "frontend"

Scene(commands, deliveries, interrupts, smoke, changes) ==
  [commands |-> commands, deliveries |-> deliveries,
   interrupts |-> interrupts, smoke |-> smoke, changes |-> changes]

(* Redelivery against interrupts; more commands than the cache holds; the    *)
(* override of a manual command and its end; commands against the smoke      *)
(* detector; smoke events against interrupts.                                *)
MCScenes ==
  { Scene({open}, 2, 2, FALSE, 0),
    Scene({close, open}, 3, 1, FALSE, 0),
    Scene({close, auto}, 2, 1, FALSE, 0),
    Scene({silence}, 1, 0, FALSE, 3),
    Scene({silence, quiet, sound}, 2, 0, TRUE, 1),
    Scene({close}, 1, 1, TRUE, 1),
    Scene({}, 0, 2, TRUE, 2) }
=============================================================================
