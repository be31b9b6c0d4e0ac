------------------------ MODULE MCAutomationRuntime ------------------------
EXTENDS AutomationRuntime
MCRule(i, p, k, a, c, n) ==
  [id |-> i, plan |-> p, kind |-> k, actuator |-> a, command |-> c, samples |-> n]
(* The system lights a dark room; the user's rules switch off when nobody   *)
(* is there and on when somebody is, after a delay, or again and again.    *)
LightOn == MCRule("light-on", "system", "condition", "led", "led.on", 1)
UserOff == MCRule("user-off", "user", "condition", "led", "led.off", 2)
UserOn == MCRule("user-on", "user", "condition", "led", "led.on", 1)
DelayOn == MCRule("delay-on", "user", "delay", "led", "led.on", 0)
DelaySay == MCRule("delay-say", "user", "delay", None, "voice.speak", 0)
Every == MCRule("every", "user", "interval", "led", "led.off", 0)
MCRules == {LightOn, UserOff, UserOn, DelayOn, DelaySay, Every}

MCObs(f, m, r) ==
  [facts |-> f, online |-> TRUE, manual |-> m, reported |-> [a \in {"led"} |-> r]]
Dark == MCObs({LightOn}, {}, "led.off")
Lit == MCObs({}, {}, "led.on")
Off == MCObs({}, {}, "led.off")
Away == MCObs({LightOn, UserOff}, {}, "led.on")
Left == MCObs({LightOn, UserOff}, {}, "led.off")
Both == MCObs({UserOff, UserOn}, {}, "led.on")
Manual == MCObs({}, {"led"}, "led.on")
Offline == [Dark EXCEPT !.online = FALSE]

MCScene(r, o, q, c, n) ==
  [rules |-> r, observations |-> o, requests |-> q, crashes |-> c, repeats |-> n]
MCScenes ==
  {MCScene({}, {Dark, Lit, Manual}, 1, 0, 0), MCScene({}, {Dark, Offline}, 0, 1, 0),
   MCScene({}, {Dark, Lit}, 0, 0, 2),
   MCScene({UserOff}, {Away}, 1, 0, 0), MCScene({UserOff}, {Left, Away}, 0, 0, 0),
   MCScene({UserOff, UserOn}, {Both, Lit}, 0, 0, 0),
   MCScene({DelayOn}, {Off}, 1, 0, 0), MCScene({DelayOn}, {Off}, 0, 1, 0),
   MCScene({DelayOn, DelaySay}, {Off}, 0, 0, 1), MCScene({Every}, {Lit}, 0, 0, 0)}
MCTickScenes == {MCScene({DelaySay, UserOff}, {Away}, 0, 0, 0)}
=============================================================================
