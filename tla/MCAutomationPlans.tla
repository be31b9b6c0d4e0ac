------------------------- MODULE MCAutomationPlans -------------------------
EXTENDS AutomationPlans, TLC
MCRule(i, a, k) == [id |-> i, after |-> a, command |-> k]
MCSpec(d, q, rs) == [duration |-> d, clarify |-> q, rules |-> rs]
MCSpecs == {MCSpec(60, FALSE, {MCRule("r1", 30, "led.on")}),
            MCSpec(60, FALSE, {MCRule("r1", 30, "led.on"), MCRule("r2", 0, "window.open")}),
            MCSpec(60, TRUE, {}),
            MCSpec(60, FALSE, {MCRule("r1", 90, "led.on")})}
MCCapabilities == {{"led.on", "window.open"}}
MCSymmetry == Permutations(UserPlans) \cup Permutations(Clients) \cup Permutations(Strategies)
=============================================================================
