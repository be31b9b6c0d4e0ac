--------------------------- MODULE MCDeviceIngress ---------------------------
EXTENDS DeviceIngress

Calm == [connects |-> 1, samples |-> 0, events |-> 0, duplicates |-> 0,
         outages |-> 0, crashes |-> 0, failures |-> 0, willPerBoot |-> FALSE]

(* Events of two types, sent again; the same behind a restart; a failed    *)
(* transaction; two connections beside an outage or a restart, with the    *)
(* will of the simulator; the will of the firmware.                        *)
MCScenes ==
  { [Calm EXCEPT !.events = 3, !.duplicates = 1],
    [Calm EXCEPT !.events = 2, !.duplicates = 1, !.crashes = 1],
    [Calm EXCEPT !.events = 1, !.samples = 1, !.duplicates = 1, !.failures = 1],
    [Calm EXCEPT !.connects = 2, !.samples = 1, !.outages = 1],
    [Calm EXCEPT !.connects = 2, !.samples = 1, !.crashes = 1],
    [Calm EXCEPT !.connects = 2, !.willPerBoot = TRUE, !.duplicates = 1] }
=============================================================================
