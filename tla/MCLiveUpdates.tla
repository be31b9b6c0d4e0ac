---------------------------- MODULE MCLiveUpdates ----------------------------
EXTENDS LiveUpdates

CONSTANTS c1, c2, g1, g2

Quiet == [commands |-> {c1}, gateways |-> {g1}, publishes |-> 0, acks |-> 0,
          fetches |-> 0, crashes |-> 0, drops |-> 0, stalls |-> 0]

(* One command goes all the way; a gateway restarts; the connection breaks *)
(* beside a fetch; a relay stalls or fails behind a publish; the gateway   *)
(* is replaced by another, with a stall or a broken connection; two        *)
(* commands end together.                                                  *)
MCScenes ==
  { [Quiet EXCEPT !.publishes = 1, !.acks = 2],
    [Quiet EXCEPT !.crashes = 1],
    [Quiet EXCEPT !.fetches = 1, !.drops = 1],
    [Quiet EXCEPT !.publishes = 1, !.stalls = 1],
    [Quiet EXCEPT !.gateways = {g1, g2}, !.stalls = 1],
    [Quiet EXCEPT !.gateways = {g1, g2}, !.drops = 1],
    [Quiet EXCEPT !.commands = {c1, c2}] }
=============================================================================
