---------------------------- MODULE MCMonitoring ----------------------------
EXTENDS Monitoring

CONSTANTS w1, w2

NoImages ==
  [outcomes |-> {}, uploads |-> 0, again |-> 0, seconds |-> 0, failures |-> 0,
   limit |-> 20, patient |-> TRUE]

Seeing(sights) == [NoImages EXCEPT !.outcomes = {"found"} \X sights]

Calm ==
  [on |-> {}, instances |-> {}, forces |-> FALSE, stalls |-> FALSE,
   samples |-> 0, turns |-> 0, incidents |-> 0, failures |-> 0, crashes |-> 0,
   toggles |-> 0]

Patrolled == [Calm EXCEPT !.on = {"patrol"}, !.instances = {w1}, !.forces = TRUE]

(* Persons and postures that come and go; sitters; few images kept, and    *)
(* uploads faster than the analysis; a restart, a switch.                  *)
ImageScenes ==
  { <<[NoImages EXCEPT !.uploads = 5,
         !.outcomes = {<<"found", "error">>, <<"none", "nothing">>,
                       <<"none", "error">>, <<"error", "bent">>}], Calm>>,
    <<[Seeing({"bent", "straight", "nothing"}) EXCEPT !.uploads = 5], Calm>>,
    <<[Seeing({"bent", "straight"}) EXCEPT !.uploads = 8, !.seconds = 1], Calm>>,
    <<[Seeing({"torso", "nothing"}) EXCEPT !.uploads = 4, !.again = 1,
         !.failures = 1, !.limit = 3, !.patient = FALSE], Calm>>,
    <<[Seeing({"bent"}) EXCEPT !.uploads = 6],
      [Calm EXCEPT !.crashes = 1, !.toggles = 1]>> }

(* One scheduler and a change; two, and a crash or a stall; changes back   *)
(* and forth under force intervals; failures and a slow drift; incidents;  *)
(* a sitter and patrols.                                                   *)
TriggerScenes ==
  { <<NoImages, [Patrolled EXCEPT !.forces = FALSE, !.turns = 1,
                   !.instances = {w1, w2}, !.crashes = 1]>>,
    <<NoImages, [Patrolled EXCEPT !.forces = FALSE, !.turns = 1,
                   !.instances = {w1, w2}, !.stalls = TRUE]>>,
    <<NoImages, [Patrolled EXCEPT !.on = {"patrol", "strategy"}, !.turns = 2]>>,
    <<NoImages, [Patrolled EXCEPT !.samples = 2, !.failures = 1]>>,
    <<NoImages, [Patrolled EXCEPT !.incidents = 3]>>,
    <<[Seeing({"bent"}) EXCEPT !.uploads = 4],
      [Patrolled EXCEPT !.incidents = 1]>> }

MCScenes == ImageScenes \cup TriggerScenes
=============================================================================
