----------------------------- MODULE Perception -----------------------------
(***************************************************************************)
(* What the gateway makes of a device's images.  An upload is kept         *)
(* (services/images.py), and analysed by one worker behind a queue of one  *)
(* (services/pose.py): a detector looks for a person and a landmarker for  *)
(* a posture (services/posture.py), a tracker with hysteresis decides      *)
(* whether somebody is there (services/presence.py) and a smoother which   *)
(* posture stands.  Each result is a row; who has been sitting for too     *)
(* long is reminded once (services/sedentary.py).                          *)
(*                                                                         *)
(* There is one device.  What the models see of an image is chosen from    *)
(* the outcomes of the scene; image data, confidences and files are left   *)
(* out.  An upload with its pruning is one step, so is the commit of a     *)
(* result with its pruning.                                                *)
(***************************************************************************)
EXTENDS Naturals, Sequences, SequencesExt, FiniteSets

CONSTANTS
  SedentaryThreshold,  \* time of sitting after which to remind
  MaxGap,              \* the longest time between two results of a sitting
  Nobody               \* no annotated image, no result in hand

ASSUME PerceptionAssumption ==
  SedentaryThreshold \in Nat /\ MaxGap \in Nat /\ Nobody \notin Nat

VARIABLES
  clock,      \* in units of which an analysis takes at least one
  images,     \* rows of image_assets, by age: capture or annotated
  poses,      \* rows of pose_results, told apart by their time
  reminders,  \* events posture.sedentary: when, and after which result
  queue,      \* images to analyse, at most one
  worker,     \* the pose worker: its step, its image and its result
  tracker,    \* PresenceTracker of the device
  smoother,   \* PostureSmoother of the device
  log,        \* history: all results, with what was seen, since when
  allowed     \* what is left of the scene

perceptionVars ==
  <<clock, images, poses, reminders, queue, worker, tracker, smoother, log, allowed>>

-----------------------------------------------------------------------------
(* What the models see *)

Detections == {"found", "none", "error"}

(* What the landmarks show: nothing, a part, a torso without legs, or legs *)
(* bent, straight or in between.                                           *)
Sights == {"nothing", "part", "torso", "bent", "hunched", "straight",
           "between", "error"}

Outcome == Detections \X Sights

Observation ==
  [posture : {"unknown", "upright", "hunched", "not_seated"},
   seated : {"unknown", "seated", "not_seated"}]

Unknown == [posture |-> "unknown", seated |-> "unknown"]

(* classify_posture: a torso without legs is taken for somebody seated.    *)
Classified(sight) ==
  CASE sight \in {"torso", "bent"} -> [posture |-> "upright", seated |-> "seated"]
    [] sight = "hunched"  -> [posture |-> "hunched", seated |-> "seated"]
    [] sight = "straight" -> [posture |-> "not_seated", seated |-> "not_seated"]
    [] OTHER -> Unknown

(* body_coverage is not "insufficient".                                    *)
Covers(sight) == sight \notin {"nothing", "part", "error"}

(* A bounding box or landmarks are drawn.                                  *)
Annotated(detection, sight) ==
  detection = "found" \/ sight \notin {"nothing", "error"}

-----------------------------------------------------------------------------
(* PresenceTracker.update *)

Misses == 3  \* in a row, to leave
Hits == 2    \* of the fallback, to enter

NewTracker == [stable |-> FALSE, misses |-> 0, hits |-> 0]

AtMost(n, bound) == IF n > bound THEN bound ELSE n

Tracked(t, detection, sight) ==
  CASE detection = "found" -> [stable |-> TRUE, misses |-> 0, hits |-> 0]
    [] detection # "found" /\ Covers(sight) ->
         [stable |-> t.stable \/ t.hits + 1 >= Hits, misses |-> 0,
          hits |-> AtMost(t.hits + 1, Hits)]
    [] detection # "found" /\ ~Covers(sight) /\ "error" \in {detection, sight} -> t
    [] OTHER -> [stable |-> t.stable /\ t.misses + 1 < Misses, hits |-> 0,
                 misses |-> AtMost(t.misses + 1, Misses)]

-----------------------------------------------------------------------------
(* PostureSmoother.update *)

Kept == 2  \* results without a posture for which the last one stands

NewSmoother == [stable |-> Unknown, candidate |-> Unknown, missing |-> 0]

(* Mutant: the candidate is kept over results without a posture.           *)
SmoothedPatient(s, o) ==
  CASE o.posture = "unknown" -> [s EXCEPT !.missing = AtMost(@ + 1, Kept + 1)]
    [] o.posture # "unknown" /\ o \in {s.stable, s.candidate} ->
         [stable |-> o, candidate |-> Unknown, missing |-> 0]
    [] OTHER -> [s EXCEPT !.candidate = o, !.missing = 0]

(* A posture stands when it is seen twice, or seen again.                  *)
Smoothed(s, o) ==
  CASE o.posture = "unknown" ->
         [s EXCEPT !.candidate = Unknown, !.missing = AtMost(@ + 1, Kept + 1)]
    [] o.posture # "unknown" /\ o \in {s.stable, s.candidate} ->
         [stable |-> o, candidate |-> Unknown, missing |-> 0]
    [] OTHER -> [s EXCEPT !.candidate = o, !.missing = 0]

(* What is reported, after s has taken o in: the posture that stands; an   *)
(* unconfirmed one is unknown, but whether it sits is told.                *)
Reported(s, o) ==
  CASE s.stable # Unknown /\ s.missing <= Kept -> s.stable
    [] OTHER -> [o EXCEPT !.posture = "unknown"]

-----------------------------------------------------------------------------
(* Types *)

Pose == [image : Nat, annotated : Nat \cup {Nobody}, time : Nat,
         present : BOOLEAN, sitting : BOOLEAN]

LogEntry == [detection : Detections, sight : Sights, stored : BOOLEAN, time : Nat,
             life : Nat, present : BOOLEAN,
             posture : {"unknown", "upright", "hunched", "not_seated"},
             sitting : BOOLEAN]

Shots == [outcomes : SUBSET Outcome, uploads : Nat, again : Nat, seconds : Nat,
          failures : Nat, limit : Nat \ {0}, patient : BOOLEAN]

PerceptionTypeOK ==
  /\ clock \in Nat
  /\ images \in Seq([id : Nat, capture : BOOLEAN])
  /\ poses \subseteq Pose
  /\ reminders \in Seq([time : Nat, after : Nat])
  /\ queue \in Seq(Nat) /\ Len(queue) <= 1
  /\ worker \in [pc : {"idle", "analyse", "handle"}, image : Nat,
                 pose : Pose \cup {Nobody}, listened : BOOLEAN, life : Nat]
  /\ tracker \in [stable : BOOLEAN, misses : 0..Misses, hits : 0..Hits]
  /\ smoother \in [stable : Observation, candidate : Observation,
                   missing : 0..(Kept + 1)]
  /\ log \in Seq(LogEntry)
  /\ allowed \in Shots

PerceptionInit ==
  /\ clock = 0
  /\ images = <<>> /\ poses = {} /\ reminders = <<>>
  /\ queue = <<>>
  /\ worker = [pc |-> "idle", image |-> 0, pose |-> Nobody, listened |-> FALSE,
               life |-> 0]
  /\ tracker = NewTracker /\ smoother = NewSmoother
  /\ log = <<>>

Use(shot) == /\ allowed[shot] > 0
             /\ allowed' = [allowed EXCEPT ![shot] = @ - 1]

-----------------------------------------------------------------------------
(* Uploads *)

NextId == IF images = <<>> THEN 1 ELSE Last(images).id + 1

Newest(rows) ==
  SubSeq(rows, IF Len(rows) > allowed.limit THEN Len(rows) - allowed.limit + 1 ELSE 1,
         Len(rows))

Ids(rows) == {rows[n].id : n \in DOMAIN rows}

Shown(rows, p) == p.image \in Ids(rows) /\ p.annotated \in Ids(rows) \cup {Nobody}

(* Mutant: images wait for one another.                                    *)
EnqueuedBehind(id) == Append(queue, id)

Enqueued(id) == <<id>>

(* save_image with prune_images, then enqueue: of two images that wait the *)
(* older is dropped.  A patient camera waits for the analysis.             *)
Upload ==
  /\ Use("uploads")
  /\ allowed.patient => worker.pc = "idle" /\ queue = <<>>
  /\ LET rows == Newest(Append(images, [id |-> NextId, capture |-> TRUE]))
     IN  /\ images' = rows
         /\ poses' = {p \in poses : Shown(rows, p)}
  /\ queue' = Enqueued(NextId)
  /\ UNCHANGED <<clock, reminders, worker, tracker, smoother, log>>

(* analyze_latest_pose: the newest capture once more                       *)
AnalyseAgain ==
  /\ Use("again")
  /\ \E n \in DOMAIN images :
       /\ images[n].capture
       /\ \A m \in DOMAIN images : m > n => ~images[m].capture
       /\ queue' = Enqueued(images[n].id)
  /\ UNCHANGED <<clock, images, poses, reminders, worker, tracker, smoother, log>>

Second ==
  /\ Use("seconds")
  /\ clock' = clock + 1
  /\ UNCHANGED <<images, poses, reminders, queue, worker, tracker, smoother, log>>

-----------------------------------------------------------------------------
(* The worker: PoseService._worker and process_now *)

(* An image that was pruned meanwhile is an error, and nothing comes of    *)
(* it.  Each analysis takes its time.                                      *)
TakeImage ==
  /\ worker.pc = "idle" /\ queue # <<>>
  /\ queue' = <<>>
  /\ worker' = IF Head(queue) \in Ids(images)
               THEN [worker EXCEPT !.pc = "analyse", !.image = Head(queue)]
               ELSE worker
  /\ clock' = clock + 1
  /\ UNCHANGED <<images, poses, reminders, tracker, smoother, log, allowed>>

Result(detection, sight) ==
  [image |-> worker.image,
   annotated |-> IF Annotated(detection, sight) THEN NextId ELSE Nobody,
   time |-> clock,
   present |-> Tracked(tracker, detection, sight).stable,
   sitting |-> /\ Tracked(tracker, detection, sight).stable
               /\ Reported(Smoothed(smoother, Classified(sight)),
                           Classified(sight)).seated = "seated"]

(* What the models saw moves tracker and smoother on, stored or not.       *)
Seen(detection, sight, stored) ==
  /\ tracker' = Tracked(tracker, detection, sight)
  /\ smoother' = Smoothed(smoother, Classified(sight))
  /\ log' = Append(log,
       [detection |-> detection, sight |-> sight, stored |-> stored,
        time |-> clock, life |-> worker.life, present |-> tracker'.stable,
        posture |-> Reported(smoother', Classified(sight)).posture,
        sitting |-> Result(detection, sight).sitting])

(* The result is committed with its annotated image, and images pruned.    *)
Record(detection, sight) ==
  /\ worker.pc = "analyse" /\ worker.image \in Ids(images)
  /\ Seen(detection, sight, TRUE)
  /\ LET p == Result(detection, sight)
         drawn == [id |-> p.annotated, capture |-> FALSE]
         rows == IF p.annotated = Nobody THEN images ELSE Append(images, drawn)
     IN  /\ images' = Newest(rows)
         /\ poses' = {q \in poses \cup {p} : Shown(images', q)}
         /\ worker' = [worker EXCEPT !.pc = "handle", !.pose = p]
  /\ UNCHANGED <<clock, reminders, queue, allowed>>

(* Writing the image or the row fails, or the row has lost its image.      *)
Lose(detection, sight) ==
  /\ worker.pc = "analyse"
  /\ IF worker.image \in Ids(images) THEN Use("failures") ELSE UNCHANGED allowed
  /\ Seen(detection, sight, FALSE)
  /\ worker' = [worker EXCEPT !.pc = "idle", !.pose = Nobody]
  /\ UNCHANGED <<clock, images, poses, reminders, queue>>

-----------------------------------------------------------------------------
(* detect_sedentary_event *)

Since(t) == {p \in poses : p.time > t}

(* Since the last reminder somebody was not sitting.                       *)
RoseSince(p) ==
  reminders # <<>> =>
    /\ p.time > Last(reminders).time
    /\ \E q \in Since(Last(reminders).time) : ~q.sitting

(* The last result at least a threshold old begins the sitting.            *)
Anchor(p) ==
  LET old == {q \in poses : q.time + SedentaryThreshold <= p.time}
  IN  {q \in old : \A o \in old : o.time <= q.time}

(* All sit, and none is far behind the one before it.                      *)
SatFrom(t) ==
  \A p \in poses : p.time >= t =>
    /\ p.sitting
    /\ Since(p.time) # {} => \E q \in Since(p.time) : q.time - p.time <= MaxGap

(* Mutant: what was seen since the anchor is not looked at.                *)
DueByAnchor(p) ==
  p.sitting /\ RoseSince(p) /\ \E q \in Anchor(p) : q.sitting

(* Mutant: a sitting of exactly the threshold is not enough.               *)
DueLate(p) ==
  /\ p.sitting /\ RoseSince(p)
  /\ \E q \in Anchor(p) : q.time + SedentaryThreshold < p.time /\ SatFrom(q.time)

Due(p) ==
  /\ p \in poses /\ p.sitting
  /\ RoseSince(p)
  /\ \E q \in Anchor(p) : SatFrom(q.time)

Remind ==
  /\ worker.pc = "handle"
  /\ Due(worker.pose)
  /\ reminders' = Append(reminders, [time |-> clock, after |-> Len(log)])
  /\ worker' = [worker EXCEPT !.pc = "idle", !.listened = TRUE]
  /\ UNCHANGED <<clock, images, poses, queue, tracker, smoother, log, allowed>>

(* listens: the policy is on.                                              *)
NotDue(listens) ==
  /\ worker.pc = "handle"
  /\ listens => ~Due(worker.pose)
  /\ worker' = [worker EXCEPT !.pc = "idle", !.listened = listens]
  /\ UNCHANGED <<clock, images, poses, reminders, queue, tracker, smoother, log,
                 allowed>>

(* What the gateway keeps in memory is lost.                               *)
PerceptionCrash ==
  /\ queue' = <<>>
  /\ worker' = [worker EXCEPT !.pc = "idle", !.pose = Nobody, !.life = @ + 1]
  /\ tracker' = NewTracker /\ smoother' = NewSmoother
  /\ UNCHANGED <<clock, images, poses, reminders, log, allowed>>

(* The latest result, as a snapshot of the device shows it.                *)
Present(rows) == \E p \in rows : p.present /\ \A q \in rows : q.time <= p.time

-----------------------------------------------------------------------------
(* Properties *)

(* Every result has the images it was made from and drawn into.            *)
PosesHaveImages ==
  \A p \in poses : {p.image, p.annotated} \subseteq Ids(images) \cup {Nobody}

Stored(a, b) == {n \in a..b : log[n].stored}

Sat(a, b) ==
  /\ \A n \in Stored(a, b) : log[n].sitting
  /\ \A n \in Stored(a, b - 1) : \E m \in Stored(n + 1, b) :
       log[m].time - log[n].time <= MaxGap

LongSitting(b) ==
  \E a \in Stored(1, b) : /\ log[a].time + SedentaryThreshold <= log[b].time
                          /\ Sat(a, b)

(* Nobody is reminded who has not been sitting for the threshold, by all   *)
(* results there ever were, pruned ones and those before a restart         *)
(* included.                                                               *)
ReminderIsEarned ==
  \A r \in DOMAIN reminders : LongSitting(reminders[r].after)

(* Between two reminders somebody has been seen not sitting.               *)
OneReminderPerSitting ==
  \A r \in DOMAIN reminders : r > 1 =>
    \E n \in Stored(reminders[r - 1].after + 1, reminders[r].after) :
      ~log[n].sitting

(* Who has been sitting for the threshold has been reminded, if no result  *)
(* has been pruned meanwhile.                                              *)
SitterIsReminded ==
  LET kept == \A n \in Stored(1, Len(log)) : \E p \in poses : p.time = log[n].time
      reminded(b) == \E r \in DOMAIN reminders :
        \A n \in Stored(1, b) : log[n].time > reminders[r].time => log[n].sitting
  IN  worker.pc = "idle" /\ worker.pose # Nobody /\ worker.listened
        /\ kept /\ LongSitting(Len(log))
      => reminded(Len(log))

Same(a, b) == \A n \in a..b : log[n].life = log[b].life
Met(n) == log[n].detection = "found" \/ Covers(log[n].sight)
Missed(n) == ~Met(n) /\ log[n].detection = "none" /\ log[n].sight # "error"
WasPresent(n) == n > 1 /\ Same(n - 1, n) /\ log[n - 1].present

(* Somebody leaves after three misses, with nothing seen in between but    *)
(* failures; somebody enters when detected, or by two postures with        *)
(* nothing but failures in between.                                        *)
PresenceIsSustained ==
  \A n \in DOMAIN log :
    /\ WasPresent(n) /\ ~log[n].present =>
         \E a \in 1..n : /\ Same(a, n) /\ ~\E m \in a..n : Met(m)
                         /\ Cardinality({m \in a..n : Missed(m)}) = Misses
    /\ ~WasPresent(n) /\ log[n].present =>
         \/ log[n].detection = "found"
         \/ /\ Met(n)
            /\ \E a \in 1..(n - 1) : /\ Same(a, n) /\ Met(a)
                                     /\ ~\E m \in (a + 1)..(n - 1) : Missed(m)

(* A posture other than the one reported last was seen twice in a row.     *)
PostureIsConfirmed ==
  \A n \in DOMAIN log :
    LET posture == log[n].posture
        known == {m \in 1..(n - 1) : Same(m, n) /\ log[m].posture # "unknown"}
    IN  posture # "unknown"
          /\ (\A m \in known : (\A k \in known : k <= m) => log[m].posture # posture)
        => /\ n > 1 /\ Same(n - 1, n)
           /\ \A m \in {n - 1, n} : Classified(log[m].sight).posture = posture
=============================================================================
