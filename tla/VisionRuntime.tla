--------------------------- MODULE VisionRuntime ----------------------------
(***************************************************************************)
(* The camera side of the installation                                     *)
(* (src/conscious_entity/vision/runtime.py): a worker thread reads frames, *)
(* associates the people it detects with tracks, debounces presence into   *)
(* events and publishes a snapshot.  The API, on the event loop's thread,  *)
(* starts and stops the worker, switches the camera, feeds single frames   *)
(* from a browser and reads the snapshot and the pending events.           *)
(*                                                                         *)
(* A detection is the person it shows.  Bounding boxes are left out: a     *)
(* detection is associated with a track of the same person, or with none   *)
(* when the person moved too far, never with somebody else's.              *)
(*                                                                         *)
(* A tick of the clock is longer than the worker needs for one frame.      *)
(* Ages are ticks since the stored timestamp and stop at ClockCap.         *)
(***************************************************************************)
EXTENDS Integers, Sequences, FiniteSets

CONSTANTS
  People,        \* who may stand before the camera
  Nobody,        \* the person of a track that does not exist yet
  MaxTrack,      \* BOUND: tracks are numbered 1 .. MaxTrack
  EnterFrames,   \* VisionConfig.enter_frames
  LeaveTicks,    \* VisionConfig.leave_seconds, in ticks
  SilenceTicks,  \* VisionConfig.silence_seconds, in ticks
  MissingTicks,  \* max_missing_seconds of the person tracker, in ticks
  ClockCap,      \* BOUND: ages stop counting here
  MaxPending,    \* BOUND: frames are taken while fewer events are pending
  Operations     \* which of "stop", "switch" and "browser" the API is asked for

ASSUME PeopleAssumption  == Nobody \notin People
ASSUME VisionAssumption  == /\ MaxTrack \in Nat
                            /\ EnterFrames \in Nat \ {0}
                            /\ ClockCap \in Nat
                            /\ LeaveTicks \in 0 .. ClockCap
                            /\ SilenceTicks \in 1 .. ClockCap
                            /\ MissingTicks \in 0 .. ClockCap - 1
                            /\ MaxPending \in Nat

VARIABLES
  running,   \* VisionManager._running
  halted,    \* VisionManager._stop_event
  call,      \* what the event loop's thread is blocked in: stop(), or nothing
  worker,    \* the worker thread: where it is, and its local results
  tracker,   \* VisionPersonTracker: the next id and the track objects
  presence,  \* VisionPresenceTracker
  snapshot,  \* the published VisionSnapshot
  pending    \* VisionManager._pending_events

visionVars == << running, halted, call, worker, tracker, presence, snapshot, pending >>

-----------------------------------------------------------------------------
(* State. *)

TrackIds    == 1 .. MaxTrack
Clock       == 0 .. ClockCap
Grown(a)    == IF a < ClockCap THEN a + 1 ELSE a
VisionEvents == {"user_entered", "user_left", "long_silence"}

\* A VisionTrack; live: the tracker still keeps it in its dictionary.  A track
\* dropped from there may still be listed in the published snapshot.
Track   == [who: People \union {Nobody}, age: Clock, active: BOOLEAN, live: BOOLEAN]
NoTrackYet == [who |-> Nobody, age |-> 0, active |-> FALSE, live |-> FALSE]
NewTracker == [next |-> 1, tracks |-> [t \in TrackIds |-> NoTrackYet]]
Live(trk)  == {t \in TrackIds : trk.tracks[t].live}

\* Bug: the times that are not known yet are taken for numbers.
AbsenceUnset == [present |-> FALSE, run |-> 0, seen |-> -1, idle |-> -1]
Absence    == [present |-> FALSE, run |-> 0, seen |-> 0, idle |-> 0]
NoSnapshot == [frame |-> FALSE, listed |-> {}]
NoWorker   == [pc |-> "gone", sees |-> {}, listed |-> {}, events |-> << >>]
AtLoop     == [NoWorker EXCEPT !.pc = "loop"]

\* The event loop's thread is free to take the next request.
LoopFree == call = "none"

-----------------------------------------------------------------------------
(* VisionPersonTracker.update *)

Assigns(sees, f, trk) ==
  /\ \A p, q \in sees : f[p] = f[q] => p = q
  /\ \A p \in sees : f[p] \in Live(trk) => trk.tracks[f[p]].who = p
  /\ LET new == {f[p] : p \in sees} \ Live(trk)
     IN  new = trk.next .. trk.next + Cardinality(new) - 1

\* Matched tracks are refreshed, the others become inactive, and those unseen
\* for more than max_missing_seconds are dropped.
Associated(sees, f, trk) ==
  [next   |-> trk.next + Cardinality({f[p] : p \in sees} \ Live(trk)),
   tracks |-> [t \in TrackIds |->
                 IF \E p \in sees : f[p] = t
                 THEN [who |-> CHOOSE p \in sees : f[p] = t,
                       age |-> 0, active |-> TRUE, live |-> TRUE]
                 ELSE [trk.tracks[t] EXCEPT
                         !.active = FALSE, !.live = @ /\ trk.tracks[t].age <= MissingTicks]]]

-----------------------------------------------------------------------------
(* VisionPresenceTracker.update *)

Entering(has, p) == has  /\ ~p.present /\ p.run + 1 >= EnterFrames
Leaving(has, p)  == ~has /\ p.present  /\ p.seen >= LeaveTicks

Noticed(has, p) ==
  [present |-> Entering(has, p) \/ (p.present /\ ~Leaving(has, p)),
   run     |-> IF ~has THEN 0 ELSE IF p.run < EnterFrames THEN p.run + 1 ELSE p.run,
   seen    |-> IF has THEN 0 ELSE p.seen,
   idle    |-> IF Entering(has, p) \/ Leaving(has, p) THEN 0 ELSE p.idle]

\* An event every silence_seconds without activity.  The code also remembers
\* when it last reported silence; the activity it sets then is never earlier.
Silent(p) == p.present /\ p.idle >= SilenceTicks

Settle(p) == IF Silent(p) THEN [p EXCEPT !.idle = 0] ELSE p

EventsOf(has, p) ==
     (IF Entering(has, p) THEN << "user_entered" >> ELSE << >>)
  \o (IF Leaving(has, p)  THEN << "user_left" >>    ELSE << >>)
  \o (IF Silent(Noticed(has, p)) THEN << "long_silence" >> ELSE << >>)

-----------------------------------------------------------------------------
(* _publish_snapshot *)

\* Bug: the pending events are replaced by those of the last frame.
PublishReplaces(listed, events) ==
  /\ snapshot' = [frame |-> TRUE, listed |-> listed]
  /\ pending'  = events

Publish(listed, events) ==
  /\ snapshot' = [frame |-> TRUE, listed |-> listed]
  /\ pending'  = pending \o events

-----------------------------------------------------------------------------
(* The worker thread: _run_worker. *)

\* The next frame is read and its people detected; or the read fails and is
\* tried again, which changes nothing.
WorkerReads ==
  /\ worker.pc = "loop" /\ ~halted /\ Len(pending) < MaxPending
  /\ \E sees \in SUBSET People :
       /\ \E f \in [sees -> TrackIds] : Assigns(sees, f, tracker)
       /\ worker' = [AtLoop EXCEPT !.pc = "detected", !.sees = sees]
  /\ UNCHANGED << running, halted, call, tracker, presence, snapshot, pending >>

WorkerTracks ==
  /\ worker.pc = "detected"
  /\ \E f \in [worker.sees -> TrackIds] :
       /\ Assigns(worker.sees, f, tracker)
       /\ tracker' = Associated(worker.sees, f, tracker)
  /\ worker' = [worker EXCEPT !.pc = "tracked", !.listed = Live(tracker')]
  /\ UNCHANGED << running, halted, call, presence, snapshot, pending >>

WorkerNotices ==
  /\ worker.pc = "tracked"
  /\ LET has == worker.sees # {} IN
       /\ presence' = Settle(Noticed(has, presence))
       /\ worker'   = [worker EXCEPT !.pc = "noticed", !.sees = {},
                                       !.events = EventsOf(has, presence)]
  /\ UNCHANGED << running, halted, call, tracker, snapshot, pending >>

WorkerPublishes ==
  /\ worker.pc = "noticed"
  /\ Publish(worker.listed, worker.events)
  /\ worker' = AtLoop
  /\ UNCHANGED << running, halted, call, tracker, presence >>

\* The loop ends when it is told to stop, or by an exception: in the detection, or
\* when the picture is drawn and encoded, after the tracks were updated.
WorkerEnds ==
  /\ \/ worker.pc = "loop" /\ halted
     \/ worker.pc \in {"detected", "tracked"}
  /\ worker' = NoWorker /\ running' = FALSE
  /\ UNCHANGED << halted, call, tracker, presence, snapshot, pending >>

-----------------------------------------------------------------------------
(* Requests, on the event loop's thread. *)

\* start: the stop flag is cleared before the camera turns out not to open.
Begun ==
  /\ halted' = FALSE
  /\ \/ running' = TRUE  /\ worker' = AtLoop
     \/ running' = FALSE /\ worker' = NoWorker

Start ==
  /\ LoopFree /\ ~running
  /\ Begun
  /\ UNCHANGED << call, tracker, presence, snapshot, pending >>

\* stop joins the worker, and blocks the event loop while it does.
StopBegins(then) ==
  /\ LoopFree /\ then \in Operations
  /\ then = "switch" => running
  /\ halted' = TRUE /\ call' = then
  /\ UNCHANGED << running, worker, tracker, presence, snapshot, pending >>

StopReturns ==
  /\ call = "stop" /\ worker.pc = "gone"
  /\ running' = FALSE /\ call' = "none"
  /\ UNCHANGED << halted, worker, tracker, presence, snapshot, pending >>

\* set_camera_index: trackers, snapshot and pending events start anew, and so
\* does a worker that was running.
StartAnew ==
  /\ tracker' = NewTracker /\ presence' = Absence
  /\ snapshot' = NoSnapshot /\ pending' = << >>

SwitchRunning ==
  /\ call = "switch" /\ worker.pc = "gone"
  /\ StartAnew
  /\ Begun
  /\ call' = "none"

SwitchStopped ==
  /\ LoopFree /\ "switch" \in Operations /\ ~running
  /\ StartAnew
  /\ UNCHANGED << running, halted, call, worker >>

\* process_image_frame, beside the worker if there is one; its request fails when
\* the picture cannot be drawn and encoded.
BrowserFrame ==
  /\ LoopFree /\ "browser" \in Operations /\ Len(pending) < MaxPending
  /\ \E sees \in SUBSET People : \E f \in [sees -> TrackIds] :
       /\ Assigns(sees, f, tracker)
       /\ tracker' = Associated(sees, f, tracker)
       /\ \/ /\ presence' = Settle(Noticed(sees # {}, presence))
             /\ Publish(Live(tracker'), EventsOf(sees # {}, presence))
          \/ UNCHANGED << presence, snapshot, pending >>
  /\ UNCHANGED << running, halted, call, worker >>

\* mark_activity: a dialogue turn was taken.
MarkActivity ==
  /\ LoopFree
  /\ presence' = [presence EXCEPT !.idle = 0]
  /\ UNCHANGED << running, halted, call, worker, tracker, snapshot, pending >>

\* pop_pending_events
PopEvents ==
  /\ LoopFree
  /\ pending' = << >>
  /\ UNCHANGED << running, halted, call, worker, tracker, presence, snapshot >>

\* One tick: every stored timestamp grows older.
Aged(track) == IF track.who = Nobody THEN track ELSE [track EXCEPT !.age = Grown(@)]

VisionTick ==
  /\ worker.pc \in {"loop", "gone"}
  /\ tracker'  = [tracker EXCEPT !.tracks = [t \in TrackIds |-> Aged(tracker.tracks[t])]]
  /\ presence' = IF presence.present
                 THEN [presence EXCEPT !.seen = Grown(@), !.idle = Grown(@)] ELSE presence
  /\ UNCHANGED << running, halted, call, worker, snapshot, pending >>

VisionInit ==
  /\ running = FALSE /\ halted = FALSE /\ call = "none"
  /\ worker = NoWorker
  /\ tracker = NewTracker /\ presence = Absence
  /\ snapshot = NoSnapshot /\ pending = << >>

Worker == WorkerReads \/ WorkerTracks \/ WorkerNotices \/ WorkerPublishes \/ WorkerEnds

Manager == Start \/ StopReturns \/ \E then \in {"stop", "switch"} : StopBegins(then)

Switch == SwitchRunning \/ SwitchStopped

-----------------------------------------------------------------------------
(* Properties. *)

\* Every variable stays in its type.
VisionTypeOK ==
  /\ running \in BOOLEAN /\ halted \in BOOLEAN
  /\ call \in {"none", "stop", "switch"}
  /\ worker \in [pc: {"gone", "loop", "detected", "tracked", "noticed"},
                 sees: SUBSET People, listed: SUBSET TrackIds, events: Seq(VisionEvents)]
  /\ tracker \in [next: 1 .. MaxTrack + 1, tracks: [TrackIds -> Track]]
  /\ presence \in [present: BOOLEAN, run: 0 .. EnterFrames, seen: Clock, idle: Clock]
  /\ snapshot \in [frame: BOOLEAN, listed: SUBSET TrackIds]
  /\ pending \in Seq(VisionEvents)
=============================================================================
