-------------------------- MODULE VisitorPresence ---------------------------
(***************************************************************************)
(* The gating controller fed by the real tracker instead of by arbitrary   *)
(* reports: every poll of the event dispatcher                             *)
(* (src/conscious_entity/interfaces/api_runtime.py) reads                  *)
(* VisionManager.person_tracking_status, and the presence events it pops   *)
(* reach the controller in order.  The visitor is bound by the developer;  *)
(* recognition and sessions are the subject of VisitorGating and           *)
(* SessionHandoff.                                                         *)
(***************************************************************************)
EXTENDS VisionRuntime, VisitorGating

CONSTANTS
  Reconfigures,  \* whether the handoff is switched off and on meanwhile
  MaxKinds       \* BOUND: so many kinds of disturbance happen in one behaviour, a
                 \* camera switch or a mixed frame once each

ASSUME PresenceAssumption == Reconfigures \in BOOLEAN /\ MaxKinds \in Nat
ASSUME SameTracksAssumption   == Tracks = TrackIds /\ AgeCap = ClockCap

VARIABLES
  popped,    \* events the dispatcher has popped and not yet handled
  told,      \* history: the last user_entered or user_left was an entry
  unpolled,  \* history: ticks since a poll last found the locked track listed,
             \* counted while the tracker keeps the track
  disturbed  \* history: what was done that the properties make exceptions for

presenceVars == << gate, config, visionVars, popped, told, unpolled, disturbed >>

\* "switch": the camera was switched; "mixed": a browser sent a frame while the
\* worker ran; "config": the handoff was switched off or on.
Disturb(kind) ==
  /\ kind \notin disturbed /\ Cardinality(disturbed) < MaxKinds
  /\ disturbed' = disturbed \union {kind}

\* The tracker keeps track t in its dictionary.
Keeps(t) == t \in Live(tracker)

-----------------------------------------------------------------------------

\* person_tracking_status.  The snapshot lists the tracker's own objects, so what
\* it says of a track is what the tracker knows by now.
Sighted(t) == IF t \notin snapshot.listed THEN Absent
              ELSE [sight |-> IF tracker.tracks[t].active THEN "active" ELSE "missing",
                    age   |-> tracker.tracks[t].age]

Report == [frame  |-> snapshot.frame,
           person |-> presence.present,
           list   |-> [t \in TrackIds |-> Sighted(t)]]

\* The dispatcher polls when it has handled what it popped.
PollVision ==
  /\ LoopFree /\ popped = << >>
  /\ UpdatePrimaryPresence(Report)
  /\ unpolled' = IF Tracking(Report) /\ gate'.track \in snapshot.listed THEN 0 ELSE unpolled
  /\ UNCHANGED << visionVars, popped, told, disturbed >>

PopPending ==
  /\ popped = << >> /\ pending # << >>
  /\ popped' = pending
  /\ PopEvents
  /\ UNCHANGED << gate, config, told, unpolled, disturbed >>

HandleEvent ==
  /\ LoopFree /\ popped # << >>
  /\ SystemEvent(Head(popped))
  /\ popped' = Tail(popped)
  /\ told' = IF Head(popped) = "long_silence" THEN told ELSE Head(popped) = "user_entered"
  /\ UNCHANGED << visionVars, unpolled, disturbed >>

\* A visitor is bound, or unbound, by the developer.
BindVisitor ==
  /\ LoopFree
  /\ \E v \in Visitors \union {None} : gate' = SetPrimaryVisitor(gate, v)
  /\ UNCHANGED << config, visionVars, popped, told, unpolled, disturbed >>

TakeTurn ==
  /\ Turn(FALSE)
  /\ MarkActivity
  /\ UNCHANGED << popped, told, unpolled, disturbed >>

Reconfigure ==
  /\ LoopFree /\ Reconfigures
  /\ ConfigureIdentity(config.autoBind, ~config.handoff, config.grace)
  /\ disturbed' = disturbed \union {"config"} /\ Cardinality(disturbed') <= MaxKinds
  /\ UNCHANGED << visionVars, popped, told, unpolled >>

Clockwork ==
  /\ Tick
  /\ VisionTick
  /\ unpolled' = IF Keeps(gate.track) /\ unpolled <= MissingTicks
                 THEN unpolled + 1 ELSE unpolled
  /\ UNCHANGED << popped, told, disturbed >>

Camera ==
  /\ Worker \/ Manager
  /\ UNCHANGED << gate, config, popped, told, unpolled, disturbed >>

SwitchCamera ==
  /\ Switch
  /\ Disturb("switch")
  /\ UNCHANGED << gate, config, popped, told, unpolled >>

FrameFromBrowser ==
  /\ BrowserFrame
  /\ IF worker.pc = "gone" THEN UNCHANGED disturbed ELSE Disturb("mixed")
  /\ UNCHANGED << gate, config, popped, told, unpolled >>

PresenceInit ==
  /\ Init /\ VisionInit
  /\ popped = << >> /\ told = FALSE
  /\ unpolled = 0 /\ disturbed = {}

PresenceNext ==
  \/ Camera \/ SwitchCamera \/ FrameFromBrowser
  \/ PollVision \/ PopPending \/ HandleEvent
  \/ BindVisitor \/ TakeTurn \/ Reconfigure
  \/ Clockwork

PresenceSpec == PresenceInit /\ [][PresenceNext]_presenceVars

-----------------------------------------------------------------------------
(* Properties. *)

Releases    == gate.presence # "left" /\ gate'.presence = "left"
LockedTrack == tracker.tracks[gate.track]
Undisturbed == disturbed \intersect {"switch", "mixed"} = {}

\* A visitor is released only when the locked track was last matched a full grace
\* period ago, however worker, ticks, polls and turns meet: the ordinary departure,
\* in which the tracker drops the track long before the grace period is over, is no
\* exception.  Excepted is a dispatcher that did not look at the track during the
\* last MissingTicks before the tracker dropped it (it may wait for a turn, or the
\* handoff was off): it measures from the last poll that found the track and cannot
\* know of a later match, although docs/visitor_identity_behavior_test.md:29 makes no
\* such exception.  The camera was not switched, and one source sent the frames.
ReleaseIsDue ==
  [][ Releases /\ Undisturbed =>
        \/ LockedTrack.age >= config.grace
        \/ ~Keeps(gate.track) /\ unpolled > MissingTicks ]_presenceVars

\* What the presence events say, from the last one handled to the last one pending,
\* leads to the camera's debounced presence once the frame is published: entries
\* and departures alternate, and none is lost, doubled or out of order, unless the
\* camera was switched or two sources sent frames.
Course(before, events, after) ==
  \E p \in [0 .. Len(events) -> BOOLEAN] :
    /\ p[0] = before /\ p[Len(events)] = after
    /\ \A i \in DOMAIN events :
         IF events[i] = "long_silence" THEN p[i] = p[i - 1]
         ELSE p[i] = (events[i] = "user_entered") /\ p[i - 1] = (events[i] = "user_left")

EventsTellPresence ==
  worker.pc # "noticed" /\ Undisturbed => Course(told, popped \o pending, presence.present)

=============================================================================
