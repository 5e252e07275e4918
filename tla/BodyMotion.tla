----------------------------- MODULE BodyMotion -----------------------------
(***************************************************************************)
(* The lower body as the Python process drives it: BodyMotionController    *)
(* (body/motion.py) runs a profile of short drive pulses, the serial bridge *)
(* (body/serial_bridge.py) writes one command at a time and the telemetry  *)
(* store (body/telemetry.py) keeps what the process believes of the robot. *)
(* Beside the motion task, the manual test, the command route, the teleop  *)
(* socket and connect/disconnect write to the same port.  The ESP32 behind *)
(* the cable is the other party: it reads the lines in order, answers each  *)
(* discrete command with an ack, and switches its own motors off.          *)
(***************************************************************************)
EXTENDS Integers, Sequences, FiniteSets

CONSTANTS Moods,        \* the (EntityState, body_action) pairs a turn may end in
          Tests,        \* intents the developer's motion test may ask for
          ApiCommands,  \* discrete commands the command route may send
          WireMax,      \* lines the operating system buffers before the robot reads
          Budget        \* outside events per behaviour: requests, messages, reports, faults

-----------------------------------------------------------------------------
(* Profiles and the choice of an intent                                     *)

Strict == "strict_track"
Loose  == "allow_transient_line_loss"
Shown  == "display_only"

Profile(policy, cools, steps, post, command) ==
    [policy |-> policy, cools |-> cools, steps |-> steps, post |-> post, command |-> command]

\* A step is the zero drive ("rest") or a pulse that turns the wheels: "expressive" in the
\* profiles that may leave the line, otherwise "drive".
Wiggle == <<"expressive", "expressive", "expressive">>
Profiles ==
    [HOLD           |-> Profile(Strict, FALSE, <<>>, "none", "none"),
     NO_MOTION      |-> Profile(Shown, FALSE, <<>>, "none", "none"),
     APPROACH_MICRO |-> Profile(Strict, TRUE, <<"drive">>, "line", "none"),
     RETREAT_SHORT  |-> Profile(Strict, TRUE, <<"drive">>, "reacquire", "none"),
     WITHDRAW       |-> Profile(Strict, TRUE, <<"drive", "rest">>, "reacquire", "none"),
     TURN_AWAY      |-> Profile(Loose, TRUE, <<"expressive">>, "reacquire", "none"),
     TWIST_SMALL    |-> Profile(Loose, TRUE, Wiggle, "reacquire", "none"),
     TWIST_MEDIUM   |-> Profile(Loose, TRUE, Wiggle, "reacquire", "none"),
     SPIN_ONE_EXPERIMENTAL |-> Profile(Shown, TRUE, <<"drive">>, "reacquire", "none"),
     REACQUIRE      |-> Profile(Loose, TRUE, <<>>, "none", "reacquire start")]
Intents == DOMAIN Profiles

\* Levels are percentages; the first rule that applies decides.
ResolveIntent(s, act) ==
    CASE s.anger >= 60                                  -> "RETREAT_SHORT"
      [] s.anger < 60 /\ (s.fatigue >= 80 \/ s.desperation >= 85) -> "WITHDRAW"
      [] OTHER ->
         IF s.exposure >= 60 THEN "TURN_AWAY"
         ELSE IF s.confusion >= 85 THEN "SPIN_ONE_EXPERIMENTAL"
         ELSE IF s.confusion >= 70 THEN "TWIST_MEDIUM"
         ELSE IF s.confusion >= 50 THEN "TWIST_SMALL"
         ELSE IF act \in {"lean_in", "circle_back"}
              THEN IF s.fatigue >= 70 THEN "HOLD" ELSE "APPROACH_MICRO"
         ELSE IF act \in {"step_back", "distance_increase"} THEN "RETREAT_SHORT"
         ELSE IF act = "withdraw" THEN "WITHDRAW"
         ELSE IF act = "turn_away_30deg" THEN "TURN_AWAY"
         ELSE "HOLD"

\* Turns are always scheduled in speech_interaction; what remains of decide's blockers.
ShouldExecute(intent, auto) ==
    auto /\ intent \notin {"HOLD", "NO_MOTION"} /\ Profiles[intent].policy # Shown

-----------------------------------------------------------------------------
VARIABLES
  motion,   \* BodyMotionController: _lock, cooldowns, auto_enabled and its two callers
  bridge,   \* BodySerialBridge: the port, the reader, the write lock's queue and the writes
  view,     \* BodyTelemetryStore: the fields _preflight reads
  teleop,   \* the teleop socket's handler
  link,     \* the connect/disconnect route
  wire,     \* lines written and not read by the robot yet
  up,       \* what the robot printed and the reader has not ingested
  robot,    \* the ESP32
  used,     \* outside events so far (a bound only)
  seen      \* history, for the properties only
vars == <<motion, bridge, view, teleop, link, wire, up, robot, used, seen>>

Movers  == {"auto", "test"}                       \* coroutines inside execute_decision
Writers == Movers \cup {"api", "teleop", "link"}  \* coroutines that write to the port
Lines   == {"track_follow", "line_lost"}
Sights  == {"clear", "obstacle_stop"}

NoWrite == [cmd |-> "none", at |-> "none"]
Idle    == [pc |-> "idle", intent |-> "HOLD", step |-> 0, asleep |-> FALSE, why |-> "none"]
Blind   == [armed |-> "unknown", avoid |-> "unknown", lineOn |-> "unknown",
            obst |-> "unknown", line |-> "unknown"]
PowerOn == [armed |-> FALSE, avoid |-> TRUE, lineOn |-> TRUE, pulse |-> FALSE,
            obst |-> "clear", line |-> "track_follow"]

Init ==
    /\ robot = PowerOn
    /\ \E ready \in BOOLEAN :   \* at start, or connected, configured and the status read
          /\ motion = [owner |-> "none", auto |-> ready, cool |-> {}, run |-> [m \in Movers |-> Idle]]
          /\ bridge = [open |-> IF ready THEN "live" ELSE "no", plugged |-> TRUE, reading |-> ready,
                       queue |-> <<>>, wr |-> [w \in Writers |-> NoWrite]]
          /\ view = IF ready THEN [armed |-> "no", avoid |-> "yes", lineOn |-> "yes",
                                  obst |-> "clear", line |-> "track_follow"]
                    ELSE Blind
    /\ teleop = [moving |-> FALSE, pc |-> "closed"]
    /\ link = "idle"
    /\ wire = <<>> /\ up = <<>>
    /\ used = 0
    /\ seen = [drove |-> [m \in Movers |-> FALSE]]

Event == used < Budget /\ used' = used + 1

-----------------------------------------------------------------------------
(* The serial bridge                                                        *)

Moves == {"drive", "expressive", "motor"}
Connected == bridge.open # "no"      \* also a port whose device has gone ("dead")
Discrete == {"arm", "disarm", "motors off", "avoidance on", "avoidance off",
             "line on", "line off", "reacquire start", "reacquire stop"}

\* The routes refuse an intent without a profile and a command outside the protocol.
ASSUME BodyAssumption ==
    /\ WireMax \in Nat \ {0} /\ Budget \in Nat
    /\ Tests \subseteq Intents /\ ApiCommands \subseteq Discrete \cup {"motor"}

\* send_raw_command: refused at once without a port, otherwise queued on _write_lock.
Enqueue(w, cmd) ==
    bridge' = [bridge EXCEPT !.queue = Append(@, w), !.wr[w] = [cmd |-> cmd, at |-> "queued"]]

\* The writer that holds the lock writes in a worker thread.  The port may have been
\* taken away since it was checked: None.write, or an unplugged device, raises.
Write(w) ==
    /\ bridge.queue # <<>> /\ Head(bridge.queue) = w /\ bridge.wr[w].at = "queued"
    /\ IF bridge.open = "live"
       THEN /\ Len(wire) < WireMax
            /\ wire' = Append(wire, bridge.wr[w].cmd)
            /\ bridge' = [bridge EXCEPT !.wr[w].at = "written"]
            /\ seen' = [seen EXCEPT !.drove = [m \in Movers |->
                   CASE m = w /\ bridge.wr[w].cmd \in Moves -> TRUE
                     [] m = w /\ bridge.wr[w].cmd = "motors off" -> FALSE
                     [] OTHER -> seen.drove[m]]]
       ELSE bridge' = [bridge EXCEPT !.wr[w].at = "raised"] /\ UNCHANGED <<wire, seen>>
    /\ UNCHANGED <<motion, view, teleop, link, up, robot, used>>

\* The effect of an ack on the cached fields: the robot's and the local one are the same.
AckEffect(v, cmd) ==
    CASE cmd = "arm"                      -> [v EXCEPT !.armed = "yes"]
      [] cmd \in {"motors off", "disarm"} -> [v EXCEPT !.armed = "no"]
      [] cmd = "avoidance on"             -> [v EXCEPT !.avoid = "yes"]
      [] cmd = "avoidance off"            -> [v EXCEPT !.avoid = "no"]
      [] cmd = "line on"                  -> [v EXCEPT !.lineOn = "yes"]
      [] cmd = "line off"                 -> [v EXCEPT !.lineOn = "no"]
      [] OTHER                            -> v

Settled(w) == bridge.wr[w].at \in {"written", "raised"}
Raised(w)  == bridge.wr[w].at = "raised"

\* The coroutine resumes: the lock goes to the next in line and, for a discrete command
\* that was written, the store takes the command for done.
\* Bug: the writer stays in the queue.
ReleaseKeepsPlace(b, w) == [b EXCEPT !.wr[w] = NoWrite]
\* Bug: a write that raised does not give the lock back.
ReleaseUnlessRaised(b, w) ==
    [b EXCEPT !.queue = IF b.wr[w].at = "raised" THEN @ ELSE Tail(@), !.wr[w] = NoWrite]
Release(b, w) == [b EXCEPT !.queue = Tail(@), !.wr[w] = NoWrite]
Acked(w) == IF Raised(w) THEN view ELSE AckEffect(view, bridge.wr[w].cmd)

\* Continue coroutine w after its write: release, local ack, and its next write if any.
Resume(w, next) ==
    LET free == Release(bridge, w) IN
    /\ Settled(w)
    /\ view' = Acked(w)
    /\ bridge' = IF next = "none" THEN free
                 ELSE [free EXCEPT !.queue = Append(@, w), !.wr[w] = [cmd |-> next, at |-> "queued"]]

-----------------------------------------------------------------------------
(* The motion controller                                                    *)

Run(m) == motion.run[m]
Prof(m) == Profiles[Run(m).intent]

\* _preflight, in the code's order; manual tests may run display-only profiles.
Preflight(m) ==
    LET p == Prof(m) IN
    IF p.policy = Shown /\ m = "auto" THEN "display_only_profile"
    ELSE IF ~ Connected THEN "bridge_disconnected"
    ELSE IF p.steps # <<>> /\ view.armed # "yes" THEN "motor_disarmed"
    ELSE IF view.avoid # "yes" THEN "avoidance_off"
    ELSE IF view.obst = "obstacle_stop" THEN "obstacle_stop"
    ELSE IF view.lineOn # "yes" THEN "line_off"
    ELSE IF p.policy = Strict /\ view.line \in {"line_lost", "unknown"} THEN "line_lost"
    ELSE IF Run(m).intent \in motion.cool THEN "cooldown"
    ELSE "none"

\* schedule_after_turn: one task at a time; a later turn's motion is dropped meanwhile.
ScheduleAfterTurn ==
    \E mood \in Moods :
       LET intent == ResolveIntent(mood.state, mood.action) IN
       /\ Event
       /\ motion' = IF ShouldExecute(intent, motion.auto) /\ Run("auto").pc = "idle"
                    THEN [motion EXCEPT !.run["auto"] = [Idle EXCEPT !.pc = "asked", !.intent = intent]]
                    ELSE motion
       /\ UNCHANGED <<bridge, view, teleop, link, wire, up, robot, seen>>

\* execute_test ignores auto_enabled and a task in flight; only the lock orders them.
ExecuteTest ==
    \E intent \in Tests :
       /\ Run("test").pc = "idle" /\ Event
       /\ motion' = [motion EXCEPT !.run["test"] = [Idle EXCEPT !.pc = "asked", !.intent = intent]]
       /\ UNCHANGED <<bridge, view, teleop, link, wire, up, robot, seen>>

Configure ==
    /\ motion' = [motion EXCEPT !.auto = ~ @]
    /\ Event
    /\ UNCHANGED <<bridge, view, teleop, link, wire, up, robot, seen>>

End(m, why) ==
    [motion EXCEPT !.owner = "none", !.run[m] = [Idle EXCEPT !.why = why]]
Finish(m) ==                        \* completed, blocked by the line check, or reacquiring
    [End(m, "done") EXCEPT !.cool = IF Prof(m).cools THEN @ \cup {Run(m).intent} ELSE @]

\* Bug: only scheduled motions are kept apart.
LockAlwaysFree == TRUE
LockFree == motion.owner = "none"

\* The controller's lock is free: one synchronous preflight, then the command or the
\* first step.  With neither, the motion is over at once.
Begin(m) ==
    /\ Run(m).pc = "asked" /\ LockFree
    /\ IF Preflight(m) # "none"
       THEN motion' = End(m, "blocked") /\ UNCHANGED bridge
       ELSE IF Prof(m).command # "none"
       THEN /\ Enqueue(m, Prof(m).command)
            /\ motion' = [motion EXCEPT !.owner = m, !.run[m].pc = "command"]
       ELSE IF Prof(m).steps = <<>>
       THEN motion' = Finish(m) /\ UNCHANGED bridge
       ELSE /\ Enqueue(m, Head(Prof(m).steps))
            /\ motion' = [motion EXCEPT !.owner = m, !.run[m].pc = "drive", !.run[m].step = 1]
    /\ seen' = [seen EXCEPT !.drove[m] = FALSE]
    /\ UNCHANGED <<view, teleop, link, wire, up, robot, used>>

\* A write of the sequence raised: "execution_error", and no stop is sent.
Fail(m) ==
    /\ Run(m).pc \in {"command", "drive", "stop", "halt"} /\ Raised(m)
    /\ motion' = End(m, "error") /\ Resume(m, "none")
    /\ UNCHANGED <<teleop, link, wire, up, robot, used, seen>>

\* The pulse is written: the sequence sleeps for its duration and the settling time.
Driven(m) ==
    /\ Run(m).pc \in {"command", "drive"} /\ Settled(m) /\ ~ Raised(m)
    /\ Resume(m, "none")
    /\ motion' = IF Run(m).pc = "command" THEN Finish(m)
                 ELSE [motion EXCEPT !.run[m].pc = "sleep", !.run[m].asleep = TRUE]
    /\ UNCHANGED <<teleop, link, wire, up, robot, used, seen>>

\* Bug: a sequence that preflight halts is blocked without a stop.
StopAtTheEndOnly(m, pc) ==
    IF pc = "halt" THEN motion' = End(m, "blocked") /\ UNCHANGED bridge
    ELSE Enqueue(m, "motors off") /\ motion' = [motion EXCEPT !.run[m].pc = pc]
Stop(m, pc) == Enqueue(m, "motors off") /\ motion' = [motion EXCEPT !.run[m].pc = pc]

\* Awake: preflight and the next step, a stop where preflight blocks, or the final stop.
\* send_raw_command refuses a port that is gone, which ends the sequence as an error.
NextStep(m) ==
    /\ Run(m).pc = "sleep" /\ ~ Run(m).asleep
    /\ LET more == Run(m).step < Len(Prof(m).steps)
           halt == more /\ Preflight(m) # "none"
       IN IF ~ Connected
          THEN motion' = End(m, "error") /\ UNCHANGED bridge
          ELSE IF more /\ ~ halt
          THEN /\ Enqueue(m, Prof(m).steps[Run(m).step + 1])
               /\ motion' = [motion EXCEPT !.run[m].pc = "drive", !.run[m].step = @ + 1]
          ELSE Stop(m, IF halt THEN "halt" ELSE "stop")
    /\ UNCHANGED <<view, teleop, link, wire, up, robot, used, seen>>

LineVisible(v) == v.line = "track_follow"

\* After a stop: a halted sequence is blocked; a finished one is checked against the line
\* and may ask the robot to look for it, whose failure is suppressed.
AfterStop(m) ==
    LET search == Run(m).pc = "stop" /\ Prof(m).post = "reacquire" /\ ~ LineVisible(view)
    IN
    /\ Run(m).pc \in {"stop", "halt"} /\ Settled(m) /\ ~ Raised(m)
    /\ Resume(m, IF search THEN "reacquire start" ELSE "none")
    /\ motion' = IF search THEN [motion EXCEPT !.run[m].pc = "search"]
                 ELSE IF Run(m).pc = "halt" THEN End(m, "blocked") ELSE Finish(m)
    /\ UNCHANGED <<teleop, link, wire, up, robot, used, seen>>

AfterSearch(m) ==
    /\ Run(m).pc = "search" /\ Settled(m)
    /\ Resume(m, "none") /\ motion' = Finish(m)
    /\ UNCHANGED <<teleop, link, wire, up, robot, used, seen>>

-----------------------------------------------------------------------------
(* The command route, teleop, connect and disconnect                        *)

ApiCommand ==
    /\ bridge.wr["api"].at = "none" /\ Connected /\ Event
    /\ \E cmd \in ApiCommands : Enqueue("api", cmd)
    /\ UNCHANGED <<motion, view, teleop, link, wire, up, robot, seen>>
ApiDone ==
    /\ Resume("api", "none")
    /\ UNCHANGED <<motion, teleop, link, wire, up, robot, used, seen>>

TeleopOpen ==
    /\ teleop.pc = "closed" /\ Connected /\ Event
    /\ teleop' = [moving |-> FALSE, pc |-> "wait"]
    /\ UNCHANGED <<motion, bridge, view, link, wire, up, robot, seen>>

\* One message, or 250 ms without one while moving.  A port that is gone ends the handler.
TeleopSay(cmd) ==
    /\ teleop.pc = "wait"
    /\ IF Connected THEN Enqueue("teleop", cmd) ELSE UNCHANGED bridge
    /\ teleop' = [teleop EXCEPT !.pc = IF Connected THEN "busy" ELSE "closing"]
    /\ UNCHANGED <<motion, view, link, wire, up, robot, seen>>
TeleopIntent  == Event /\ \E cmd \in {"drive", "rest"} : TeleopSay(cmd)
TeleopKill    == Event /\ TeleopSay("motors off")
TeleopTimeout == teleop.moving /\ TeleopSay("motors off") /\ UNCHANGED used

TeleopDone ==
    /\ teleop.pc = "busy"
    /\ Resume("teleop", "none")
    /\ teleop' = IF Raised("teleop") THEN [teleop EXCEPT !.pc = "closing"]
                 ELSE [teleop EXCEPT !.pc = "wait", !.moving = (bridge.wr["teleop"].cmd = "drive")]
    /\ UNCHANGED <<motion, link, wire, up, robot, used, seen>>

TeleopLeave ==
    /\ teleop.pc = "wait"
    /\ teleop' = [teleop EXCEPT !.pc = "closing"]
    /\ UNCHANGED <<motion, bridge, view, link, wire, up, robot, used, seen>>

\* finally: a last stop, its failure suppressed.
TeleopClose ==
    /\ teleop.pc = "closing"
    /\ IF Connected THEN Enqueue("teleop", "motors off") /\ teleop' = [teleop EXCEPT !.pc = "last"]
       ELSE UNCHANGED bridge /\ teleop' = [moving |-> FALSE, pc |-> "closed"]
    /\ UNCHANGED <<motion, view, link, wire, up, robot, used, seen>>
TeleopEnd ==
    /\ teleop.pc = "last"
    /\ Resume("teleop", "none")
    /\ teleop' = [moving |-> FALSE, pc |-> "closed"]
    /\ UNCHANGED <<motion, link, wire, up, robot, used, seen>>

\* connect first drops the old port without a stop, opens the new one in a thread, starts
\* the reader and sends a stop whose failure is only recorded.
Connect ==
    /\ link = "idle" /\ Event
    /\ link' = "dropping"
    /\ bridge' = [bridge EXCEPT !.reading = FALSE]
    /\ UNCHANGED <<motion, view, teleop, wire, up, robot, seen>>
DropPort ==
    /\ link = "dropping" /\ link' = "opening"
    /\ bridge' = [bridge EXCEPT !.open = "no"] /\ up' = <<>>
    /\ UNCHANGED <<motion, view, teleop, wire, robot, used, seen>>
\* Bug: the new port is taken over without a stop.
OpenedSilently ==
    /\ link = "opening" /\ link' = "idle"
    /\ bridge' = IF bridge.plugged THEN [bridge EXCEPT !.open = "live", !.reading = TRUE] ELSE bridge
    /\ UNCHANGED <<motion, view, teleop, wire, up, robot, used, seen>>
Opened ==
    /\ link = "opening"
    /\ IF bridge.plugged
       THEN /\ link' = "stopping"
            /\ bridge' = [bridge EXCEPT !.open = "live", !.reading = TRUE,
                                        !.queue = Append(@, "link"),
                                        !.wr["link"] = [cmd |-> "motors off", at |-> "queued"]]
       ELSE link' = "idle" /\ UNCHANGED bridge
    /\ UNCHANGED <<motion, view, teleop, wire, up, robot, used, seen>>
ConnectStopped ==
    /\ link = "stopping"
    /\ Resume("link", "none") /\ link' = "idle"
    /\ UNCHANGED <<motion, teleop, wire, up, robot, used, seen>>

\* disconnect: the stop, then the reader, then the port.
Disconnect ==
    /\ link = "idle" /\ Connected /\ Event
    /\ Enqueue("link", "motors off") /\ link' = "leaving"
    /\ UNCHANGED <<motion, view, teleop, wire, up, robot, seen>>
StopReader ==
    /\ link = "leaving" /\ Settled("link") /\ link' = "closing"
    /\ view' = Acked("link")
    /\ bridge' = [Release(bridge, "link") EXCEPT !.reading = FALSE]
    /\ UNCHANGED <<motion, teleop, wire, up, robot, used, seen>>
ClosePort ==
    /\ link = "closing" /\ link' = "idle"
    /\ bridge' = [bridge EXCEPT !.open = "no"] /\ up' = <<>>
    /\ UNCHANGED <<motion, view, teleop, wire, robot, used, seen>>

-----------------------------------------------------------------------------
(* The reader and the robot                                                 *)

\* What the robot prints: an ack, the periodic obstacle and line lines, or its status.
MergeLine(v, r) == [v EXCEPT !.obst = r.obst, !.line = r.line, !.lineOn = r.lineOn]
Merge(v, r) ==
    CASE r.kind = "ack"    -> AckEffect(v, r.of)
      [] r.kind = "sensed" -> MergeLine(v, r)
      [] OTHER             -> [MergeLine(v, r) EXCEPT !.armed = r.armed, !.avoid = r.avoid]
Ingest ==
    /\ bridge.reading /\ up # <<>>
    /\ view' = Merge(view, Head(up)) /\ up' = Tail(up)
    /\ UNCHANGED <<motion, bridge, teleop, link, wire, robot, used, seen>>

\* readline raises on a device that is gone: the reader ends, the port still counts as open.
ReadError ==
    /\ bridge.reading /\ bridge.open = "dead"
    /\ bridge' = [bridge EXCEPT !.reading = FALSE]
    /\ UNCHANGED <<motion, view, teleop, link, wire, up, robot, used, seen>>

Says(b) == IF b THEN "yes" ELSE "no"
Sensed == [kind |-> "sensed", obst |-> robot.obst, line |-> robot.line, lineOn |-> Says(robot.lineOn)]
Status == [kind |-> "status", armed |-> Says(robot.armed), avoid |-> Says(robot.avoid),
           lineOn |-> Says(robot.lineOn), obst |-> robot.obst, line |-> robot.line]

\* Chassis::applyDrive: an armed robot moves unless the line or the obstacle gate stops it.
Gated(r, search) ==
    \/ r.lineOn /\ r.line = "line_lost" /\ ~ search
    \/ r.avoid /\ r.obst = "obstacle_stop"
Obey(r, cmd) ==
    CASE cmd = "arm"                      -> [r EXCEPT !.armed = TRUE, !.pulse = FALSE]
      [] cmd \in {"motors off", "disarm"} -> [r EXCEPT !.armed = FALSE, !.pulse = FALSE]
      [] cmd = "avoidance on"             -> [r EXCEPT !.avoid = TRUE]
      [] cmd = "avoidance off"            -> [r EXCEPT !.avoid = FALSE]
      [] cmd = "line on"                  -> [r EXCEPT !.lineOn = TRUE]
      [] cmd = "line off"                 -> [r EXCEPT !.lineOn = FALSE]
      [] cmd = "rest"                     -> [r EXCEPT !.pulse = FALSE]
      [] cmd = "motor" /\ r.armed          -> [r EXCEPT !.pulse = TRUE]      \* past both gates
      [] cmd \in {"drive", "expressive"} /\ r.armed ->
             [r EXCEPT !.pulse = ~ Gated(r, cmd = "expressive")]
      [] OTHER                            -> r

RobotReads ==
    /\ wire # <<>> /\ wire' = Tail(wire)
    /\ robot' = Obey(robot, Head(wire))
    /\ up' = IF Head(wire) \in Discrete /\ bridge.open = "live"
             THEN Append(up, [kind |-> "ack", of |-> Head(wire)]) ELSE up
    /\ UNCHANGED <<motion, bridge, view, teleop, link, used, seen>>

\* The periodic lines say nothing of the arming; only the "status" command asks for it.
RobotReports ==
    /\ bridge.open = "live" /\ Len(up) < 1 /\ Event
    /\ \E r \in {Sensed, Status} : up' = Append(up, r)
    /\ UNCHANGED <<motion, bridge, view, teleop, link, wire, robot, seen>>

\* Time passes: a pulse ends, a sequence wakes, a cooldown is over.
PulseEnds ==
    /\ robot.pulse /\ robot' = [robot EXCEPT !.pulse = FALSE]
    /\ UNCHANGED <<motion, bridge, view, teleop, link, wire, up, used, seen>>
Wake(m) ==
    /\ Run(m).asleep /\ motion' = [motion EXCEPT !.run[m].asleep = FALSE]
    /\ UNCHANGED <<bridge, view, teleop, link, wire, up, robot, used, seen>>
CooldownEnds ==
    /\ \E i \in motion.cool : motion' = [motion EXCEPT !.cool = @ \ {i}]
    /\ UNCHANGED <<bridge, view, teleop, link, wire, up, robot, used, seen>>

\* 60 s after the arm command the robot disarms itself and prints nothing.
ArmTimeout ==
    /\ robot.armed
    /\ robot' = [robot EXCEPT !.armed = FALSE, !.pulse = FALSE]
    /\ UNCHANGED <<motion, bridge, view, teleop, link, wire, up, used, seen>>

Surroundings ==
    /\ Event
    /\ \E o \in Sights, l \in Lines :
          <<o, l>> # <<robot.obst, robot.line>> /\ robot' = [robot EXCEPT !.obst = o, !.line = l]
    /\ UNCHANGED <<motion, bridge, view, teleop, link, wire, up, seen>>

\* The cable comes out: what was on it is gone.  Back in, the robot is where it was.
Unplug ==
    /\ bridge.plugged /\ Event
    /\ bridge' = [bridge EXCEPT !.plugged = FALSE, !.open = IF @ = "live" THEN "dead" ELSE @]
    /\ wire' = <<>> /\ up' = <<>>
    /\ UNCHANGED <<motion, view, teleop, link, robot, seen>>
Plug ==
    /\ ~ bridge.plugged
    /\ bridge' = [bridge EXCEPT !.plugged = TRUE]
    /\ UNCHANGED <<motion, view, teleop, link, wire, up, robot, used, seen>>

\* A brown-out restarts the firmware, which prints its status once.
Reboot ==
    /\ Event
    /\ robot' = [PowerOn EXCEPT !.obst = robot.obst, !.line = robot.line]
    /\ wire' = <<>>
    /\ up' = IF bridge.open = "live"
             THEN <<[kind |-> "status", armed |-> "no", avoid |-> "yes", lineOn |-> "yes",
                     obst |-> robot.obst, line |-> robot.line]>>
             ELSE <<>>
    /\ UNCHANGED <<motion, bridge, view, teleop, link, seen>>

-----------------------------------------------------------------------------
\* What a coroutine does once it is ready, against what the outside may do at any time.
MotionStep(m) ==
    Begin(m) \/ Fail(m) \/ Driven(m) \/ NextStep(m) \/ AfterStop(m) \/ AfterSearch(m) \/ Wake(m)
LinkStep == DropPort \/ Opened \/ ConnectStopped \/ StopReader \/ ClosePort
TeleopStep == TeleopDone \/ TeleopClose \/ TeleopEnd
Outside ==
    \/ ScheduleAfterTurn \/ ExecuteTest \/ Configure \/ ApiCommand \/ Connect \/ Disconnect
    \/ TeleopOpen \/ TeleopIntent \/ TeleopKill \/ TeleopTimeout \/ TeleopLeave
    \/ Ingest \/ ReadError \/ RobotReports \/ PulseEnds \/ CooldownEnds \/ ArmTimeout
    \/ Surroundings \/ Unplug \/ Plug \/ Reboot

Next ==
    \/ \E m \in Movers : MotionStep(m)
    \/ \E w \in Writers : Write(w)
    \/ ApiDone \/ TeleopStep \/ LinkStep \/ RobotReads
    \/ Outside

\* The event loop and its worker threads keep running what is ready, and the robot reads.
Fairness ==
    /\ \A m \in Movers : WF_vars(MotionStep(m))
    /\ WF_vars(\E w \in Writers : Write(w))
    /\ WF_vars(ApiDone) /\ WF_vars(TeleopStep) /\ WF_vars(LinkStep) /\ WF_vars(RobotReads)

Spec == Init /\ [][Next]_vars /\ Fairness

-----------------------------------------------------------------------------
(* Properties                                                               *)

\* The fields hold what the code stores; a coroutine is in the write lock's queue exactly
\* while it has a write under way.
BodyTypeOK ==
    /\ motion.owner \in Movers \cup {"none"} /\ motion.cool \subseteq Intents
    /\ \A m \in Movers : Run(m).intent \in Intents /\ Run(m).step \in 0 .. 3
    /\ \A w \in Writers : (bridge.wr[w].at # "none") = (\E i \in DOMAIN bridge.queue : bridge.queue[i] = w)
    /\ Cardinality({bridge.queue[i] : i \in DOMAIN bridge.queue}) = Len(bridge.queue)
    /\ Len(wire) <= WireMax

\* The store takes a command for done as soon as it is written, and the robot's own acks
\* arrive later and out of step with it.  Once everything written has been read and
\* everything printed has been ingested, a body the store calls disarmed is disarmed.
Quiet == wire = <<>> /\ up = <<>> /\ bridge.queue = <<>>
DisarmedViewIsTrue ==
    (Quiet /\ bridge.open = "live" /\ view.armed = "no") => ~ robot.armed

\* A motion that ends otherwise than in an error has written a stop after its last pulse,
\* whichever preflight, line check or other client of the port cut it short.
StoppedAfterSequence ==
    \A m \in Movers : Run(m).why \in {"done", "blocked"} => ~ seen.drove[m]

\* Two callers may ask for the same intent at once, and only one of them looks at a task in
\* flight: a motion starts only when no other is between its first pulse and its record, and
\* so never while the record that would hold it back is still to be written.
OneMotionAtATime ==
    [][\A m \in Movers :
          (Run(m).pc = "asked" /\ motion'.run[m].pc \in {"drive", "command"})
             => /\ Run(m).intent \notin motion.cool
                /\ \A o \in Movers \ {m} : Run(o).pc \in {"idle", "asked"}]_vars

\* A motion asked for ends, though the port dies, is closed or is taken over half way and
\* the other writers hold the lock in between.
MotionEnds == \A m \in Movers : (Run(m).pc = "asked") ~> (Run(m).pc = "idle")
=============================================================================
