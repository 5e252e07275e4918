--------------------------- MODULE SessionHandoff ---------------------------
(***************************************************************************)
(* The API runtime around the gating controller                            *)
(* (src/conscious_entity/interfaces/api_runtime.py and api_routes.py): the *)
(* current session and visitor, the dialogue loop bound to them, the       *)
(* temporary session that takes the turns while the visitor is missing,    *)
(* and the vision dispatcher that hands the installation over to the next  *)
(* person when the visitor has left.                                       *)
(*                                                                         *)
(* Everything runs on one event loop.  app.state.loop_lock, an             *)
(* asyncio.Lock and so first in first out, serialises what touches the     *)
(* session; the controller is called without it.  A section under the lock *)
(* without an await is one step.  Two sections await with the lock held: a *)
(* turn (face capture, then InteractionLoop.run_turn, in an executor) and  *)
(* the handling of a vision event.                                         *)
(*                                                                         *)
(* A task that waits for the lock is an entry of `queue' that carries the  *)
(* local variables it read before it began to wait.                        *)
(***************************************************************************)
EXTENDS VisitorGating, Sequences

CONSTANTS
  Requests,     \* which requests clients send, a subset of RequestKinds
  LlmMayFail,   \* whether the LLM client may turn out to be misconfigured
  MaxQueue      \* BOUND: requests are sent while fewer tasks wait

RequestKinds == {"turn", "select", "create", "reset", "reload", "match", "confirm", "config"}

ASSUME RequestsAssumption == /\ Requests \subseteq RequestKinds
                             /\ LlmMayFail \in BOOLEAN
                             /\ MaxQueue \in Nat

VARIABLES
  app,        \* app.state: session_id, visitor_id, loop, unscoped_grace_loop
  rows,       \* the sessions table
  profiles,   \* the visitor_profiles table
  lock,       \* the task that holds loop_lock
  queue,      \* the tasks that wait for it
  turn,       \* the turn that holds the lock
  capturing,  \* a background face capture is in flight
  absentee    \* history: the visitor whose present absence app.grace serves

appVars  == << app, rows, profiles, absentee >>
lockVars == << lock, queue >>
vars     == << gate, config, app, rows, profiles, lock, queue, turn, capturing, absentee >>

-----------------------------------------------------------------------------
(* State. *)

\* Session ids.  A session that nothing refers to any more never comes back, so
\* its number is given to a later session.
Sessions == 0 .. MaxSession
Persons  == Visitors \union {None}

\* An InteractionLoop: the session it logs to and the visitor whose memory it
\* reads and writes.
Loops  == [session: Sessions \union {NoSession}, scope: Persons]
NoLoop == [session |-> NoSession, scope |-> None]

Tasks   == {"turn", "events", "handoff", "archive", "capture",
            "select", "create", "reset", "reload", "bind"}
Entries == [task: Tasks, session: Sessions \union {NoSession}, who: Persons]
Entry(task, s, v) == [task |-> task, session |-> s, who |-> v]
Free    == [task |-> "free", session |-> NoSession, who |-> None]

NoTurn == [pc |-> "idle", loop |-> NoLoop, grace |-> FALSE]

Entered == {queue[i] : i \in DOMAIN queue} \union {lock}

\* The lock is not held by a section that runs on without an await.
Yielded == \/ lock = Free
           \/ lock.task = "events"
           \/ lock.task = "turn" /\ turn.pc # "idle"

\* `async with loop_lock': at once when nobody holds it or waits for it.
Enter(e) ==
  IF lock = Free /\ queue = << >>
  THEN lock' = e /\ UNCHANGED queue
  ELSE queue' = Append(queue, e) /\ UNCHANGED lock

\* Task e has the lock and runs its section.
Runs(e) == IF lock = Free THEN queue # << >> /\ Head(queue) = e
                          ELSE lock = e /\ ~Yielded

Waiting == IF lock = Free THEN Tail(queue) ELSE queue
Leave   == lock' = Free /\ queue' = Waiting
Keep(e) == lock' = e    /\ queue' = Waiting

\* The dispatcher is between two events or polls.
Polling == \A e \in Entered : e.task \notin {"events", "handoff", "archive"}

\* The number of a session that is inserted.
Unused == {s \in Sessions :
             /\ s \notin {app.session, app.loop.session, app.grace.session,
                          gate.session, gate.releasedTo, turn.loop.session}
             /\ \A e \in Entered : s # e.session}
NewSession(s) == s \in Unused /\ \A u \in Unused : s <= u

\* InteractionLoop(conn, session_id, ..., visitor_id): no visitor_id means the
\* visitor of the session's row.
LoopOf(s, v, table) == [session |-> s, scope |-> IF v = None THEN table[s].visitor ELSE v]

-----------------------------------------------------------------------------
(* Changes of the current visitor and session. *)

\* _rebuild_loop, after the session, the visitor and the table have changed.
Current(s, v, table) ==
  /\ rows' = table
  /\ app'  = [app EXCEPT !.session = s, !.visitor = v, !.loop = LoopOf(s, v, table)]

\* Bug: the parameters of the UPDATE are swapped.
BindSwapped(v) ==
  Current(app.session, v, [rows EXCEPT ![app.session].visitor = app.session])

\* Bug: the session's row is not updated.
BindKeepsRow(v) == Current(app.session, v, rows)

\* UPDATE sessions SET visitor_id = v for the current session; rebuild.
BindSession(v) ==
  Current(app.session, v, [rows EXCEPT ![app.session].visitor = v])

\* _update_visitor_identity_metadata: a visitor named for the first time gets a
\* profile, whatever the id.
Records(v) == profiles' = profiles \union ({v} \ {None})

\* A confirmation is about the visitor bound now, or else about the candidate.
RecordsNamed == Records(IF gate'.primary # None THEN gate'.primary ELSE gate.candidate)

\* _identity_capture_routing_allowed
CaptureRouted ==
  /\ app.visitor = None /\ rows[app.session].visitor = None
  /\ gate.primary = None /\ gate.candidate = None /\ ~gate.waiting
  /\ \/ gate.intent = "confirmed_by_input"
     \/ gate.runtime \in {"in_dialogue", "identity_confirming"}

\* _face_auto_capture_allowed
AutoCaptureAllowed ==
  /\ gate.primary = None /\ gate.candidate = None /\ ~gate.waiting
  /\ \/ gate.intent = "confirmed_by_input"
     \/ gate.runtime \in {"in_dialogue", "identity_confirming"}

\* _provision_new_face_visitor_locked: an unknown face becomes a visitor.
Provision ==
  \E v \in Visitors \ profiles :
    /\ profiles' = profiles \union {v}
    /\ BindSession(v)
    /\ gate' = SetPrimaryVisitor(gate, v)
    /\ UNCHANGED config

\* Its face cannot be enrolled: the profile stays, bound to nothing.
ProvisionFails ==
  /\ \E v \in Visitors \ profiles : profiles' = profiles \union {v}
  /\ UNCHANGED << gate, config, app, rows >>

\* A known face is asked about.
AskKnownFace ==
  /\ \E v \in profiles, l \in {"medium", "high"} :
       ApplyIdentityMatch([who |-> v, level |-> l, ask |-> TRUE])
  /\ UNCHANGED << app, rows, profiles >>

\* _apply_face_capture_identity_locked: a rejected or ambiguous capture, or one
\* that is no longer wanted, changes nothing.
ApplyFaceCapture ==
  /\ \/ CaptureRouted /\ (Provision \/ ProvisionFails \/ AskKnownFace)
     \/ UNCHANGED << gate, config, app, rows, profiles >>
  /\ UNCHANGED absentee

-----------------------------------------------------------------------------
(* A dialogue turn: _run_dialog_turn and _run_dialog_turn_progressive.      *)

TurnEntry == Entry("turn", NoSession, None)
Answers   == {"accepted", "rejected", "unclear"}

TurnArrives ==
  /\ Yielded /\ "turn" \in Requests /\ Len(queue) < MaxQueue
  /\ Enter(TurnEntry)
  /\ UNCHANGED << gate, config, appVars, turn, capturing >>

\* _apply_natural_identity_confirmation_locked, then before_turn.
Offered            == ExpireCandidate(gate).waiting
Confirms(answer)   == Offered /\ answer = "accepted"
EnterWith(answer, interruption) ==
  LET e == ExpireCandidate(gate) IN
  BeforeTurn(IF Offered /\ answer # "unclear"
             THEN ConfirmCandidate(e, answer = "accepted") ELSE e, interruption)

\* What the answer says is written into the profile of whom it is about.
RecordsAnswer(answer) ==
  IF Offered /\ answer # "unclear" THEN RecordsNamed ELSE UNCHANGED profiles

RunOn(loop, grace) == turn' = [pc |-> "run", loop |-> loop, grace |-> grace]

\* _run_pre_turn_face_identity_capture_locked, if it is wanted and a camera
\* frame is there; the lock is held meanwhile.
Proceed ==
  \/ CaptureRouted' /\ turn' = [NoTurn EXCEPT !.pc = "capture"]
  \/ RunOn(app'.loop, FALSE)

\* Bug: the lock is given back before the executor has finished.
TurnContinuesUnlocked(answer, interruption) ==
  /\ Runs(TurnEntry) /\ ~Confirms(answer)
  /\ gate' = EnterWith(answer, interruption) /\ ~InGrace(gate')
  /\ RecordsAnswer(answer)
  /\ UNCHANGED << config, app, rows, capturing, absentee >>
  /\ Proceed
  /\ Leave

TurnContinues(answer, interruption) ==
  /\ Runs(TurnEntry) /\ ~Confirms(answer)
  /\ gate' = EnterWith(answer, interruption) /\ ~InGrace(gate')
  /\ RecordsAnswer(answer)
  /\ UNCHANGED << config, app, rows, capturing, absentee >>
  /\ Proceed
  /\ Keep(TurnEntry)

TurnBinds(interruption) ==
  /\ Runs(TurnEntry) /\ Confirms("accepted")
  /\ gate' = EnterWith("accepted", interruption)
  /\ BindSession(gate'.primary)
  /\ RecordsNamed
  /\ Proceed
  /\ Keep(TurnEntry)
  /\ UNCHANGED << config, capturing, absentee >>

\* The LLM client fails between the confirmation and the rebuild: the error is
\* logged, before_turn is left out and the turn goes on.
TurnBindFails ==
  /\ LlmMayFail
  /\ Runs(TurnEntry) /\ Confirms("accepted")
  /\ gate' = ConfirmCandidate(ExpireCandidate(gate), TRUE)
  /\ UNCHANGED << app, rows >>
  /\ RecordsNamed
  /\ Proceed
  /\ Keep(TurnEntry)
  /\ UNCHANGED << config, capturing, absentee >>

\* The primary visitor is missing: the temporary session takes the turn.
\* _ensure_unscoped_grace_loop_locked
TurnInGrace(answer, interruption) ==
  /\ Runs(TurnEntry) /\ ~Confirms(answer)
  /\ gate' = EnterWith(answer, interruption) /\ InGrace(gate')
  /\ \/ /\ app.grace # NoLoop
        /\ RunOn(app.grace, TRUE)
        /\ UNCHANGED << app, rows, absentee >>
     \/ /\ app.grace = NoLoop
        /\ \E s \in Sessions :
             /\ NewSession(s)
             /\ rows' = [rows EXCEPT ![s] = [visitor |-> None, open |-> TRUE]]
             /\ app'  = [app EXCEPT !.grace = [session |-> s, scope |-> None]]
        /\ absentee' = gate.primary
        /\ RunOn(app'.grace, TRUE)
  /\ RecordsAnswer(answer)
  /\ Keep(TurnEntry)
  /\ UNCHANGED << config, capturing >>

\* The temporary session is inserted before the LLM client turns out to fail.
TurnInGraceFails(answer, interruption) ==
  /\ LlmMayFail
  /\ Runs(TurnEntry) /\ ~Confirms(answer)
  /\ gate' = EnterWith(answer, interruption) /\ InGrace(gate')
  /\ app.grace = NoLoop
  /\ \E s \in Sessions :
       /\ NewSession(s)
       /\ rows' = [rows EXCEPT ![s] = [visitor |-> None, open |-> TRUE]]
  /\ RecordsAnswer(answer)
  /\ Leave
  /\ UNCHANGED << config, app, turn, capturing, absentee >>

TurnCaptured ==
  /\ lock.task = "turn" /\ turn.pc = "capture"
  /\ ApplyFaceCapture
  /\ RunOn(app'.loop, FALSE)
  /\ UNCHANGED << lockVars, capturing >>

\* run_turn returns; a background capture may follow.
TurnDone ==
  /\ lock.task = "turn" /\ turn.pc = "run"
  /\ turn' = NoTurn
  /\ \/ capturing' = capturing
     \/ ~turn.grace /\ AutoCaptureAllowed /\ capturing' = TRUE
  /\ Leave
  /\ UNCHANGED << gate, config, appVars >>

-----------------------------------------------------------------------------
(* The background face capture: _run_background_face_capture.              *)

CaptureEntry == Entry("capture", NoSession, None)

CaptureMatched ==
  /\ Yielded
  /\ capturing /\ CaptureEntry \notin Entered
  /\ Enter(CaptureEntry)
  /\ UNCHANGED << gate, config, appVars, turn, capturing >>

CaptureApplies ==
  /\ Runs(CaptureEntry)
  /\ ApplyFaceCapture
  /\ capturing' = FALSE
  /\ Leave
  /\ UNCHANGED turn

-----------------------------------------------------------------------------
(* The vision event dispatcher: _vision_event_dispatcher.                  *)

\* The controller is told at once, the dialogue loop of this moment under the
\* lock.
EventEntry == Entry("events", app.loop.session, app.loop.scope)

EventArrives(e) ==
  /\ Yielded /\ Polling
  /\ SystemEvent(e)
  /\ Enter(EventEntry)
  /\ UNCHANGED << appVars, turn, capturing >>

EventStarts ==
  /\ lock = Free /\ queue # << >> /\ Head(queue).task = "events"
  /\ Keep(Head(queue))
  /\ UNCHANGED << gate, config, appVars, turn, capturing >>

\* Bug: the handler asks for the lock that its caller holds.
EventRelocks ==
  /\ lock.task = "events"
  /\ \A i \in DOMAIN queue : queue[i].task # "events"
  /\ Enter(lock)
  /\ UNCHANGED << gate, config, appVars, turn, capturing >>

EventDone ==
  /\ lock.task = "events"
  /\ Leave
  /\ UNCHANGED << gate, config, appVars, turn, capturing >>

ArchiveEntry == Entry("archive", NoSession, None)

\* update_primary_presence, then what follows from it.
Poll(r) ==
  /\ Yielded /\ Polling
  /\ UpdatePrimaryPresence(r)
  /\ LET released == gate.primary # None /\ gate'.primary = None
         present  == gate'.presence = "present"
     IN  \/ released /\ Enter(Entry("handoff", NoSession, gate.primary))
         \/ ~released /\ present /\ Enter(ArchiveEntry)
         \/ ~released /\ ~present /\ UNCHANGED lockVars
  /\ absentee' = IF gate'.presence = "present" THEN None ELSE absentee
  /\ UNCHANGED << app, rows, profiles, turn, capturing >>

\* Bug: a return does not end the temporary session.
ArchiveNothing ==
  /\ Runs(ArchiveEntry)
  /\ Leave
  /\ UNCHANGED << gate, config, appVars, turn, capturing >>

\* _archive_unscoped_grace_session_if_needed
Archive ==
  /\ Runs(ArchiveEntry)
  /\ IF app.grace # NoLoop /\ app.grace.session # app.session
     THEN /\ rows' = [rows EXCEPT ![app.grace.session].open = FALSE]
          /\ app'  = [app EXCEPT !.grace = NoLoop]
     ELSE UNCHANGED << app, rows >>
  /\ Leave
  /\ UNCHANGED << gate, config, profiles, turn, capturing, absentee >>

\* Bug: the visitor of the predecessor is kept.
HandOverKeepsVisitor(s) ==
  /\ rows' = [rows EXCEPT ![app.session].open = FALSE,
                          ![s] = [visitor |-> None, open |-> TRUE]]
  /\ app'  = [app EXCEPT !.session = s, !.grace = NoLoop,
                         !.loop = [session |-> s, scope |-> None]]
  /\ gate' = RecordReleaseSession(ConfigureSession(gate, s, None, "visitor_cleared"), s)

\* Bug: the session of the predecessor is not ended.
HandOverLeavesOpen(s) ==
  /\ rows' = [rows EXCEPT ![s] = [visitor |-> None, open |-> TRUE]]
  /\ app'  = [session |-> s, visitor |-> None, grace |-> NoLoop,
              loop |-> [session |-> s, scope |-> None]]
  /\ gate' = RecordReleaseSession(ConfigureSession(gate, s, None, "visitor_cleared"), s)

\* _start_unidentified_session_after_primary_leave, the change itself: session
\* s, new or promoted, belongs to nobody; its predecessor ends.
HandOver(s) ==
  /\ rows' = [rows EXCEPT ![app.session].open = FALSE,
                          ![s] = [visitor |-> None, open |-> TRUE]]
  /\ app'  = [session |-> s, visitor |-> None, grace |-> NoLoop,
              loop |-> [session |-> s, scope |-> None]]
  /\ gate' = RecordReleaseSession(ConfigureSession(gate, s, None, "visitor_cleared"), s)

Handoff(v) ==
  /\ Runs(Entry("handoff", NoSession, v))
  /\ app.visitor = v
  /\ \/ app.grace # NoLoop /\ HandOver(app.grace.session)
     \/ app.grace = NoLoop /\ \E s \in Sessions : NewSession(s) /\ HandOver(s)
  /\ Leave
  /\ UNCHANGED << config, profiles, turn, capturing, absentee >>

\* The current visitor has changed meanwhile, or the LLM client fails.
HandoffLeftOut(v) ==
  /\ Runs(Entry("handoff", NoSession, v))
  /\ \/ app.visitor # v
     \/ LlmMayFail /\ app.grace = NoLoop
  /\ Leave
  /\ UNCHANGED << gate, config, appVars, turn, capturing >>

-----------------------------------------------------------------------------
(* Developer requests.                                                      *)

RequestArrives(kind, e) ==
  /\ Yielded /\ kind \in Requests /\ Len(queue) < MaxQueue
  /\ Enter(e)
  /\ UNCHANGED << gate, config, appVars, turn, capturing >>

\* visitor_current_update: the developer names the current visitor, or none.
SelectArrives ==
  \E v \in profiles \union {None} : RequestArrives("select", Entry("select", NoSession, v))

Select(v) ==
  /\ Runs(Entry("select", NoSession, v))
  /\ \/ BindSession(v) /\ gate' = SetPrimaryVisitor(gate, v)
     \/ LlmMayFail /\ UNCHANGED << gate, app, rows >>
  /\ Leave
  /\ UNCHANGED << config, profiles, turn, capturing, absentee >>

\* visitor_create: the visitor is set before the LLM client may fail.
CreateArrives ==
  \E v \in Visitors : RequestArrives("create", Entry("create", NoSession, v))

Create(v) ==
  /\ Runs(Entry("create", NoSession, v))
  /\ gate' = SetPrimaryVisitor(gate, v)
  /\ profiles' = profiles \union {v}
  /\ \/ BindSession(v)
     \/ /\ LlmMayFail
        /\ rows' = [rows EXCEPT ![app.session].visitor = v]
        /\ app'  = [app EXCEPT !.visitor = v]
  /\ Leave
  /\ UNCHANGED << config, turn, capturing, absentee >>

\* sessions_reset reads the session and the visitor before it has the lock.
ResetArrives == RequestArrives("reset", Entry("reset", app.session, app.visitor))

Reset(old, v) ==
  /\ Runs(Entry("reset", old, v))
  /\ \/ \E s \in Sessions :
          /\ NewSession(s)
          /\ Current(s, app.visitor,
                     [rows EXCEPT ![old].open = FALSE,
                                  ![s] = [visitor |-> v, open |-> TRUE]])
          /\ gate' = ConfigureSession(gate, s, v, "session_reset")
     \/ LlmMayFail /\ UNCHANGED << gate, app, rows >>
  /\ Leave
  /\ UNCHANGED << config, profiles, turn, capturing, absentee >>

\* config_reload reads the session before it has the lock, and writes it back.
ReloadArrives == RequestArrives("reload", Entry("reload", app.session, None))

Reload(s) ==
  /\ Runs(Entry("reload", s, None))
  /\ \/ Current(s, app.visitor, rows)
     \/ LlmMayFail /\ UNCHANGED << app, rows >>
  /\ Leave
  /\ UNCHANGED << gate, config, profiles, turn, capturing, absentee >>

\* identity_match and identity_confirm call the controller without the lock,
\* then bind the current session under it.
BindIfBound ==
  IF gate'.decision = "visitor_bound"
  THEN Enter(Entry("bind", NoSession, gate'.primary))
  ELSE UNCHANGED lockVars

MatchRequest(m) ==
  /\ Yielded /\ "match" \in Requests /\ Len(queue) < MaxQueue
  /\ ApplyIdentityMatch(m)
  /\ IF m.level = "high" THEN Records(m.who) ELSE UNCHANGED profiles
  /\ BindIfBound
  /\ UNCHANGED << app, rows, absentee, turn, capturing >>

ConfirmRequest(accepted) ==
  /\ Yielded /\ "confirm" \in Requests /\ Len(queue) < MaxQueue
  /\ Confirm(accepted)
  /\ RecordsNamed
  /\ BindIfBound
  /\ UNCHANGED << app, rows, absentee, turn, capturing >>

\* _bind_current_visitor_from_identity
BindFromIdentity(v) ==
  /\ Runs(Entry("bind", NoSession, v))
  /\ \/ BindSession(v)
     \/ LlmMayFail /\ UNCHANGED << app, rows >>
  /\ Leave
  /\ UNCHANGED << gate, config, profiles, turn, capturing, absentee >>

ConfigRequest(autoBind, handoff, grace) ==
  /\ Yielded /\ "config" \in Requests
  /\ ConfigureIdentity(autoBind, handoff, grace)
  /\ UNCHANGED << appVars, lockVars, turn, capturing >>

TimePasses ==
  /\ Yielded
  /\ Tick
  /\ UNCHANGED << appVars, lockVars, turn, capturing >>

-----------------------------------------------------------------------------
(* Specification. *)

\* lifespan: the controller starts with the visitor of the session's row.
HandoffInit ==
  /\ Init
  /\ profiles \in SUBSET Visitors
  /\ gate.primary \in profiles \union {None}
  /\ rows = [s \in Sessions |->
               IF s = 0 THEN [visitor |-> gate.primary, open |-> TRUE]
                        ELSE [visitor |-> None, open |-> FALSE]]
  /\ app = [session |-> 0, visitor |-> gate.primary, grace |-> NoLoop,
            loop |-> [session |-> 0, scope |-> gate.primary]]
  /\ lock = Free /\ queue = << >>
  /\ turn = NoTurn
  /\ capturing = FALSE
  /\ absentee = None

\* What the runtime does by itself once it has begun.
Serve ==
  \/ \E a \in Answers, i \in BOOLEAN :
        TurnContinues(a, i) \/ TurnInGrace(a, i) \/ TurnInGraceFails(a, i)
  \/ \E i \in BOOLEAN : TurnBinds(i)
  \/ TurnBindFails
  \/ TurnCaptured
  \/ TurnDone
  \/ CaptureMatched
  \/ CaptureApplies
  \/ EventStarts
  \/ EventDone
  \/ Archive
  \/ \E v \in Visitors : Handoff(v) \/ HandoffLeftOut(v) \/ BindFromIdentity(v) \/ Create(v)
  \/ \E v \in Persons : Select(v)
  \/ \E s \in Sessions, v \in Persons : Reset(s, v)
  \/ \E s \in Sessions : Reload(s)

\* What comes from outside: people, developers, the camera and the clock.
Happens ==
  \/ TurnArrives
  \/ SelectArrives \/ CreateArrives \/ ResetArrives \/ ReloadArrives
  \/ \E m \in Matches : MatchRequest(m)
  \/ \E a \in BOOLEAN : ConfirmRequest(a)
  \/ \E a, h \in BOOLEAN, d \in Graces : ConfigRequest(a, h, d)
  \/ \E e \in SystemEvents : EventArrives(e)
  \/ \E r \in Reports : Poll(r)
  \/ TimePasses

HandoffNext == Serve \/ Happens

HandoffSpec     == HandoffInit /\ [][HandoffNext]_vars
FairHandoffSpec == HandoffSpec /\ WF_vars(Serve)

-----------------------------------------------------------------------------
(* Properties. *)

HandoffTypes ==
  /\ TypeOK
  /\ app \in [session: Sessions, visitor: Persons, loop: Loops, grace: Loops]
  /\ rows \in [Sessions -> [visitor: Persons, open: BOOLEAN]]
  /\ profiles \subseteq Visitors
  /\ lock \in Entries \union {Free}
  /\ queue \in Seq(Entries)
  /\ turn \in [pc: {"idle", "capture", "run"}, loop: Loops, grace: BOOLEAN]
  /\ capturing \in BOOLEAN
  /\ absentee \in Persons

\* Every variable stays in its type; sessions never run out of numbers.
HandoffTypeOK == HandoffTypes /\ Unused # {}

\* The loop that runs a turn is not closed under it: until the turn ends it is
\* the current loop or the temporary one, whatever is asked for meanwhile.
RunningLoopIsCurrent == turn.pc = "run" => turn.loop \in {app.loop, app.grace}

\* Nobody holds the lock or waits for it.
Settled == lock = Free /\ queue = << >>

\* Once everything asked for is done, the runtime, the controller, the dialogue
\* loop and the database name the same session and the same visitor.
SettledAgreement ==
  Settled =>
    /\ gate.session = app.session
    /\ app.loop.session = app.session
    /\ gate.primary = app.visitor
    /\ app.loop.scope = app.visitor
    /\ rows[app.session].visitor = app.visitor

\* Only the current session and the temporary one are open.
OnlyLiveSessionsOpen ==
  \A s \in Sessions : rows[s].open <=> s \in {app.session, app.grace.session} \ {NoSession}

\* The turns that a released visitor's successor inherits were spoken in the
\* absence that ended with the release, not in an earlier one or in the absence
\* of somebody else.
PromotesThisAbsence ==
  [][ (app.grace # NoLoop /\ app'.session = app.grace.session) =>
        absentee # None /\ absentee = gate.released ]_vars

\* A visitor the controller has released does not stay the runtime's visitor.
ReleaseReachesRuntime ==
  \A v \in Visitors :
    (app.visitor = v /\ gate.primary = None)
      ~> (app.visitor # v \/ gate.primary # None)

\* Every turn that waits for the lock is run.
TurnsAreServed ==
  (\E e \in Entered : e.task = "turn") ~> (turn.pc = "run" \/ Settled)

=============================================================================
