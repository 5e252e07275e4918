--------------------------- MODULE VisitorGating ---------------------------
(***************************************************************************)
(* The visitor identity and session gating controller of the installation  *)
(* (src/conscious_entity/identity/session_gating.py): who the conversation *)
(* belongs to, which recognised visitor is still only a candidate, and     *)
(* whether the tracked person that stands for the visitor is in the frame. *)
(*                                                                         *)
(* Every method of the class holds one threading.Lock from its first to    *)
(* its last statement, so a method is one atomic step.  A method that a    *)
(* caller runs together with another one, without an await in between, is  *)
(* an operator from a controller state to the next; a method that is       *)
(* always a step of its own is an action on the variable `gate'.           *)
(*                                                                         *)
(* Clocks are ages: the number of ticks since the stored timestamp, which  *)
(* stops counting at AgeCap.  Counters and texts only shown on the         *)
(* dashboard (interruption_count, latest_match, summaries, event log) are  *)
(* left out.                                                               *)
(***************************************************************************)
EXTENDS Integers, FiniteSets

CONSTANTS
  Visitors,           \* visitor profile ids
  None,               \* no visitor
  Tracks,             \* ids the person tracker may give a track
  NoTrack,            \* no track locked
  Graces,             \* values primary_leave_grace_seconds may be given, in ticks
  CandidateMaxTurns,  \* IdentityGatingConfig.candidate_max_turns
  CandidateTtl,       \* IdentityGatingConfig.candidate_ttl_seconds, in ticks
  AgeCap,             \* BOUND: ages stop counting here
  MaxSession          \* BOUND: sessions are numbered 0 .. MaxSession

ASSUME NoneAssumption    == None \notin Visitors
ASSUME NoTrackAssumption == NoTrack \notin Tracks
ASSUME AgeAssumption     == /\ AgeCap \in Nat
                            /\ Graces # {}
                            /\ Graces \subseteq 0 .. AgeCap
                            /\ CandidateTtl \in 0 .. AgeCap
                            /\ CandidateMaxTurns \in Nat
                            /\ MaxSession \in Nat

VARIABLES
  gate,    \* the controller's IdentitySessionStatus
  config   \* its IdentityGatingConfig

gateVars == << gate, config >>

-----------------------------------------------------------------------------
(* The controller's state. *)

NoClock   == -1     \* candidate_started_at is None
NoSession == -1     \* new_session_id is missing from the release record
Ages      == 0 .. AgeCap
Older(a)  == IF a \in 0 .. AgeCap - 1 THEN a + 1 ELSE a

RuntimeStates  == {"idle", "encounter_candidate", "identity_confirming",
                   "in_dialogue", "interrupted"}
IntentStates   == {"unconfirmed", "no_response", "confirmed_by_input"}
IdentityStates == {"unidentified", "confirmed", "candidate",
                   "interruption_candidate", "primary_missing_grace"}
PresenceStates == {"untracked", "no_primary", "handoff_disabled", "ambiguous",
                   "present", "missing_grace", "left"}
ConfirmStates  == {"none", "pending", "accepted", "rejected", "expired",
                   "interruption_recorded"}
Decisions      == {"observe_only", "continue_current", "continue_unidentified",
                   "continue_unscoped", "confirm_candidate",
                   "interruption_recorded", "refuse_switch", "visitor_bound",
                   "visitor_cleared", "session_reset"}
SystemEvents   == {"user_entered", "long_silence", "user_left"}
EventNames     == SystemEvents \union
                  {"none", "session_configured", "visitor_selection",
                   "identity_match", "identity_confirmation", "dialogue_turn",
                   "candidate_expired", "primary_visitor_left"}

Gate == [session    : Nat,                          \* session_id
         primary    : Visitors \union {None},       \* primary_visitor_id
         candidate  : Visitors \union {None},       \* candidate_visitor_id
         candAge    : Ages \union {NoClock},        \* since candidate_started_at
         candTurns  : Nat,                          \* candidate_confirmation_turns
         waiting    : BOOLEAN,                      \* waiting_for_identity_confirmation
         runtime    : RuntimeStates,                \* runtime_state
         intent     : IntentStates,                 \* intent_status
         identity   : IdentityStates,               \* identity_status
         confirm    : [status: ConfirmStates, who: Visitors \union {None}],
         track      : Tracks \union {NoTrack},      \* primary_track_id
         unseen     : Ages,                         \* since primary_track_last_seen_at
         presence   : PresenceStates,               \* primary_presence_status
         released   : Visitors \union {None},       \* last_primary_release.visitor_id
         releasedTo : Nat \union {NoSession},       \* ... .new_session_id
         decision   : Decisions,                    \* last_decision
         event      : EventNames]                   \* last_event

Config == [autoBind : BOOLEAN,   \* auto_bind_high_confidence
           handoff  : BOOLEAN,   \* handoff_after_primary_leave_enabled
           grace    : Graces]    \* primary_leave_grace_seconds

NoConfirmation      == [status |-> "none", who |-> None]
\* Bug: the record of a confirmation without the visitor it is about.
ConfirmationOfNobody(st, v) == [status |-> st]
Confirmation(st, v) == [status |-> st, who |-> v]

IdentityOf(v) == IF v = None THEN "unidentified" ELSE "confirmed"
PresenceOf(v) == IF v = None THEN "no_primary" ELSE "untracked"

\* A fresh IdentitySessionStatus for session sid with primary visitor v.
NewStatus(sid, v) ==
  [session |-> sid, primary |-> v, candidate |-> None, candAge |-> NoClock,
   candTurns |-> 0, waiting |-> FALSE, runtime |-> "idle",
   intent |-> "unconfirmed", identity |-> IdentityOf(v),
   confirm |-> NoConfirmation, track |-> NoTrack, unseen |-> 0,
   presence |-> PresenceOf(v), released |-> None, releasedTo |-> NoSession,
   decision |-> "observe_only", event |-> "none"]

\* visitor_scope_mode and visitor_memory_allowed, as every caller reads them.
ScopeMode(s) ==
  CASE s.primary # None /\ s.presence = "missing_grace" -> "unscoped_grace"
    [] s.primary # None /\ s.presence # "missing_grace" -> "primary"
    [] s.primary = None /\ s.waiting                    -> "candidate_pending"
    [] s.primary = None /\ ~s.waiting                   -> "unidentified"

InGrace(s)       == ScopeMode(s) = "unscoped_grace"
MemoryAllowed(s) == s.primary # None /\ s.presence # "missing_grace"

-----------------------------------------------------------------------------
(* Building blocks shared by the methods. *)

\* Drop whatever candidate there is; identity_status is left to the caller.
DropCandidate(s) ==
  [s EXCEPT !.candidate = None, !.candAge = NoClock, !.candTurns = 0,
            !.waiting = FALSE]

\* Bug: the presence is reset and the locked track is kept.
DropTrackKeepsTrack(s, presence) == [s EXCEPT !.presence = presence]

\* Forget the locked person track.
DropTrack(s, presence) ==
  [s EXCEPT !.track = NoTrack, !.unseen = 0, !.presence = presence]

Mark(s, decision, event) == [s EXCEPT !.decision = decision, !.event = event]

\* Bug: the offer stays open when a visitor is bound.
BindKeepsOffer(s, v) ==
  [DropTrack(s, PresenceOf(v)) EXCEPT !.primary = v, !.identity = IdentityOf(v)]

\* Make v the primary visitor: by recognition, confirmation or developer.
Bind(s, v) ==
  [DropTrack(DropCandidate(s), PresenceOf(v)) EXCEPT
      !.primary = v, !.identity = IdentityOf(v)]

\* Put candidate v up for a non-blocking confirmation.
OpenCandidate(s, v) ==
  [s EXCEPT !.runtime = "identity_confirming", !.candidate = v,
            !.candAge = 0, !.candTurns = 0, !.identity = "candidate",
            !.waiting = TRUE, !.confirm = Confirmation("pending", v)]

-----------------------------------------------------------------------------
(* Methods that callers combine: operators from a state to the next. *)

\* configure_session: a new status that keeps only the last release.
ConfigureSession(s, sid, v, decision) ==
  [NewStatus(sid, v) EXCEPT !.released = s.released, !.releasedTo = s.releasedTo,
                            !.decision = decision, !.event = "session_configured"]

\* set_primary_visitor: the developer's choice of visitor, or none.
SetPrimaryVisitor(s, v) ==
  Mark([Bind(s, v) EXCEPT !.confirm = NoConfirmation],
       IF v = None THEN "visitor_cleared" ELSE "visitor_bound",
       "visitor_selection")

\* confirm_candidate: what the visitor, or the developer, answered.
ConfirmCandidate(s, accepted) ==
  LET v == s.candidate IN
  CASE v = None ->
         Mark([s EXCEPT !.waiting = FALSE, !.confirm = NoConfirmation],
              "observe_only", "identity_confirmation")
    [] v # None /\ accepted ->
         Mark([Bind(s, v) EXCEPT !.confirm = Confirmation("accepted", v)],
              "visitor_bound", "identity_confirmation")
    [] v # None /\ ~accepted ->
         Mark([DropCandidate(s) EXCEPT !.identity = IdentityOf(s.primary),
                                       !.confirm = Confirmation("rejected", v)],
              "observe_only", "identity_confirmation")

\* record_primary_release_session: which session followed the last release.
RecordReleaseSession(s, sid) ==
  IF s.released = None THEN s ELSE [s EXCEPT !.releasedTo = sid]

\* A pending candidate that used up its turns or its time.
Expired(s) ==
  /\ s.waiting
  /\ s.candidate # None
  /\ \/ s.candTurns >= CandidateMaxTurns
     \/ CandidateTtl = 0
     \/ s.candAge # NoClock /\ s.candAge >= CandidateTtl

\* _expire_pending_candidate_if_needed_locked
ExpireCandidate(s) ==
  IF ~Expired(s) THEN s
  ELSE Mark([DropCandidate(s) EXCEPT !.identity = IdentityOf(s.primary),
                                     !.confirm = Confirmation("expired", s.candidate)],
            "observe_only", "candidate_expired")

\* The state and the decision a turn enters with.
EnterTurn(s, interruption) ==
  CASE interruption ->
         [s EXCEPT !.runtime = "interrupted", !.decision = "interruption_recorded"]
    [] ~interruption /\ InGrace(s) ->
         [s EXCEPT !.runtime = "interrupted", !.decision = "continue_unscoped"]
    [] ~interruption /\ ~InGrace(s) ->
         [s EXCEPT !.runtime  = "in_dialogue",
                   !.decision = IF s.primary = None THEN "continue_unidentified"
                                                    ELSE "continue_current"]

\* One more turn in which an offered candidate was not confirmed.
CountUnconfirmed(s) ==
  IF s.waiting /\ s.candidate # None
  THEN [s EXCEPT !.candTurns = @ + 1]
  ELSE s

\* before_turn: expire, take the input as intent, route, count the turn.
BeforeTurn(s, interruption) ==
  LET e == ExpireCandidate(s)
      t == [EnterTurn(e, interruption) EXCEPT !.intent = "confirmed_by_input",
                                              !.event  = "dialogue_turn"]
  IN  IF Expired(s) THEN t ELSE CountUnconfirmed(t)

-----------------------------------------------------------------------------
(* Actions. *)

Init ==
  /\ \E v \in Visitors \union {None} : gate = NewStatus(0, v)
  /\ \E grace \in Graces :
        config = [autoBind |-> FALSE, handoff |-> TRUE, grace |-> grace]

\* One tick of the clock: stored timestamps grow older.
Tick ==
  /\ gate' = [gate EXCEPT !.candAge = Older(@),
                          !.unseen  = IF gate.track = NoTrack THEN @ ELSE Older(@)]
  /\ UNCHANGED config

\* configure_identity (POST /api/v1/identity/config)
ConfigureIdentity(autoBind, handoff, grace) ==
  /\ config' = [autoBind |-> autoBind, handoff |-> handoff, grace |-> grace]
  /\ UNCHANGED gate

\* handle_system_event: presence seen by the camera, debounced.
SystemEvent(e) ==
  /\ \/ /\ e = "user_entered" /\ gate.runtime = "in_dialogue"
        /\ gate' = Mark(gate, "continue_current", e)
     \/ /\ e = "user_entered" /\ gate.runtime # "in_dialogue"
        /\ gate' = Mark([gate EXCEPT !.runtime = "encounter_candidate",
                                     !.intent  = "unconfirmed"], "observe_only", e)
     \/ /\ e = "long_silence"
        /\ gate' = Mark([gate EXCEPT !.intent = "no_response"], "observe_only", e)
     \/ /\ e = "user_left"
        /\ gate' = Mark([DropCandidate(gate) EXCEPT !.runtime = "idle",
                                                    !.intent  = "unconfirmed"],
                        "observe_only", e)
  /\ UNCHANGED config

-----------------------------------------------------------------------------
(* apply_identity_match: a recogniser's result m.  m.who is the best        *)
(* candidate or None, m.level its combined confidence, m.ask the hint       *)
(* decision_hint = "confirm_if_high_confidence".                            *)

Levels  == {"none", "low", "medium", "high"}
Matches == [who: Visitors \union {None}, level: Levels, ask: BOOLEAN]

\* A recognised visitor who is not the primary one.
Other(m) == m.who # None /\ m.who # gate.primary

\* _handoff_release_requires_confirmation_locked
ReleaseNeedsConfirmation ==
  /\ gate.released # None
  /\ gate.releasedTo \in {NoSession, gate.session}

IntrudesOnGrace(m) ==
  /\ Other(m) /\ m.level = "high"
  /\ InGrace(gate)

IntrudesOnDialogue(m) ==
  /\ Other(m) /\ m.level = "high"
  /\ gate.primary # None
  /\ ~InGrace(gate)
  /\ gate.runtime = "in_dialogue"

\* Bug: an automatic bind does not look whether somebody is bound already.
AutoBindsOverPrimary(m) ==
  /\ Other(m) /\ m.level = "high"
  /\ config.autoBind /\ gate.runtime # "in_dialogue"
  /\ ~ReleaseNeedsConfirmation /\ ~m.ask

AutoBinds(m) ==
  /\ Other(m) /\ m.level = "high"
  /\ config.autoBind
  /\ gate.primary = None
  /\ gate.runtime # "in_dialogue"
  /\ ~ReleaseNeedsConfirmation
  /\ ~m.ask

\* Asked about: any other high match, and a medium one while nobody is primary.
NeedsConfirmation(m) ==
  \/ /\ Other(m) /\ m.level = "high"
     /\ ~IntrudesOnGrace(m) /\ ~IntrudesOnDialogue(m) /\ ~AutoBinds(m)
  \/ Other(m) /\ m.level = "medium" /\ gate.primary = None

Ignored(m) ==
  \/ Other(m) /\ m.level \in {"none", "low"}
  \/ Other(m) /\ m.level = "medium" /\ gate.primary # None

MatchNobody(m) ==
  /\ m.who = None
  /\ gate' = Mark([DropCandidate(gate) EXCEPT !.confirm = NoConfirmation],
                  "observe_only", "identity_match")

MatchPrimary(m) ==
  /\ m.who # None /\ m.who = gate.primary
  /\ gate' = Mark([DropCandidate(gate) EXCEPT
                      !.identity = "confirmed",
                      !.confirm  = Confirmation("accepted", m.who)],
                  "continue_current", "identity_match")

RefuseDuringGrace(m) ==
  /\ IntrudesOnGrace(m)
  /\ gate' = Mark([DropCandidate(gate) EXCEPT
                      !.runtime  = "interrupted",
                      !.identity = "primary_missing_grace",
                      !.confirm  = Confirmation("interruption_recorded", m.who)],
                  "refuse_switch", "identity_match")

RefuseDuringDialogue(m) ==
  /\ IntrudesOnDialogue(m)
  /\ gate' = Mark([DropCandidate(gate) EXCEPT
                      !.runtime   = "interrupted",
                      !.candidate = m.who,
                      !.identity  = "interruption_candidate",
                      !.confirm   = Confirmation("interruption_recorded", m.who)],
                  "refuse_switch", "identity_match")

AutoBind(m) ==
  /\ AutoBinds(m)
  /\ gate' = Mark([Bind(gate, m.who) EXCEPT !.confirm = Confirmation("accepted", m.who)],
                  "visitor_bound", "identity_match")

AskCandidate(m) ==
  /\ NeedsConfirmation(m)
  /\ gate' = Mark(OpenCandidate(gate, m.who), "confirm_candidate", "identity_match")

IgnoreMatch(m) ==
  /\ Ignored(m)
  /\ gate' = Mark([DropCandidate(gate) EXCEPT !.identity = IdentityOf(gate.primary),
                                              !.confirm  = NoConfirmation],
                  "observe_only", "identity_match")

ApplyIdentityMatch(m) ==
  /\ \/ MatchNobody(m) \/ MatchPrimary(m)
     \/ RefuseDuringGrace(m) \/ RefuseDuringDialogue(m)
     \/ AutoBind(m) \/ AskCandidate(m) \/ IgnoreMatch(m)
  /\ UNCHANGED config

-----------------------------------------------------------------------------
(* update_primary_presence: one poll of the vision runtime.  r.frame says a *)
(* frame was published since the camera was last configured, r.person the   *)
(* debounced presence of anybody, and r.list[t] how the tracker lists track *)
(* t: not at all, or active or missing and how long ago it last matched a   *)
(* detection.                                                               *)

Absent    == [sight |-> "absent", age |-> 0]
Sightings == {Absent} \union [sight: {"active", "missing"}, age: Ages]
Reports   == [frame: BOOLEAN, person: BOOLEAN, list: [Tracks -> Sightings]]

Active(r)        == {t \in Tracks : r.list[t].sight = "active"}
PersonPresent(r) == r.person \/ Active(r) # {}

\* The poll looks at tracks at all.
Tracking(r) == gate.primary # None /\ config.handoff /\ r.frame

\* _primary_track_missing_too_long_locked
LostTooLong(unseen) == unseen >= config.grace

\* Bug: the time the tracker last saw the track is not taken over.
SeenAgeStale(r) == gate.unseen

\* The age of the locked track after the poll: the tracker's, if it has it.
SeenAge(r) ==
  IF r.list[gate.track] = Absent THEN gate.unseen ELSE r.list[gate.track].age

PollNoPrimary(r) ==
  /\ gate.primary = None
  /\ gate' = DropTrack(gate, "no_primary")

PollHandoffOff(r) ==
  /\ gate.primary # None /\ ~config.handoff
  /\ gate' = [gate EXCEPT !.presence = "handoff_disabled"]

PollNoFrame(r) ==
  /\ gate.primary # None /\ config.handoff /\ ~r.frame
  /\ gate' = [gate EXCEPT !.presence = "untracked"]

\* _lock_primary_track_locked: the only track there is becomes the primary's.
PollLock(r) ==
  /\ Tracking(r) /\ gate.track = NoTrack
  /\ gate.presence # "ambiguous"
  /\ \E t \in Tracks :
       /\ Active(r) = {t}
       /\ gate' = [gate EXCEPT !.track = t, !.unseen = r.list[t].age, !.presence = "present"]

\* Nobody to lock, or several: an ambiguous scene stays so until it is empty.
PollUnlocked(r) ==
  /\ Tracking(r) /\ gate.track = NoTrack
  /\ gate.presence = "ambiguous" \/ Cardinality(Active(r)) # 1
  /\ gate' = [gate EXCEPT !.presence =
                IF \/ gate.presence = "ambiguous" /\ PersonPresent(r)
                   \/ gate.presence # "ambiguous" /\ Cardinality(Active(r)) > 1
                THEN "ambiguous" ELSE "untracked"]

PollSeen(r) ==
  /\ Tracking(r) /\ gate.track # NoTrack
  /\ gate.track \in Active(r)
  /\ gate' = [gate EXCEPT !.unseen = SeenAge(r), !.presence = "present"]

PollMissing(r) ==
  /\ Tracking(r) /\ gate.track # NoTrack
  /\ gate.track \notin Active(r)
  /\ ~LostTooLong(SeenAge(r))
  /\ gate' = [gate EXCEPT !.unseen = SeenAge(r), !.presence = "missing_grace"]

\* _release_primary_visitor_locked
PollRelease(r) ==
  /\ Tracking(r) /\ gate.track # NoTrack
  /\ gate.track \notin Active(r)
  /\ LostTooLong(SeenAge(r))
  /\ gate' = Mark([DropTrack(DropCandidate(gate), "left") EXCEPT
                      !.primary    = None,
                      !.released   = gate.primary,
                      !.releasedTo = NoSession,
                      !.identity   = "unidentified",
                      !.confirm    = NoConfirmation],
                  "visitor_cleared", "primary_visitor_left")

UpdatePrimaryPresence(r) ==
  /\ \/ PollNoPrimary(r) \/ PollHandoffOff(r) \/ PollNoFrame(r)
     \/ PollLock(r) \/ PollUnlocked(r)
     \/ PollSeen(r) \/ PollMissing(r) \/ PollRelease(r)
  /\ UNCHANGED config

-----------------------------------------------------------------------------
(* The controller on its own: any caller may call any method next. *)

\* POST /api/v1/sessions/reset: a new session for visitor v.
ResetSession(v) ==
  /\ gate.session < MaxSession
  /\ gate' = ConfigureSession(gate, gate.session + 1, v, "session_reset")
  /\ UNCHANGED config

\* The runtime follows a release with a session of nobody.
FollowRelease ==
  /\ gate.session < MaxSession
  /\ gate' = RecordReleaseSession(
                ConfigureSession(gate, gate.session + 1, None, "visitor_cleared"),
                gate.session + 1)
  /\ UNCHANGED config

SelectVisitor(v) ==
  /\ gate' = SetPrimaryVisitor(gate, v)
  /\ UNCHANGED config

Confirm(accepted) ==
  /\ gate' = ConfirmCandidate(gate, accepted)
  /\ UNCHANGED config

Expire ==
  /\ gate' = ExpireCandidate(gate)
  /\ UNCHANGED config

Turn(interruption) ==
  /\ gate' = BeforeTurn(gate, interruption)
  /\ UNCHANGED config

Next ==
  \/ Tick
  \/ \E a, h \in BOOLEAN, d \in Graces : ConfigureIdentity(a, h, d)
  \/ \E v \in Visitors \union {None} : ResetSession(v)
  \/ FollowRelease
  \/ \E v \in Visitors \union {None} : SelectVisitor(v)
  \/ \E m \in Matches : ApplyIdentityMatch(m)
  \/ \E a \in BOOLEAN : Confirm(a)
  \/ \E r \in Reports : UpdatePrimaryPresence(r)
  \/ \E e \in SystemEvents : SystemEvent(e)
  \/ Expire
  \/ \E i \in BOOLEAN : Turn(i)

Spec == Init /\ [][Next]_gateVars

-----------------------------------------------------------------------------
(* Properties. *)

\* Every field of the controller and of its configuration stays in its type.
TypeOK == gate \in Gate /\ config \in Config

\* A candidate somebody was asked about is a visitor other than the primary,
\* with a running clock and no more unconfirmed turns than candidate_max_turns,
\* and the recorded confirmation is the pending one of that very visitor; and a
\* candidate nobody was asked about is somebody else whom a dialogue refused.
\* The flags are written by ten different methods, each with its own subset.
OfferConsistent(s) ==
  /\ s.waiting =>
       /\ s.candidate \notin {None, s.primary}
       /\ s.candAge # NoClock
       /\ s.candTurns <= CandidateMaxTurns
       /\ s.confirm = Confirmation("pending", s.candidate)
       /\ s.identity = "candidate"
  /\ s.candidate # None /\ ~s.waiting =>
       /\ s.primary \notin {None, s.candidate}
       /\ s.identity = "interruption_candidate"

PendingCandidate == OfferConsistent(gate)

\* The locked track belongs to the primary visitor: no visitor, no track; and
\* the presence shown says the same thing as the track does.
TrackConsistent(s) ==
  /\ s.primary = None  <=> s.presence \in {"no_primary", "left"}
  /\ s.primary = None  => s.track = NoTrack
  /\ s.presence \in {"present", "missing_grace"} => s.track # NoTrack
  /\ s.presence = "ambiguous" => s.track = NoTrack

TrackFollowsPrimary == TrackConsistent(gate)

\* The primary visitor is never exchanged for another one by recognition, by
\* presence or by a turn.  The developer and a new session may do it; so may a
\* confirmation, which binds the candidate on record, whether somebody was asked
\* about it or a dialogue had just refused it: confirm_candidate looks at neither
\* that nor at the primary visitor's track.  Presence only takes away a visitor
\* whose track it had locked.
NoHardSwitch ==
  [][ (gate.primary # None /\ gate'.primary # gate.primary) =>
        \/ gate'.event \in {"visitor_selection", "session_configured"}
        \/ /\ gate'.event = "identity_confirmation" /\ gate'.primary = gate.candidate
           /\ gate.waiting \/ gate.identity = "interruption_candidate"
        \/ /\ gate'.event = "primary_visitor_left"  /\ gate'.primary = None
           /\ gate.track # NoTrack ]_gate

\* "While the primary track is alive, the high confidence of a visitor B can only
\* become refuse_switch or an interruption and cannot replace A"
\* (docs/progress.md:433).  The code has no such guard: outside a dialogue the
\* match is offered, and its confirmation replaces the visitor in the frame.
PresentPrimaryStays ==
  [][ gate.presence = "present" /\ gate'.event \in {"identity_match", "identity_confirmation"}
        => gate'.primary = gate.primary ]_gate

=============================================================================
