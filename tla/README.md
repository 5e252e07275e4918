# Verification of the installation's host program

The repository runs *Stranger*, an installation: a camera watches who stands in
front of it, a dialogue loop talks to them, a robot body moves, and everything
is remembered per visitor. A Python host (`src/conscious_entity`) serves an API
and runs the dialogue; an ESP32-S3 (`firmware/stranger_esp32s3`) drives the
motors. What must not go wrong is, first, *whose* conversation it is: memory of one
visitor must never reach another, and nobody may be exchanged for somebody else
behind their back. Then the turn itself: state, memory and reply keep together
through failing calls, cancelled requests and restarts; what is said is heard
once and in order; the constitution holds; the body stops.

Paths below are relative to the repository, `ce/` stands for
`src/conscious_entity/`.

## 1. Inventory

| Component | State | Operations | Talks to |
|---|---|---|---|
| Gating controller `ce/identity/session_gating.py` | `IdentitySessionStatus`: primary and candidate visitor, offer, locked track, presence, last release; `IdentityGatingConfig` | match, confirm, turn, presence poll, system event, select, configure, expire | called by the API runtime; every method under one `threading.Lock` |
| API runtime `ce/interfaces/api_runtime.py`, `api_routes.py` | `app.state`: session, visitor, loop, temporary session; `loop_lock`; tables `sessions`, `visitor_profiles` | dialogue turns, face capture, vision dispatcher, handoff, developer requests | controller, interaction loop, vision, face recognition, database |
| Vision runtime `ce/vision/runtime.py` | worker thread, person tracker, presence tracker, snapshot, pending events | start, stop, switch camera, browser frame, read status, pop events | polled by the dispatcher |
| Interaction loop `ce/core/loop.py` | short-term memory, state snapshots, background executor | `run_turn`, `handle_system_event`, `close` | state, policy, memory, expression, LLM |
| Managed memory `ce/memory/managed.py` | tables of memories, proposals, operation log, influence log | propose, commit, search, log influence, reject | worker thread, turn and developer requests over one SQLite file |
| Episodic and reflective memory, reflection | episodes, summaries, marks | store, unreflected, reflect, mark | database, LLM |
| State, perception, policy, constitution | entity state; otherwise pure | apply event, couple, decay; parse; select, check | called in order by `run_turn` |
| Expression and streaming `ce/expression/`, `ce/llm/` | sentence buffer, first unit, limits | generate, stream with fallbacks | LLM; progress callback to the event loop |
| Face recognition `ce/identity/face.py` | signatures, auto capture in flight and its cooldown | capture, match, enroll, deactivate | called by the API runtime in an executor |
| Audio `ce/audio/`, `api_audio.py` | active STT sessions, frame queue; TTS streams | start, receive, transcribe, finish; speak deltas and rest | websockets, speech service |
| Public sessions `ce/interfaces/api_public.py` | session handles with their own loop, lock and expiry | open, turn, clean up, close | one loop per session |
| Body `ce/body/` | in-flight motion, cooldowns, serial handle, telemetry | decide, execute, send, read, ingest | serial line to the firmware |
| Firmware | arming, duties and deadlines, gates, line following, roaming | one command or one update per loop pass | serial line, sensors, motors |
| Database, LLM clients, harness, latency, dashboards, scripts | rows; nothing; records | I/O | all of the above |

`PROJECT.json` repeats this list with what is modelled of each component, and
names, line by line, the hazards these components are exposed to.

How they interact where it is hard: recognition, presence, turns and developers
all change the controller, at any time; the runtime follows it later, under
`loop_lock`, with values that may have been read before the lock was obtained.
The dispatcher of vision events is one task that awaits the same lock. The
camera worker is a real thread; the tracker's objects it changes are the ones
the published snapshot lists. Executor calls (inference, face matching,
`run_turn`) take arbitrarily long. The LLM client may turn out misconfigured at
any point that needs it.

Hard behaviours: stale reads before a lock; a change of the controller that the
runtime only follows later, or never; a temporary session that outlives the
absence it was opened for; offers that expire by two different measures; a
camera thread beside browser frames; a cancelled request whose thread goes on;
a failure between any two of a turn's commits; a rebuilt loop that waits for its
worker; three writers of one SQLite file, two of them on one connection; a stream
that breaks after half of it was spoken; a queue that drops what is oldest; acks
and telemetry that cross on the serial line.

What makes the components correct:

* controller: the primary visitor changes only by an explicit act, never by
  recognition, presence or a turn alone; an offer is
  consistent and within its limits; a track is locked only for a visitor;
* runtime: controller, runtime, loop and database agree when all is done; a
  running turn keeps its loop; releases arrive; every turn is served;
* vision: events tell the presence exactly; a visitor is released only after a full
  grace period without a match, as long as somebody looks;
* turn: one chain of states; the window is what the log says; a mark has its
  summary; no worker outlives its loop; the lock comes back;
* managed memory: what is called committed was done; a proposal is decided once;
  one reply's proposals stand or fall together; the database does not stay locked;
* numbers and policy: levels stay levels; extreme pressure ends in silence; demands
  are refused;
* streams: what is heard is what was said, in order and once, within the limits;
* speech: frames keep their order; a page that leaves gives its session back;
* body: a motion ends, after a stop; a body shown as disarmed is disarmed.

## 2. Modules

### VisitorGating — the controller

One record `gate` for `IdentitySessionStatus`, one `config` for
`IdentityGatingConfig`. Each method holds the object's lock from start to end
and is one step. Methods that callers combine in one section (configure,
select, confirm, enter a turn, expire) are operators from state to state;
`apply_identity_match`, `update_primary_presence`, `handle_system_event`,
`configure_identity` are actions with one disjunct per branch of the code.
Timestamps are ages in ticks that stop at `AgeCap`; comparisons with a limit not
above `AgeCap` are exact. Scores are abstracted to the four confidence levels that
`level_for_score` yields. A report of the tracker is an arbitrary record: whether
a frame was published, whether anybody is present, and each track's sight and age.

Left out: texts, counters, diagnostics and the event log, which the controller
stores and never reads. `Next` calls every method in every order: more callers
than the runtime has, so what holds here holds for any.

### SessionHandoff — the runtime around it

EXTENDS VisitorGating: its steps use the controller's operators and actions.
`app` is `app.state`, `rows` the sessions table (visitor and whether `ended_at`
is NULL), `profiles` the visitor profiles. `loop_lock` is an `asyncio.Lock`,
first in first out: `lock` holds the entry of its owner and `queue` the
entries waiting. An entry carries the local variables read before waiting, so a
stale read is in the model wherever it is in the code (reset, reload, vision
event, handoff, bind). Code between two awaits is one step; a turn awaits twice
with the lock held (`capture`, `run`), a vision event once. Requests of the identity
API change the controller at once and enter a `bind`; a match or a confirmation that
names a visitor nobody knows records a profile for them.

A failing LLM client (`LlmMayFail`) is a second branch wherever the code asks
for the client, at exactly the point where it asks. Session numbers are reused
once nothing refers to a session (`Unused`), so four suffice for behaviours of
any length; `HandoffTypeOK` checks that a number is always left.

The external part is `asyncio.Lock` and `uuid4` only, modelled from their use.

### VisionRuntime and VisitorPresence — the camera

`VisionRuntime`: worker thread in four steps (read and detect, track, notice,
publish), since browser frames, stop requests, polls and reads of the snapshot
fall in between, and an exception may end the worker, also after the tracker's
update; requests on the event loop's thread, which `stop()` blocks while it joins. A detection is the person it shows: `Assigns` lets a detection go to a
track of that person or to a new number, never to another person's track.

`VisitorPresence` EXTENDS VisionRuntime and VisitorGating and composes them: the
dispatcher's poll applies `update_primary_presence` to `Report`, which reads the
tracker's live objects for the tracks the snapshot lists, as the code does; the
events popped are handled one by one. History variables keep what the events said
last (`told`), how long no poll has found the locked track while the tracker kept it
(`unpolled`), and which disturbances happened; no action reads them except the bound
on disturbances.

### TurnPipeline — one turn, commit by commit

`run_turn` is cut at its LLM calls and commits, for that is where threads interleave
and where a failure leaves half of it: hear, remember the user's words, save the
snapshot, adopt it, store episodes, reply and log, enqueue maintenance, reflect,
summarise, mark. `disk` is what the database keeps, `loop` what the loop object
holds, `thread` where each executor thread stands, `lock` who holds `loop_lock`. A
plain request that is cancelled gives the lock back while its thread goes on; a
progressive one waits. `_rebuild_loop` closes the old loop inside the event loop's
thread, so while `closing` is on nothing else of the event loop happens. Any read,
write, embedding or LLM call may fail (`Fault`), and the process may restart.
`ResetState` is `POST /api/v1/state/reset`: it takes the lock, appends the initial
state as the newest snapshot and does not tell the loop; `seen.unread` holds the
snapshots of resets that no loop has been loaded from. A state is the number of its
snapshot, a text the number of its turn.

### MoodPolicy — the numbers behind a reply

Perception, state engine, conversation depth, memory influence, selector and
constitution, with the rules of `config/*.yaml`, one turn as one step. Levels are
integers in millionths, so sums are exact where the code's floats round; a rule
whose threshold is met exactly may differ there in the last digit. A text is the record of
what the detectors find in it; two texts are similar if they are the same.

### OrderedDelivery, SpokenReply, SpeechInput — streams

`OrderedDelivery` is the abstract specification of a one-way stream: items are
numbered as they are said, the listener hears them in order, none twice; if nothing
may be lost, a stream that completes has told everything.

`SpokenReply` is the way of a reply from the model's text deltas over sentence
buffer, safety gate, coalescer and limits to the event queue, the handler and the
page's voice. A broken stream is tried again over the next transport, from the
beginning and into the same buffer. A text is a sequence of words for what the
filters see in a sentence. `_join_spoken_deltas` strips two short sentences and joins
them with a space or, in Chinese, without one; where the text was written otherwise (a
line break, a space in Chinese) the word is `gap`, which joining turns into `brief`, so
that the delta is no literal beginning of the reply. A sentence ends with a mark; a line
that only its break ends is left out. Its progressive stream implements `OrderedDelivery`
without loss (`said <- Len(said)`, `heard`, `outcome <- stream`).

`SpeechInput` is the WebSocket of the transcription: producer task, bounded queue
that drops its oldest frame, consumer task, the handler that waits for the first of
them, the session limit. For each page it implements `OrderedDelivery` with loss.

### ManagedMemory — proposals and commits

`db` is what is committed, `tx` the one open write transaction with the tables as
its connection sees them. The worker has a connection of its own and closes it,
which rolls back; the turn and the developer's requests share the application's, so
that the turn's commit also commits what a request has written so far. A commit is
taken apart at what it does for each proposal: its effect (with the row go its search
index and its log line), its successor, its mark, then the SQL commit. Maintenance in
the turn's own thread (`core/loop.py:926`, a loop without a database file) is left out.
A writer that cannot get the database fails
(`Blocked`), at any time another transaction is open, since the busy timeout is
shorter than an embedding call may be. Visitors, contents and ranking are left out; a
search returns all the active memories its connection sees.
The run proposes an addition, a supersession and an update of a memory that is not
there, and orders an operation that names none and a restore that has nothing to do;
archiving and a restore that takes effect change one memory's status like a
supersession and are left to the theorems, which hold for any operations.

### BodyMotion — motion over a serial line

Motion controller, bridge, telemetry store and the routes that write to the same
port on one side; on the other the robot, which reads lines in order, answers each
discrete command and switches its own motors off. Preflight, pulses, line checks,
stop, record; connect, disconnect, read error, a reader that stops. What the store
believes (`view`) follows acks that arrive later than the command that they answer.

### Proof modules

`VisitorGating_proofs`, `SessionHandoff_proofs`, `TurnPipeline_proofs`,
`SpokenReply_proofs`, `SpeechInput_proofs`, `MoodPolicy_proofs`,
`ManagedMemory_proofs` and `BodyMotion_proofs` EXTEND the module they are about and
TLAPS;
`SessionHandoff_proofs` also EXTENDS `VisitorGating_proofs`, whose lemmas on the
controller's operators it cites. `VisitorGating_proofs` EXTENDS VisitorPresence, hence
both the controller and the camera.

### MC modules

They add small sets, symmetry sets and views. Operators marked *Bug:* in the modules
are plausible mistakes used to see that a property can fail; no specification uses
them.

## 3. Runs

Passing runs:

| Run | Shows | Bounds |
|---|---|---|
| `visitor_gating` | controller under every order of its methods | 2 visitors, 2 tracks, grace 0 or 1 tick, 2 turns, ttl 1 tick, 2 sessions |
| `handoff` | agreement, open sessions, promotion of the right absence; releases arrive, turns are served | 1 visitor, turns, select, create and reconfiguration, one task waiting when a request is sent, fair tasks, working LLM client |
| `requests` | running loops under reset, reload, identity API and a failing LLM client | 1 visitor, grace 1 tick |
| `presence` | camera and controller together: events tell the presence; a release is due, the ordinary departure included | 1 person, 1 visitor, 2 track numbers, 2 pending events, a lost track kept for 0 ticks, grace 2 ticks, all other times 1, one kind of disturbance |
| `turn_pipeline` | continuity of state, window, reflection; no orphaned worker; the lock comes back | 2 turns or events of 2 episodes each, window 3, threshold 2, 2 faults, cancellations, rebuilds, resets or restarts |
| `mood_policy` | levels, silence under extreme pressure, refusal of demands | 8 texts, 0 or 2 memories found, a new visitor or one of fifteen friendly turns, then 4 turns, events or pauses |
| `spoken_reply` | limits and filters of the deltas; deltas and rest together are the reply; ordered delivery | 3 deltas in all attempts, 9 kinds of sentences, at most 2 sentences in the deltas |
| `speech_input` | ordered frames, sessions given back | 2 pages, 1 session, 4 frames each, queue of 2 |
| `managed_memory` | what is committed was done, once, together; the worker ends | 2 turns, 2 proposals, 2 requests or restarts, 3 drafts and 2 direct orders |
| `body_motion` | no false `disarmed`, stop after a sequence, one motion at a time, motions end | 1 mood, 2 tests, 2 commands, 2 lines buffered, 4 outside events |

Why these are enough: the interesting cases need a visitor and somebody else
(two visitors; before the camera, a person who need not be the visitor), a track and another one (two), an
offer below and at its limit (two turns), a clock below and at its limit (one tick; two
for the grace period of `presence`, so that there are polls between the moment the
tracker drops a lost track, after one, and the release),
a session before and after. A reflection needs two episodes and a second turn that
overlaps it; a fault needs another to meet a half done recovery (two). The code
speaks three sentences and keeps ten entries; two and three are the least with a
first, a last and a limit that is passed. Two proposals make a batch, a race and a
half committed request; a memory that exists, one that does not, and none are the
targets a commit tells apart. A queue of two drops, and keeps room for the stop mark.
Person tracks matter to the runtime only through
"present", "missing" and "released", for which one track is enough. `MaxQueue`
bounds only when *clients* send; the runtime's own tasks may queue beyond it.
With `MaxTrack` the tracker's numbers run out after two; a frame that would need
a third is not taken. Agreement between controller and runtime is claimed without
the identity API, reset, reload and a failing client: with them it does not hold
(hazards in `PROJECT.json`).

A second visitor matters to the controller, whose run has two; the runtime's three
safety properties of `handoff` and the camera's are proved for any number of visitors
and people, and one keeps these runs within minutes.

Views. `View` of MCVisitorGating ignores the last decision and event, which no
method reads; the properties read them only in the state a step leads to, and
that they stay in their types is proved. The views of MCSessionHandoff ignore the four
fields of the controller that are reported and never read by an action (`decision` is
read within the step that sets it) and the rows of unreferenced session numbers, which are
overwritten before they are read; `AskingView` keeps whether those are open,
because a property asks, and ignores `auto_bind_high_confidence`, which is read only for
a match that need not be asked about, and faces always are. `handoff` checks liveness under
it: a step is possible, changes what the view keeps and leads where it does whatever
the ignored fields are, and the properties and the fairness condition do not read them. `View` of
MCVisitorPresence ignores the dialogue side of
the controller, which no poll and no property of that run reads, tracks
that nothing refers to, the stop flag once the worker has ended, which `start`
clears before a new worker sees it, of the debounced presence what the next frame
overwrites (the run of frames while somebody is present, the two ages while nobody is), and
of the history what no property reads any more after a disturbance that it excepts.

Symmetry: visitors and tracks are interchangeable in `visitor_gating`, which checks no
liveness. `CHECK_DEADLOCK` is switched off where a behaviour ends
because its bound on turns, requests or outside events is used up: everybody may
stop coming. It is on in the runs of the controller, the runtime and the camera.

Exceptions the properties make, each a behaviour of the code that TLC finds when the
exception is left out, and listed among the hazards:

* `ReleaseIsDue` and `EventsTellPresence`: a switched camera, and browser frames beside a
  running worker. `ReleaseIsDue` also a dispatcher that did not look at the locked track
  during the last `MissingTicks` before the tracker dropped it. Only a poll that finds the
  track listed refreshes its last-seen time; while the dispatcher waits for `loop_lock` a
  visitor may come back and leave again unseen. The ordinary departure, in which the
  tracker drops the track after seconds and the release follows after the grace period,
  is no exception. For the dispatcher's case `docs/visitor_identity_behavior_test.md:29`
  (only after more than 35 seconds on end may A be released) has no exception either: there
  the code releases early.
* `NoHardSwitch`: a confirmation may replace the primary visitor by the candidate on
  record; run `present_primary` shows it while the primary visitor is in the frame.
* `StateIsContinuous` and `WindowIsContinuous`: a turn that a cancelled one overlaps. In
  the chain of `StateIsContinuous` the snapshot of a reset is passed over unless a loop
  was loaded from it: the running loop goes on from the state before the reset.
* `HeardOnce`: a reply of which a delta was voiced and whose stream broke, or whose text
  was replaced as a whole, holds a short sentence that is joined otherwise than it was
  written, or begins with the first unit twice. In some of these the reply is still heard
  whole (nothing left to speak, say); in others `_strip_spoken_prefix`
  (`ce/interfaces/api_audio.py:478`) leaves nothing to speak and the rest is swallowed,
  although `docs/progress.md:864` has the final event speak what the deltas did not cover.
* `DeltasKeepTheLimits`: about the deltas only. The rest that the final event speaks has
  passed the filters on the whole text, and these only log a forbidden claim that is
  left (`ce/expression/expression_engine.py:818`): such a claim may be spoken, although
  `config/constitution.yaml:6` calls it a pattern that must never appear.
* `LeavingEndsTheSession`: a producer whose warning found nobody.
* `DecidedOnce`: proposals that two had read as pending at once.

Two runs show a disagreement of code and document:

| Run | The document says | The code |
|---|---|---|
| `shutdown_acknowledged` | `config/constitution.yaml`: a shutdown text is at least briefly acknowledged; hard constraints cannot be overridden by policy rules | only rules marked `constitution_check` are shown to the constitution, and `default` is not: the text is answered as any other |
| `present_primary` | `docs/progress.md:433`, `docs/visitor_identity_behavior_test.md:28`: while the primary track is alive, a high match of B is refused or an interruption and cannot replace A | `apply_identity_match` (`ce/identity/session_gating.py:538`) asks whether a dialogue runs, not whether A is in the frame, and offers B; `confirm_candidate` (line 616) binds B |

One more is in no property: the tracker drops a lost track after eight seconds or
`leave_seconds + 5` (`ce/vision/runtime.py:310`, 333) and gives whoever returns a new number;
the controller looks for the locked number only, goes on missing the visitor who stands
in front of it, and releases them at the end of the grace period, where
`docs/testlist.md:30` has A's session go on. The model has the behaviour.

## 4. Fairness

`FairHandoffSpec` adds weak fairness of `Serve`: what the runtime does by itself
once it has begun. The code justifies it: the event loop runs every ready task,
executor calls return (inference and LLM calls have timeouts; a call that hangs
for ever holds the lock for ever, which the model excludes), and the lock is first
in first out, so that one fairness condition on the whole of `Serve` serves the
head of the queue. Nothing is assumed of people, developers, the camera or the
clock.

The other conditions: `TurnPipeline` has one, on everything that the process does of
itself: some thread, the worker or the event loop goes on; LLM calls have timeouts;
which of them is first is left open. `SpeechInput`: a task that can go on does; a
read on a socket whose page has gone returns; nothing is assumed of a page that is
there. `ManagedMemory`: the worker's thread runs on; a blocked write fails when its
timeout has passed. `BodyMotion`: each coroutine, the reader and the robot's loop go
on; no outside event has to happen. `MoodPolicy` and `SpokenReply` claim no liveness.

## 5. Proofs

`VisitorGating_proofs` proves for all values of the constants:

* `TypeCorrect`: `Spec => []TypeOK`;
* `OffersAreConsistent`: `Spec => []PendingCandidate`;
* `TracksFollowVisitors`: `Spec => []TrackFollowsPrimary`;
* `PrimaryIsNeverSwitched`: `Spec => NoHardSwitch`.

Assumptions: the constants' assumptions in VisitorGating only. The argument is one
inductive invariant, `IInv == Sound(gate) /\ config \in Config`, where `Sound(s)`
is the type, `OfferConsistent(s)` and `TrackConsistent(s)` of a state `s`. The
type is what the other two rest on: they compare fields that a step writes with
fields it leaves alone, and the turn limit of an offer counts with numbers and
clocks. An offer stays within its limits because `before_turn` first drops one that
has run out and only then counts; it stays consistent with its diagnostics
because every method that rewrites these either closes the offer or opens it
anew. The lemmas `SameFieldsSound` (a step that leaves those fields alone) and
`NoOfferSound` (a step after which no offer is open) say so once, and the other
lemmas cite them.
`Sound` is a predicate on a record rather than on the variable because most methods
are operators from state to state: one lemma per operator says that it preserves
`Sound`, and the lemma per action cites them. `NoHardSwitch` is then a case split
over the actions: a match binds only when there is no primary visitor, a poll only
releases, and only whom it had locked, the selection and the session actions record an
event of their own, and a confirmation binds the candidate on record. That candidate
need not have been offered: a match that is refused during a dialogue leaves one
(`session_gating.py:501`), and `confirm_candidate` does not look. What is proved is that
it got there in one of these two ways (`OfferConsistent` has a candidate only with an
offer or a refusal), and that nothing but a confirmation, the developer or a new session
puts somebody else in a visitor's place; that a visitor in the frame stays is not true of
the code.

Its second half is about the controller under the real camera, for any people, track
numbers, limits, times and camera requests:

* `VisionTypeCorrect`: `PresenceSpec => []VisionTypeOK`;
* `CameraDrivesTheController`: `PresenceSpec => Spec`;
* `EventsAreTold`: `PresenceSpec => []EventsTellPresence`;
* `ReleasesAreDue`: `PresenceSpec => ReleaseIsDue`.

Assumptions: the constants' only; `VisionAssumption` has `max_missing_seconds` and the
two delays count within the clock, `SameTracksAssumption` has camera and controller
use the same numbers and clocks. `CameraDrivesTheController` is the refinement: a
`Report` made from the tracker's objects is one that `UpdatePrimaryPresence` expects,
and every other step of the composition is a method of the controller or leaves it
alone. So the four theorems above hold of the composition as well. The events need
`Stream`: what is popped, what is pending and what the worker has in its hand are,
one after the other, a `Course` from what was told to what the camera sees. A course
goes on with the events of the next frame (`CourseOfFrame`), and handing events over
only moves the borders between the three. The release needs `Followed`: numbers are
never given twice, a track the tracker dropped stays out of sight for longer than
`MissingTicks`, what the worker has in its hand is what the tracker keeps, and the
locked track is one the snapshot lists or one that was dropped. A poll that finds the
track listed copies the tracker's own time. A poll that does not compares the copy it
has, and the point is that the copy is not ahead of the tracker's: `Watched` says that it
is not, or that the track was matched since the last poll that found it. In that case the
tracker still keeps it and its age is at most `unpolled`, or `unpolled` has passed
`MissingTicks`; a track that is dropped is older than `MissingTicks`, so that only the
last is left (`TickWatched`, `PollWatched`, `TrackAges`). It is the exception of
`ReleaseIsDue`. TLC has checked `Stream`, `Followed` and `Watched` on the instance of
`presence`.

`SpeechInput_proofs` proves, for every page, any limit of the queue, any number of
frames and any order of the tasks:

* `SpeechTypeCorrect`: `Spec => []SpeechTypeOK`, the types and the limits of queues
  and sessions;
* `TranscriptionIsOrdered`: `Spec => FramesAreOrdered`, that is, the transcription
  implements `OrderedDelivery` with loss;
* `FramesAreHeardInOrder`: `Spec => [](\A c \in Pages : Delivery(c)!InOrder)`, what that
  buys: no frame reaches the recogniser twice or behind a later one. `OrderStep` is the
  argument: any step of `OrderedDelivery` keeps what is heard growing.

Assumptions: the
constants' only. Order is not inductive by itself: the queue sheds its oldest frame
while a newer one waits in the producer's hand. The
invariant therefore numbers the frames as they arrive and says of each page that the
numbers in its queue grow, that they lie between the last one fed and the last one
that arrived, that a frame still held is newer than all of them, and that a stop mark
means the producer is done; then every step is a step of `OrderedDelivery` or a
stutter.

`ManagedMemory_proofs` proves, for any drafts, direct orders and number of turns,
tasks, requests and restarts:

* `MarksAreEarned`: `Spec => []CommittedIsApplied`;
* `InfluenceIsThere`: `Spec => []InfluenceHasItsMemories`;
* `MemoryTypeCorrect`: `Spec => []MemoryTypeOK`;
* `ProposalsAreDecidedOnce`: `Spec => []DecidedOnce`;
* `RepliesAreCommittedAtOnce`: `Spec => []ReplyIsCommittedAtOnce`.

The first two are not inductive: both speak of the committed tables, while the writes go to a
transaction that another thread may commit and a failure may roll back. The
invariant says the same of the transaction's view (`Sound`), that the view has all
that the committed tables have (`Before`), so that it does not matter which of the
two survives, and, of each thread, that a proposal it is about to mark has its traces
on the thread's own connection (`JobOK`), and of the turn that what it recalled is on
its connection (`RecallInv`). One lemma each says what a write, a commit at once and
a commit of the shared connection do to every connection's view; the lemma of an
action shows what it writes and cites one of them. Only a failing worker and a restart
take something away, and no other thread has seen what they take, or it is gone with
them.

`DecidedOnce` counts entries of the committed log only, and is the harder one: between a
thread's read of what is pending and its mark, others commit. `OnceInv` is about a
proposal that no two have had in hand: it has at most one entry, and none once it is
rejected, in the committed tables and in the transaction (`Kept`); while it is pending
no committed entry is its own, and one in the transaction belongs to the thread that has
begun with it (`Open`); who has read it finds it pending in both; and the two threads do
not both have it. Two facts had to be added to get there: a thread carries out only what
it was given (`HoldInv`) and an entry names a proposal that exists (`LogInv`), or a new
proposal could be born with an entry. Where the code lets two have it (a developer's
route reads it while the worker does, or a turn commits the route's half of it), the
proposal is in `raced`, and nothing is claimed.

`ReplyIsCommittedAtOnce` compares proposals of one batch. `LeftAlone` says of one that
the developer has not handled that no transaction but the worker's differs from the
committed tables on it, and, if the worker has it, that the worker has its whole batch,
all of it pending in the committed tables, and that what is no longer to do is marked in
the worker's transaction, unless the operation names no memory. So the worker's commit
turns all of it at once, and everything else that ends a transaction leaves all of it as
it was (`TogetherInv`). That needs that the batches have distinct names (`BatchInv`) and
that the worker has the transaction only while it carries out (`HandsInv`). TLC has
checked these invariants on the instance of `managed_memory` and on one with a third
proposal.

`SessionHandoff_proofs` proves, for any visitors, tracks, limits and session numbers and
any length of the queue at `loop_lock`:

* `RunningLoopStays`: `HandoffSpec => []RunningLoopIsCurrent`;
* `RuntimeTypeCorrect`: `HandoffSpec => []HandoffTypes`, and `ControllerStaysSound`:
  the controller's `PendingCandidate` and `TrackFollowsPrimary` inside the runtime;
* `PromotionIsOfThisAbsence`: `HandoffSpec => PromotesThisAbsence`;
* `SessionsAreEnded`: `SessionsKept => (HandoffSpec => []OnlyLiveSessionsOpen)`;
* `HandoffSettles`: `Orderly => (HandoffSpec => []SettledAgreement)`.

A turn that is under way is the owner of the lock (`TurnHoldsLock`), and only an owner
changes a loop. The controller is sound because each section under the lock is put
together from methods of the controller that `VisitorGating_proofs` has shown to keep
`Sound`. For the rest every step is shown to be of one of eight kinds (`KindOfStep`),
which say what it does to the controller, to the sessions and to the dispatcher's
entries at the lock; every invariant is then proved once per kind and not once per
action. Of the queue only the set of its entries matters (`Entered`).
`SessionInv` keeps the temporary session apart from the current one and from every
session number that somebody who waits has read, so that a reload, which writes
back what it has read, cannot make it the current one. `AbsenceInv` says whose
absence the temporary session is of: while it is there and no archive is waiting,
a locked track is that person's, and so is a handoff that is waiting. `AgreeInv` says
that the four agree, or that the controller has released the runtime's visitor and
that visitor's handoff waits.

The hypotheses of the last two are those without which the code does not have the
property: `SessionsKept` excludes resets, reloads and a failing client, `Orderly` also
the identity API. TLC finds both properties violated when a hypothesis is dropped;
`PROJECT.json` lists these among the hazards. What no request can bring in is never
waiting (`NextWithout`), which is all that is used of them.

`TurnPipeline_proofs` proves, for any window, threshold, number of turns, faults,
cancellations, rebuilds and restarts:

* `PipelineTypeOK`: `Spec => []TurnTypeOK`;
* `MaintenanceHasItsLoop`: `Spec => []NoOrphanMaintenance`;
* `MarksAreSummarised`: `Spec => []ReflectedIsSummarised`;
* `StateGoesOn`: `Spec => []StateIsContinuous`;
* `WindowGoesOn`: `Spec => []WindowIsContinuous`.

One lemma per action says what it does (`XDoes`), `Moves` what all steps of a thread
have in common, and the invariants are layered, each proved with those before it:
the lock is held for a thread of this process and a loop owns its maintenance
(`OwnInv`), snapshots refer to snapshots that exist (`SnapsInv`), a thread that marks episodes marks those of the
summary it has written (`EpisodesInv`), and, as long as no cancelled turn overlaps
another, that there is one running thread, in the current loop (`AloneInv`), that the
newest snapshot but for those of unread resets is what the loop and the thread hold, as
far as they hold one (`ChainInv`; a rebuild or restart reads the newest of all, reset or
not, and the chain goes on from there), and that short-term memory follows the log (`WindowInv`). The last is
the hard one: a turn that fails has put words into the window that the log will never
have. `Follows` says that behind the last such gap the window ends like the log, plus
the words of the turn under way, and that it may be shorter than the window size only
while a gap is in it; `HydrateIsKeep` says that a restart, which reads a window of rows,
finds the same as one who had kept the whole dialogue.

`SpokenReply_proofs` proves `SpokenReplyDelivers`: the progressive stream implements
`OrderedDelivery` without loss, whatever sentences, limits, retries and failures. Texts
play no part in it: what is heard is an initial part of what is posted, that of what is
said; the end of the thread is seen only after all that it posted; and the handler
completes the stream only after the end. `ReplyIsHeard` states what `OrderedDelivery`
promises of such a stream, `Spec => [](Delivery!InOrder /\ Delivery!NothingSkipped)`: the
page hears what was said in order and without gaps, and all of it once the stream is
complete.

Two more of its theorems are about the texts, for any sentences, whole texts,
languages and limits, and any number of deltas and retries:

* `DeltasAreLimited`: `Spec => []DeltasKeepTheLimits`;
* `ReplyIsHeardOnce`: `Spec => []HeardOnce`.

Assumptions: `SpokenAssumption`, that the sentence limit is a positive number, and
`WholesAssumption`, that a text returned as a whole is a finite sequence of sentences.
Neither needs induction over the texts. A sentence is the place where it ends, so that
counting is `Cardinality` of a set of places, and a text with more sentences than `n`
has a place where exactly `n` have ended: the least place where at least `n` have
(`PlaceOfSentence`). For the first theorem `LimitInv` says that the buffers count what
has been said, whichever transport fills them, and hold nothing back that must not be
said; the rest of the final event is not their subject. For the second, `TellsInv` names what the deltas have told after each event,
one text per event, each the one before it with the event's text (`Chain`), which takes the
place of a recursion. What was told last, the held piece and the begun sentence
are together what the filters leave of the text read so far, as long as nothing has
stopped the stream (`Held`); once something has, what was told is still the beginning of
that (`Keeps`). The conjuncts about the beginning of a text are there for one case: a reply
cut off at the token limit may be foreign as a whole where the uncut one was not, and is
then replaced, which is harmless because nothing of it has been told (`TrimmedIsNative`).
`EmitKeeps` shows that each sentence keeps this, whether it is refused, held, cut short
or said; `EndKeeps` that the filters on the whole text keep the beginning
that was told; `RestCompletes` that what the final event speaks is the rest. Joining is
of no account as long as there is no `gap`: then `Join` is concatenation (`Even` leaves
the text as it is). Where no delta was voiced the rest is the whole reply, whatever
became of the stream or of the text, so that the exceptions of `HeardOnce` need hold of
voiced deltas only. The proof does not say that in each excepted case something is lost. TLC has checked the
invariant on the instance of `spoken_reply`.

`MoodPolicy_proofs` proves, for any texts, whatever the detectors find in them, any
number of matching memories and any number of turns, events and visits:

* `MoodTypeCorrect`: `Spec => []MoodTypeOK`;
* `PressureEndsInSilence`: `Spec => []ExtremePressureIsSilent`;
* `DemandsMeetRefusal`: `Spec => []DemandsAreRefused`.

Assumptions: `MoodAssumption`, and `StartsAssumption`, that a visitor begins with levels
within their limits, as every stored snapshot is. What the events of a turn add up to is
a fold over data and remains unknown; it need not be known, since the decay that follows
clamps every level, and what comes after it (depth, memories) clamps what it changes. The
other two are about the order of nineteen rules. The selector's choice is the least index
of those that fit, the last rule always fits, and a rule near the top fits whenever
the property's condition holds, which leaves only its predecessors. The constitution can
take a refusal back, and does so above 85 % confusion; then the second rule fits. The
types are needed for that step: "above" implies "at least" of numbers only.

`BodyMotion_proofs` proves, for any moods, tests, commands, length of the wire and
number of outside events:

* `BodyTypeCorrect`: `Spec => []BodyTypeOK`;
* `SequencesStop`: `Spec => []StoppedAfterSequence`;
* `MotionsTakeTurns`: `Spec => OneMotionAtATime`;
* `DisarmedIsDisarmed`: `Spec => []DisarmedViewIsTrue`.

Assumptions: `BodyAssumption` only, which also says that a test names an intent that has
a profile and that the command route sends commands of the protocol; `execute_test` and
`protocol.py` refuse anything else. `Base` ties each coroutine's place in its own code to
the two locks: whoever is past its preflight owns the controller's lock, whoever waits
for a write is in the write lock's queue once, only the head of that queue has written,
and what it wrote is what its place calls for. A sequence that has written its stop has
no pulse left, and a motion starts only where nobody owns the lock. For the fourth,
`Arms` looks at what is under way. While the port works and the robot, after the lines
it has still to read, would be armed, either the last report that speaks of the arming
says so or no report does and the store does not believe "disarmed"; and a stop whose
writer has not resumed is followed by no arm command, so that taking it for done is
right. Between `Opened` and the write of its stop none of this is claimed (`Informed`):
the robot may have been armed by somebody else, and that stop is what makes it true again.
TLC has checked `Base` and `Arms` on the instance of `body_motion`.

Only model-checked: of
SessionHandoff that a session number is always left (`Unused # {}` in `HandoffTypeOK`,
a matter of how many numbers the instance has).
Liveness is out of the prover's reach and stays with TLC.

## 6. Not modelled, and why

* Bounding boxes and identity swaps of the tracker: geometry. `Assigns` assumes
  what the match score is for.
* `stop()` giving up its join after two seconds; two interleaved tracker updates;
  which session a restart of the process resumes.
* The firmware beyond the serial line: filtering, line following, roaming, timers
  modulo 2^w.
* The registry of TTS streams and voices; the provider's wire formats.
* Public sessions: a second host around the same turn.
* Face recognition: thresholds on embeddings; every result it may give is an input.
* Texts, prompts, ranking, logging, dashboards, metadata of visitors.

## 7. Plan

1. *(done)* VisitorGating, its proofs; SessionHandoff; VisionRuntime,
   VisitorPresence.
2. *(done)* BodyMotion; MoodPolicy; TurnPipeline; OrderedDelivery with SpokenReply and
   SpeechInput; ManagedMemory.
3. *(done)* Proofs about SpeechInput, SpokenReply, ManagedMemory, TurnPipeline,
   SessionHandoff, MoodPolicy, BodyMotion and VisitorPresence with VisionRuntime.
4. `MotorSafety` (firmware): arming, pulses and deadlines modulo 2^w; a proof target.
5. `PublicSessions`: lifetime and cleanup against running turns.
6. `VisitorWindow`, the abstract specification of VisitorGating: windows, each of
   one visitor or of nobody.
