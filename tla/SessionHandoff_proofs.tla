------------------------ MODULE SessionHandoff_proofs ------------------------
(***************************************************************************)
(* Proofs about SessionHandoff, in five parts.                             *)
(*                                                                         *)
(* 1. TurnInv.  A turn that is under way has loop_lock, so nobody who      *)
(*    changes the session or the loop runs (RunningLoopStays).             *)
(* 2. HandoffInv.  The controller's own invariant, Sound of                *)
(*    VisitorGating_proofs, and the types of the rest: no section under    *)
(*    the lock leads out of them, whichever methods of the controller it   *)
(*    combines (RuntimeTypeCorrect, ControllerStaysSound).                 *)
(* 3. RuntimeInv.  Every step is of one of eight kinds (KindOfStep), which *)
(*    say what it does to the controller, to the session, to the           *)
(*    temporary session and to the dispatcher's entries at the lock.       *)
(*    Each keeps SessionInv, that the temporary session is kept apart      *)
(*    from the current one, and AbsenceInv, that it is of the absence      *)
(*    that the next handoff ends (PromotionIsOfThisAbsence).               *)
(* 4. Which sessions are open (SessionsAreEnded).                          *)
(* 5. AgreeInv.  Controller, runtime, loop and database agree, or the      *)
(*    handoff that restores the agreement is under way (HandoffSettles).   *)
(*                                                                         *)
(* What the queue of the lock holds is used only as the set Entered: part  *)
(* 3 begins with what entering, keeping and leaving the lock do to it.     *)
(*                                                                         *)
(* Parts 4 and 5 name the requests they are about.  Without these          *)
(* hypotheses their properties do not hold of the code: sessions_reset and *)
(* config_reload act on a session they read before they had the lock, the  *)
(* identity API changes the controller before the runtime, and a           *)
(* misconfigured LLM client fails between two assignments.                 *)
(***************************************************************************)
EXTENDS SessionHandoff, VisitorGating_proofs

-----------------------------------------------------------------------------
(* The lock.                                                                *)

LEMMA EntryIs ==
  ASSUME NEW t, NEW s, NEW v
  PROVE  /\ Entry(t, s, v).task = t
         /\ Entry(t, s, v).session = s
         /\ Entry(t, s, v).who = v
         /\ t # "free" => Entry(t, s, v) # Free
  BY DEF Entry, Free

\* While a turn is under way nobody else runs.
LEMMA NobodyElseRuns ==
  ASSUME lock = TurnEntry, turn.pc # "idle"
  PROVE  lock # Free /\ lock.task = "turn" /\ \A e : ~Runs(e)
  <1>1. lock # Free /\ lock.task = "turn"
    BY EntryIs DEF TurnEntry
  <1>2. Yielded
    BY <1>1 DEF Yielded
  <1>3. QED
    BY <1>1, <1>2 DEF Runs

\* Whoever asks for a lock that is held leaves it where it is.
LEMMA EnterKeepsHolder ==
  ASSUME NEW e, Enter(e), lock # Free
  PROVE  lock' = lock
  BY DEF Enter

-----------------------------------------------------------------------------
(* A turn keeps its loop.                                                   *)

\* A turn that is under way has the lock.
TurnHoldsLock == turn.pc # "idle" => lock = TurnEntry

TurnInv == TurnHoldsLock /\ RunningLoopIsCurrent

\* Nothing that a turn looks at changes.
TurnIsLeftAlone == UNCHANGED << app, turn, lock >>

LEMMA LeftAloneKeepsTurnInv ==
  ASSUME TurnInv, TurnIsLeftAlone
  PROVE  TurnInv'
  BY DEF TurnInv, TurnIsLeftAlone, TurnHoldsLock, RunningLoopIsCurrent, TurnEntry

\* Without a turn under way, none is afterwards unless the step begins it.
LEMMA NoTurnKeepsTurnInv ==
  ASSUME turn'.pc = "idle"
  PROVE  TurnInv'
  BY DEF TurnInv, TurnHoldsLock, RunningLoopIsCurrent

LEMMA RunOnIs ==
  ASSUME NEW loop, NEW grace, RunOn(loop, grace)
  PROVE  turn'.pc = "run" /\ turn'.loop = loop
  BY DEF RunOn

\* No step of the environment touches a turn.
LEMMA ArrivalsLeaveTurn ==
  ASSUME Happens
  PROVE  UNCHANGED << app, turn >>
  BY DEF Happens, TurnArrives, SelectArrives, CreateArrives, ResetArrives, ReloadArrives,
         RequestArrives, MatchRequest, ConfirmRequest, ConfigRequest, EventArrives, Poll,
         TimePasses, appVars

\* Nor the lock, while a turn is under way.
LEMMA ArrivalsLeaveTurnAlone ==
  ASSUME Happens, lock # Free
  PROVE  UNCHANGED << app, turn, lock >>
  <1>1. \A e : Enter(e) => lock' = lock
    BY EnterKeepsHolder
  <1>2. ASSUME UNCHANGED appVars PROVE app' = app
    BY <1>2 DEF appVars
  <1>3. ASSUME UNCHANGED lockVars PROVE lock' = lock
    BY <1>3 DEF lockVars
  <1>4. CASE TurnArrives
    BY <1>1, <1>2, <1>4 DEF TurnArrives
  <1>5. ASSUME NEW k, NEW e, RequestArrives(k, e) PROVE UNCHANGED << app, turn, lock >>
    BY <1>1, <1>2, <1>5 DEF RequestArrives
  <1>6. CASE SelectArrives \/ CreateArrives \/ ResetArrives \/ ReloadArrives
    BY <1>5, <1>6 DEF SelectArrives, CreateArrives, ResetArrives, ReloadArrives
  <1>7. ASSUME BindIfBound PROVE lock' = lock
    BY <1>1, <1>3, <1>7 DEF BindIfBound
  <1>8. ASSUME NEW m \in Matches, MatchRequest(m) PROVE UNCHANGED << app, turn, lock >>
    BY <1>2, <1>7, <1>8 DEF MatchRequest
  <1>9. ASSUME NEW a \in BOOLEAN, ConfirmRequest(a) PROVE UNCHANGED << app, turn, lock >>
    BY <1>2, <1>7, <1>9 DEF ConfirmRequest
  <1>10. ASSUME NEW a \in BOOLEAN, NEW h \in BOOLEAN, NEW d \in Graces, ConfigRequest(a, h, d)
         PROVE  UNCHANGED << app, turn, lock >>
    BY <1>2, <1>3, <1>10 DEF ConfigRequest
  <1>11. ASSUME NEW e \in SystemEvents, EventArrives(e) PROVE UNCHANGED << app, turn, lock >>
    BY <1>1, <1>2, <1>11 DEF EventArrives
  <1>12. ASSUME NEW r \in Reports, Poll(r) PROVE UNCHANGED << app, turn, lock >>
    <2>1. app' = app /\ turn' = turn
      BY <1>12 DEF Poll
    <2>2. (\E e : Enter(e)) \/ UNCHANGED lockVars
      BY <1>12 DEF Poll
    <2>3. QED
      BY <1>1, <1>3, <2>1, <2>2
  <1>13. CASE TimePasses
    BY <1>2, <1>3, <1>13 DEF TimePasses
  <1>14. QED
    BY <1>4, <1>6, <1>8, <1>9, <1>10, <1>11, <1>12, <1>13 DEF Happens

\* What the runtime does of itself while a turn is under way: the turn's own steps.
LEMMA ServeDuringTurn ==
  ASSUME TurnInv, turn.pc # "idle", Serve
  PROVE  TurnInv'
  <1>1. lock = TurnEntry /\ lock # Free /\ lock.task = "turn" /\ \A e : ~Runs(e)
    BY NobodyElseRuns DEF TurnInv, TurnHoldsLock
  <1>2. CASE TurnCaptured
    <2>1. turn'.pc = "run" /\ turn'.loop = app'.loop
      BY <1>2, RunOnIs DEF TurnCaptured
    <2>2. lock' = TurnEntry
      BY <1>1, <1>2 DEF TurnCaptured, lockVars
    <2>3. QED
      BY <2>1, <2>2 DEF TurnInv, TurnHoldsLock, RunningLoopIsCurrent, TurnEntry
  <1>3. CASE TurnDone
    BY <1>3, NoTurnKeepsTurnInv DEF TurnDone, NoTurn
  <1>4. CASE CaptureMatched
    <2>1. app' = app /\ turn' = turn /\ lock' = lock
      BY <1>1, <1>4, EnterKeepsHolder DEF CaptureMatched, appVars
    <2>2. QED
      BY <2>1, LeftAloneKeepsTurnInv DEF TurnIsLeftAlone
  <1>5. ~EventStarts /\ ~EventDone /\ ~CaptureApplies /\ ~Archive /\ ~TurnBindFails
    BY <1>1 DEF EventStarts, EventDone, CaptureApplies, Archive, TurnBindFails
  <1>6. \A a, i : ~TurnContinues(a, i) /\ ~TurnInGrace(a, i) /\ ~TurnInGraceFails(a, i) /\ ~TurnBinds(i)
    BY <1>1 DEF TurnContinues, TurnInGrace, TurnInGraceFails, TurnBinds
  <1>7. \A v : ~Handoff(v) /\ ~HandoffLeftOut(v) /\ ~BindFromIdentity(v) /\ ~Create(v) /\ ~Select(v)
    BY <1>1 DEF Handoff, HandoffLeftOut, BindFromIdentity, Create, Select
  <1>8. \A s, v : ~Reset(s, v) /\ ~Reload(s)
    BY <1>1 DEF Reset, Reload
  <1>9. QED
    BY <1>2, <1>3, <1>4, <1>5, <1>6, <1>7, <1>8 DEF Serve

\* How a turn begins: it has the lock, and its loop is a current one.
LEMMA TurnBegins ==
  ASSUME Keep(TurnEntry), Proceed
  PROVE  TurnInv'
  <1>1. lock' = TurnEntry
    BY DEF Keep
  <1>2. CASE turn' = [NoTurn EXCEPT !.pc = "capture"]
    <2>1. turn'.pc = "capture"
      BY <1>2 DEF NoTurn
    <2>2. QED
      BY <1>1, <2>1 DEF TurnInv, TurnHoldsLock, RunningLoopIsCurrent, TurnEntry
  <1>3. CASE RunOn(app'.loop, FALSE)
    <2>1. turn'.pc = "run" /\ turn'.loop = app'.loop
      BY <1>3, RunOnIs
    <2>2. QED
      BY <1>1, <2>1 DEF TurnInv, TurnHoldsLock, RunningLoopIsCurrent, TurnEntry
  <1>4. QED
    BY <1>2, <1>3 DEF Proceed

LEMMA GraceTurnBegins ==
  ASSUME NEW a \in Answers, NEW i \in BOOLEAN, TurnInGrace(a, i)
  PROVE  TurnInv'
  <1>1. lock' = TurnEntry
    BY DEF TurnInGrace, Keep
  <1>2. turn'.pc = "run" /\ turn'.loop = app'.grace
    <2>1. CASE RunOn(app.grace, TRUE) /\ app' = app
      BY <2>1, RunOnIs
    <2>2. CASE RunOn(app'.grace, TRUE)
      BY <2>2, RunOnIs
    <2>3. QED
      BY <2>1, <2>2 DEF TurnInGrace
  <1>3. QED
    BY <1>1, <1>2 DEF TurnInv, TurnHoldsLock, RunningLoopIsCurrent, TurnEntry

\* What the runtime does of itself when no turn is under way.
LEMMA ServeWithoutTurn ==
  ASSUME turn.pc = "idle", Serve
  PROVE  TurnInv'
  <1>1. ASSUME turn' = turn PROVE TurnInv'
    BY <1>1, NoTurnKeepsTurnInv
  <1>2. ASSUME NEW a \in Answers, NEW i \in BOOLEAN, TurnContinues(a, i) PROVE TurnInv'
    BY <1>2, TurnBegins DEF TurnContinues
  <1>3. ASSUME NEW i \in BOOLEAN, TurnBinds(i) PROVE TurnInv'
    BY <1>3, TurnBegins DEF TurnBinds
  <1>4. CASE TurnBindFails
    BY <1>4, TurnBegins DEF TurnBindFails
  <1>5. ASSUME NEW a \in Answers, NEW i \in BOOLEAN, TurnInGraceFails(a, i) PROVE TurnInv'
    BY <1>1, <1>5 DEF TurnInGraceFails
  <1>6. CASE TurnCaptured
    BY <1>6 DEF TurnCaptured
  <1>7. CASE TurnDone
    BY <1>7 DEF TurnDone
  <1>8. CASE CaptureMatched \/ CaptureApplies \/ EventStarts \/ EventDone \/ Archive
    BY <1>1, <1>8 DEF CaptureMatched, CaptureApplies, EventStarts, EventDone, Archive
  <1>9. ASSUME NEW v, Handoff(v) \/ HandoffLeftOut(v) \/ BindFromIdentity(v) \/ Create(v) \/ Select(v)
        PROVE  TurnInv'
    BY <1>1, <1>9 DEF Handoff, HandoffLeftOut, BindFromIdentity, Create, Select
  <1>10. ASSUME NEW s, NEW v, Reset(s, v) \/ Reload(s) PROVE TurnInv'
    BY <1>1, <1>10 DEF Reset, Reload
  <1>11. QED
    BY <1>2, <1>3, <1>4, <1>5, <1>6, <1>7, <1>8, <1>9, <1>10, GraceTurnBegins DEF Serve

LEMMA NextKeepsTurnInv == TurnInv /\ [HandoffNext]_vars => TurnInv'
  <1> SUFFICES ASSUME TurnInv, [HandoffNext]_vars PROVE TurnInv'
    OBVIOUS
  <1>1. CASE UNCHANGED vars
    BY <1>1, LeftAloneKeepsTurnInv DEF vars, TurnIsLeftAlone
  <1>2. CASE Happens
    <2>1. CASE turn.pc = "idle"
      <3>1. turn' = turn
        BY <1>2, ArrivalsLeaveTurn
      <3>2. QED
        BY <2>1, <3>1, NoTurnKeepsTurnInv
    <2>2. CASE turn.pc # "idle"
      <3>1. lock # Free
        BY <2>2, NobodyElseRuns DEF TurnInv, TurnHoldsLock
      <3>2. QED
        BY <1>2, <3>1, ArrivalsLeaveTurnAlone, LeftAloneKeepsTurnInv DEF TurnIsLeftAlone
    <2>3. QED
      BY <2>1, <2>2
  <1>3. CASE Serve
    BY <1>3, ServeDuringTurn, ServeWithoutTurn
  <1>4. QED
    BY <1>1, <1>2, <1>3 DEF HandoffNext

\* The loop that runs a turn is the current or the temporary one until the turn is over,
\* under any requests and with a failing LLM client: nobody rebuilds a loop that is
\* running (_run_dialog_turn holds loop_lock across the executor call).
THEOREM RunningLoopStays == HandoffSpec => []RunningLoopIsCurrent
  <1>1. HandoffInit => TurnInv
    BY DEF HandoffInit, TurnInv, TurnHoldsLock, RunningLoopIsCurrent, NoTurn
  <1>2. TurnInv => RunningLoopIsCurrent
    BY DEF TurnInv
  <1>3. QED
    BY <1>1, <1>2, NextKeepsTurnInv, PTL DEF HandoffSpec

-----------------------------------------------------------------------------
(* Types, and the controller's own invariant inside the runtime.            *)

\* There is no temporary session, or it has a number and belongs to nobody.
Temporary == {NoLoop} \union [session: Sessions, scope: {None}]

AppTypes == [session: Sessions, visitor: Persons, loop: Loops, grace: Temporary]
RowTypes == [Sessions -> [visitor: Persons, open: BOOLEAN]]

GateOK == Sound(gate) /\ config \in Config
AppOK  == app \in AppTypes /\ rows \in RowTypes /\ profiles \subseteq Visitors /\ absentee \in Persons
LockOK == lock \in Entries \union {Free} /\ queue \in Seq(Entries)
TurnOK == /\ turn \in [pc: {"idle", "capture", "run"}, loop: Loops, grace: BOOLEAN]
          /\ capturing \in BOOLEAN

HandoffInv == GateOK /\ AppOK /\ LockOK /\ TurnOK

LEMMA SessionNumbers ==
  /\ Sessions \subseteq Nat
  /\ 0 \in Sessions
  /\ NoSession \notin Sessions
  BY AgeAssumption DEF Sessions, NoSession

LEMMA EntryType ==
  ASSUME NEW t \in Tasks, NEW s \in Sessions \union {NoSession}, NEW v \in Persons
  PROVE  Entry(t, s, v) \in Entries
  BY DEF Entry, Entries

LEMMA NamedEntries == {TurnEntry, CaptureEntry, ArchiveEntry} \subseteq Entries
  <1>1. {"turn", "capture", "archive"} \subseteq Tasks /\ None \in Persons
    BY DEF Tasks, Persons
  <1>2. QED
    BY <1>1, EntryType DEF TurnEntry, CaptureEntry, ArchiveEntry

LEMMA EnterType ==
  ASSUME LockOK, NEW e \in Entries, Enter(e)
  PROVE  LockOK'
  BY DEF LockOK, Enter

LEMMA LeaveType ==
  ASSUME LockOK, Leave, lock # Free \/ queue # << >>
  PROVE  LockOK'
  BY DEF LockOK, Leave, Waiting

LEMMA RunsLeaves ==
  ASSUME LockOK, NEW e, Runs(e), Leave
  PROVE  LockOK'
  BY LeaveType DEF Runs

LEMMA RunsKeeps ==
  ASSUME LockOK, NEW e \in Entries, Runs(e), Keep(e)
  PROVE  LockOK'
  BY DEF LockOK, Keep, Waiting, Runs

LEMMA GateFieldTypes ==
  ASSUME NEW s, Sound(s)
  PROVE  s.primary \in Persons /\ s.candidate \in Persons /\ s.session \in Nat
  BY DEF Sound, Gate, Persons

\* Profiles are those of visitors, whoever gets one.
LEMMA RecordsType ==
  ASSUME profiles \subseteq Visitors, NEW v \in Persons, Records(v)
  PROVE  profiles' \subseteq Visitors
  BY DEF Records, Persons

LEMMA RecordsNamedType ==
  ASSUME profiles \subseteq Visitors, Sound(gate), Sound(gate'), RecordsNamed
  PROVE  profiles' \subseteq Visitors
  <1> DEFINE v == IF gate'.primary # None THEN gate'.primary ELSE gate.candidate
  <1>1. v \in Persons
    BY GateFieldTypes
  <1>2. Records(v)
    BY DEF RecordsNamed
  <1> HIDE DEF v
  <1>3. QED
    BY <1>1, <1>2, RecordsType

LEMMA RecordsAnswerType ==
  ASSUME AppOK, GateOK, GateOK', NEW a \in Answers, RecordsAnswer(a)
  PROVE  profiles' \subseteq Visitors
  BY RecordsNamedType DEF RecordsAnswer, AppOK, GateOK

LEMMA TemporaryLoops == Temporary \subseteq Loops
  BY DEF Temporary, Loops, NoLoop, Persons

LEMMA AppFieldTypes ==
  ASSUME AppOK
  PROVE  /\ app.session \in Sessions /\ app.visitor \in Persons
         /\ app.loop \in Loops /\ app.grace \in Loops
         /\ app.loop.session \in Sessions \union {NoSession} /\ app.loop.scope \in Persons
         /\ app.grace.session \in Sessions \union {NoSession}
         /\ app.grace # NoLoop => app.grace.session \in Sessions
  <1>1. app.grace \in Temporary /\ app.session \in Sessions /\ app.visitor \in Persons
        /\ app.loop \in Loops
    BY DEF AppOK, AppTypes
  <1>2. Temporary \subseteq Loops
    BY TemporaryLoops
  <1>3. app.grace # NoLoop => app.grace.session \in Sessions
    BY <1>1 DEF Temporary
  <1>4. QED
    BY <1>1, <1>2, <1>3 DEF Loops

LEMMA NoLoopType == NoLoop \in Loops /\ None \in Persons
  BY DEF NoLoop, Loops, Persons

\* The row of one session is changed.
LEMMA RowVisitorType ==
  ASSUME NEW table \in RowTypes, NEW s \in Sessions, NEW v \in Persons
  PROVE  /\ [table EXCEPT ![s].visitor = v] \in RowTypes
         /\ [table EXCEPT ![s] = [visitor |-> v, open |-> TRUE]] \in RowTypes
         /\ [table EXCEPT ![s].open = FALSE] \in RowTypes
  BY DEF RowTypes

LEMMA EndAndBeginType ==
  ASSUME NEW table \in RowTypes, NEW old \in Sessions, NEW s \in Sessions, NEW v \in Persons
  PROVE  [table EXCEPT ![old].open = FALSE, ![s] = [visitor |-> v, open |-> TRUE]] \in RowTypes
  <1> DEFINE ended == [table EXCEPT ![old].open = FALSE]
  <1>1. ended \in RowTypes
    BY RowVisitorType
  <1>2. [ended EXCEPT ![s] = [visitor |-> v, open |-> TRUE]] \in RowTypes
    BY <1>1, RowVisitorType
  <1>3. QED
    BY <1>2

LEMMA LoopOfType ==
  ASSUME NEW table \in RowTypes, NEW s \in Sessions, NEW v \in Persons
  PROVE  LoopOf(s, v, table) \in Loops
  BY DEF RowTypes, LoopOf, Loops

LEMMA CurrentType ==
  ASSUME AppOK, NEW s \in Sessions, NEW v \in Persons, NEW table \in RowTypes,
         Current(s, v, table)
  PROVE  app' \in AppTypes /\ rows' \in RowTypes
  <1>1. LoopOf(s, v, table) \in Loops
    BY LoopOfType
  <1> DEFINE l == LoopOf(s, v, table)
  <1> HIDE DEF l
  <1>2. app' = [app EXCEPT !.session = s, !.visitor = v, !.loop = l]
    BY DEF Current, l
  <1>3. app' \in AppTypes
    BY <1>1, <1>2 DEF AppOK, AppTypes, l
  <1>4. QED
    BY <1>3 DEF Current

LEMMA BindSessionType ==
  ASSUME AppOK, NEW v \in Persons, BindSession(v)
  PROVE  app' \in AppTypes /\ rows' \in RowTypes
  <1>1. app.session \in Sessions /\ rows \in RowTypes
    BY AppFieldTypes DEF AppOK
  <1>2. [rows EXCEPT ![app.session].visitor = v] \in RowTypes
    BY <1>1, RowVisitorType
  <1>3. QED
    BY <1>1, <1>2, CurrentType DEF BindSession

\* The controller's state after a turn has entered.
LEMMA EnterWithSound ==
  ASSUME NEW a \in Answers, NEW i \in BOOLEAN, Sound(gate)
  PROVE  Sound(EnterWith(a, i))
  <1> DEFINE e == ExpireCandidate(gate)
             n == IF Offered /\ a # "unclear" THEN ConfirmCandidate(e, a = "accepted") ELSE e
  <1>1. Sound(e)
    BY ExpireCandidateSound
  <1>2. (a = "accepted") \in BOOLEAN
    OBVIOUS
  <1> HIDE DEF e
  <1>3. Sound(ConfirmCandidate(e, a = "accepted"))
    BY <1>1, <1>2, ConfirmCandidateSound
  <1>4. Sound(n)
    BY <1>1, <1>3
  <1> HIDE DEF n
  <1>5. Sound(BeforeTurn(n, i))
    BY <1>4, BeforeTurnSound
  <1>6. EnterWith(a, i) = BeforeTurn(n, i)
    BY DEF EnterWith, n, e
  <1>7. QED
    BY <1>5, <1>6

\* What a face capture may do.
LEMMA FaceCaptureType ==
  ASSUME GateOK, AppOK, ApplyFaceCapture
  PROVE  GateOK' /\ AppOK'
  <1>1. CASE UNCHANGED << gate, config, app, rows, profiles >> /\ UNCHANGED absentee
    BY <1>1 DEF GateOK, AppOK
  <1>2. CASE Provision /\ UNCHANGED absentee
    <2>1. PICK v \in Visitors \ profiles : /\ profiles' = profiles \union {v}
                                           /\ BindSession(v)
                                           /\ gate' = SetPrimaryVisitor(gate, v)
                                           /\ UNCHANGED config
      BY <1>2 DEF Provision
    <2>2. v \in Persons
      BY DEF Persons
    <2>3. app' \in AppTypes /\ rows' \in RowTypes
      BY <2>1, <2>2, BindSessionType
    <2>4. Sound(gate')
      BY <2>1, SetPrimarySound DEF GateOK
    <2>5. QED
      BY <1>2, <2>1, <2>3, <2>4 DEF GateOK, AppOK
  <1>3. CASE ProvisionFails /\ UNCHANGED absentee
    BY <1>3 DEF ProvisionFails, GateOK, AppOK
  <1>4. CASE AskKnownFace /\ UNCHANGED absentee
    <2>1. PICK v \in profiles, l \in {"medium", "high"} :
             ApplyIdentityMatch([who |-> v, level |-> l, ask |-> TRUE])
      BY <1>4 DEF AskKnownFace
    <2>2. [who |-> v, level |-> l, ask |-> TRUE] \in Matches
      BY DEF AppOK, Matches, Levels
    <2>3. Sound(gate')
      BY <2>1, <2>2, ApplyIdentityMatchSound DEF GateOK
    <2>4. config' = config
      BY <2>1 DEF ApplyIdentityMatch
    <2>5. QED
      BY <1>4, <2>3, <2>4 DEF AskKnownFace, GateOK, AppOK
  <1>5. QED
    BY <1>1, <1>2, <1>3, <1>4 DEF ApplyFaceCapture

LEMMA RunOnType ==
  ASSUME NEW l \in Loops, NEW g \in BOOLEAN, RunOn(l, g)
  PROVE  turn' \in [pc: {"idle", "capture", "run"}, loop: Loops, grace: BOOLEAN]
  BY DEF RunOn

LEMMA ProceedType ==
  ASSUME app' \in AppTypes, Proceed, capturing' \in BOOLEAN
  PROVE  TurnOK'
  <1>1. app'.loop \in Loops
    BY DEF AppTypes
  <1>2. CASE turn' = [NoTurn EXCEPT !.pc = "capture"]
    <2>1. turn' = [pc |-> "capture", loop |-> NoLoop, grace |-> FALSE]
      BY <1>2 DEF NoTurn
    <2>2. QED
      BY <2>1, NoLoopType DEF TurnOK
  <1>3. CASE RunOn(app'.loop, FALSE)
    BY <1>1, <1>3, RunOnType DEF TurnOK
  <1>4. QED
    BY <1>2, <1>3 DEF Proceed

\* The steps of a turn.
LEMMA TurnStepTypes ==
  ASSUME HandoffInv, NEW a \in Answers, NEW i \in BOOLEAN,
         \/ TurnContinues(a, i) \/ TurnBinds(i) \/ TurnBindFails
  PROVE  HandoffInv'
  <1>1. Runs(TurnEntry) /\ Keep(TurnEntry) /\ Proceed
    BY DEF TurnContinues, TurnBinds, TurnBindFails
  <1>2. LockOK'
    BY <1>1, RunsKeeps, NamedEntries DEF HandoffInv
  <1>3. capturing' \in BOOLEAN
    BY DEF TurnContinues, TurnBinds, TurnBindFails, HandoffInv, TurnOK
  <1>4. CASE TurnContinues(a, i)
    <2>1. GateOK'
      BY <1>4, EnterWithSound DEF TurnContinues, HandoffInv, GateOK
    <2>2. AppOK'
      BY <1>4, <2>1, RecordsAnswerType DEF TurnContinues, HandoffInv, AppOK
    <2>3. QED
      BY <1>1, <1>2, <1>3, <2>1, <2>2, ProceedType DEF HandoffInv, AppOK
  <1>5. CASE TurnBinds(i)
    <2>1. "accepted" \in Answers
      BY DEF Answers
    <2>2. gate' = EnterWith("accepted", i) /\ BindSession(gate'.primary)
          /\ UNCHANGED << config, absentee >> /\ RecordsNamed
      BY <1>5 DEF TurnBinds
    <2>3. Sound(gate')
      BY <2>1, <2>2, EnterWithSound DEF HandoffInv, GateOK
    <2>4. gate'.primary \in Persons
      BY <2>3, GateFieldTypes
    <2>5. app' \in AppTypes /\ rows' \in RowTypes
      BY <2>2, <2>4, BindSessionType DEF HandoffInv
    <2>6. GateOK' /\ AppOK'
      BY <2>2, <2>3, <2>5, RecordsNamedType DEF HandoffInv, GateOK, AppOK
    <2>7. QED
      BY <1>1, <1>2, <1>3, <2>5, <2>6, ProceedType DEF HandoffInv
  <1>6. CASE TurnBindFails
    <2>1. Sound(ExpireCandidate(gate))
      BY ExpireCandidateSound DEF HandoffInv, GateOK
    <2>2. Sound(ConfirmCandidate(ExpireCandidate(gate), TRUE))
      BY <2>1, ConfirmCandidateSound
    <2>3. GateOK'
      BY <1>6, <2>2 DEF TurnBindFails, HandoffInv, GateOK
    <2>4. AppOK'
      BY <1>6, <2>3, RecordsNamedType DEF TurnBindFails, HandoffInv, GateOK, AppOK
    <2>5. QED
      BY <1>1, <1>2, <1>3, <2>3, <2>4, ProceedType DEF HandoffInv, AppOK
  <1>7. QED
    BY <1>4, <1>5, <1>6

LEMMA GraceTypes ==
  ASSUME AppOK, NEW s \in Sessions
  PROVE  /\ [rows EXCEPT ![s] = [visitor |-> None, open |-> TRUE]] \in RowTypes
         /\ [app EXCEPT !.grace = [session |-> s, scope |-> None]] \in AppTypes
         /\ [app EXCEPT !.grace = NoLoop] \in AppTypes
  <1>1. None \in Persons /\ [session |-> s, scope |-> None] \in Temporary /\ NoLoop \in Temporary
    BY NoLoopType DEF Temporary
  <1> DEFINE l == [session |-> s, scope |-> None]
  <1> HIDE DEF l
  <1>2. \A k \in Temporary : [app EXCEPT !.grace = k] \in AppTypes
    BY DEF AppOK, AppTypes
  <1>3. [rows EXCEPT ![s] = [visitor |-> None, open |-> TRUE]] \in RowTypes
    BY <1>1, RowVisitorType DEF AppOK
  <1>4. [app EXCEPT !.grace = l] \in AppTypes
    BY <1>1, <1>2 DEF l
  <1>5. QED
    BY <1>1, <1>2, <1>3, <1>4 DEF l

LEMMA GraceTurnTypes ==
  ASSUME HandoffInv, NEW a \in Answers, NEW i \in BOOLEAN, TurnInGrace(a, i)
  PROVE  HandoffInv'
  <1>1. GateOK'
    BY EnterWithSound DEF TurnInGrace, HandoffInv, GateOK
  <1>2. LockOK'
    BY RunsKeeps, NamedEntries DEF TurnInGrace, HandoffInv
  <1>3. capturing' \in BOOLEAN /\ profiles' \subseteq Visitors
    BY <1>1, RecordsAnswerType DEF TurnInGrace, HandoffInv, TurnOK
  <1>4. CASE RunOn(app.grace, TRUE) /\ UNCHANGED << app, rows, absentee >>
    <2>1. AppOK'
      BY <1>3, <1>4 DEF HandoffInv, AppOK
    <2>2. TurnOK'
      BY <1>3, <1>4, RunOnType, AppFieldTypes DEF HandoffInv, TurnOK
    <2>3. QED
      BY <1>1, <1>2, <2>1, <2>2 DEF HandoffInv
  <1>5. ASSUME NEW s \in Sessions,
               rows' = [rows EXCEPT ![s] = [visitor |-> None, open |-> TRUE]],
               app'  = [app EXCEPT !.grace = [session |-> s, scope |-> None]],
               absentee' = gate.primary, RunOn(app'.grace, TRUE)
        PROVE  HandoffInv'
    <2>1. app' \in AppTypes /\ rows' \in RowTypes
      BY <1>5, GraceTypes DEF HandoffInv
    <2>2. gate.primary \in Persons
      BY GateFieldTypes DEF HandoffInv, GateOK
    <2>3. AppOK'
      BY <1>3, <1>5, <2>1, <2>2 DEF HandoffInv, AppOK
    <2>4. app'.grace \in Loops
      BY <2>1, TemporaryLoops DEF AppTypes
    <2>5. TurnOK'
      BY <1>3, <1>5, <2>4, RunOnType DEF TurnOK
    <2>6. QED
      BY <1>1, <1>2, <2>3, <2>5 DEF HandoffInv
  <1>6. QED
    BY <1>4, <1>5 DEF TurnInGrace

LEMMA GraceFailsTypes ==
  ASSUME HandoffInv, NEW a \in Answers, NEW i \in BOOLEAN, TurnInGraceFails(a, i)
  PROVE  HandoffInv'
  <1>1. GateOK'
    BY EnterWithSound DEF TurnInGraceFails, HandoffInv, GateOK
  <1>2. LockOK'
    BY RunsLeaves DEF TurnInGraceFails, HandoffInv
  <1>3. PICK s \in Sessions : rows' = [rows EXCEPT ![s] = [visitor |-> None, open |-> TRUE]]
    BY DEF TurnInGraceFails
  <1>4. rows' \in RowTypes
    BY <1>3, GraceTypes DEF HandoffInv
  <1>5. AppOK' /\ TurnOK'
    BY <1>1, <1>4, RecordsAnswerType DEF TurnInGraceFails, HandoffInv, AppOK, TurnOK
  <1>6. QED
    BY <1>1, <1>2, <1>5 DEF HandoffInv

LEMMA CapturedTypes ==
  ASSUME HandoffInv, TurnCaptured
  PROVE  HandoffInv'
  <1>1. GateOK' /\ AppOK'
    BY FaceCaptureType DEF TurnCaptured, HandoffInv
  <1>2. app'.loop \in Loops
    BY <1>1 DEF AppOK, AppTypes
  <1>3. TurnOK'
    BY <1>2, RunOnType DEF TurnCaptured, HandoffInv, TurnOK
  <1>4. LockOK'
    BY DEF TurnCaptured, lockVars, HandoffInv, LockOK
  <1>5. QED
    BY <1>1, <1>3, <1>4 DEF HandoffInv

\* Steps that move the lock and leave the application's state and the controller alone.
LEMMA OnlyLockTypes ==
  ASSUME HandoffInv, LockOK', TurnOK', UNCHANGED << gate, config, app, rows, profiles, absentee >>
  PROVE  HandoffInv'
  BY DEF HandoffInv, GateOK, AppOK

LEMMA SmallServeTypes ==
  ASSUME HandoffInv,
         TurnDone \/ CaptureMatched \/ EventStarts \/ EventDone
           \/ \E v \in Visitors : HandoffLeftOut(v)
  PROVE  HandoffInv'
  <1>1. UNCHANGED << gate, config, app, rows, profiles, absentee >>
    BY DEF TurnDone, CaptureMatched, EventStarts, EventDone, HandoffLeftOut, appVars
  <1>2. TurnOK'
    <2>1. CASE TurnDone
      BY <2>1, NoLoopType DEF TurnDone, HandoffInv, TurnOK, NoTurn
    <2>2. CASE ~TurnDone
      BY <2>2 DEF CaptureMatched, EventStarts, EventDone, HandoffLeftOut, HandoffInv, TurnOK
    <2>3. QED
      BY <2>1, <2>2
  <1>3. LockOK'
    <2>1. CASE TurnDone \/ EventDone
      <3>1. lock # Free /\ Leave
        BY <2>1 DEF TurnDone, EventDone, Free
      <3>2. QED
        BY <3>1, LeaveType DEF HandoffInv
    <2>2. CASE CaptureMatched
      BY <2>2, EnterType, NamedEntries DEF CaptureMatched, HandoffInv
    <2>3. CASE EventStarts
      BY <2>3 DEF EventStarts, Keep, Waiting, HandoffInv, LockOK
    <2>4. CASE \E v \in Visitors : HandoffLeftOut(v)
      BY <2>4, RunsLeaves DEF HandoffLeftOut, HandoffInv
    <2>5. QED
      BY <2>1, <2>2, <2>3, <2>4
  <1>4. QED
    BY <1>1, <1>2, <1>3, OnlyLockTypes

LEMMA CaptureAppliesTypes ==
  ASSUME HandoffInv, CaptureApplies
  PROVE  HandoffInv'
  <1>1. GateOK' /\ AppOK'
    BY FaceCaptureType DEF CaptureApplies, HandoffInv
  <1>2. TurnOK'
    BY DEF CaptureApplies, HandoffInv, TurnOK
  <1>3. LockOK'
    BY RunsLeaves DEF CaptureApplies, HandoffInv
  <1>4. QED
    BY <1>1, <1>2, <1>3 DEF HandoffInv

LEMMA ArchiveTypes ==
  ASSUME HandoffInv, Archive
  PROVE  HandoffInv'
  <1>1. LockOK'
    BY RunsLeaves DEF Archive, HandoffInv
  <1>2. GateOK' /\ TurnOK' /\ profiles' = profiles /\ absentee' = absentee
    BY DEF Archive, HandoffInv, GateOK, TurnOK
  <1>3. CASE UNCHANGED << app, rows >>
    BY <1>1, <1>2, <1>3 DEF HandoffInv, AppOK
  <1>4. CASE app.grace # NoLoop /\ rows' = [rows EXCEPT ![app.grace.session].open = FALSE]
             /\ app' = [app EXCEPT !.grace = NoLoop]
    <2>1. app' \in AppTypes
      BY <1>4, GraceTypes, SessionNumbers DEF HandoffInv
    <2>2. rows' \in RowTypes
      BY <1>4, AppFieldTypes DEF RowTypes, HandoffInv, AppOK
    <2>3. QED
      BY <1>1, <1>2, <2>1, <2>2 DEF HandoffInv, AppOK
  <1>5. QED
    BY <1>3, <1>4 DEF Archive

\* The hand-over to session s.
LEMMA HandOverTypes ==
  ASSUME GateOK, AppOK, NEW s \in Sessions, HandOver(s), UNCHANGED << config, profiles, absentee >>
  PROVE  GateOK' /\ AppOK'
  <1>1. "visitor_cleared" \in Decisions /\ None \in Persons /\ s \in Nat
    BY SessionNumbers DEF Decisions, Persons
  <1>2. Sound(ConfigureSession(gate, s, None, "visitor_cleared"))
    BY <1>1, ConfigureSessionSound DEF GateOK
  <1>3. Sound(gate')
    BY <1>1, <1>2, RecordReleaseSound DEF HandOver
  <1>4. rows' \in RowTypes
    BY <1>1, EndAndBeginType, AppFieldTypes DEF HandOver, AppOK
  <1>5. app' \in AppTypes
    <2>1. [session |-> s, scope |-> None] \in Loops /\ NoLoop \in Temporary
      BY <1>1 DEF Loops, Temporary
    <2>2. QED
      BY <1>1, <2>1 DEF HandOver, AppTypes
  <1>6. QED
    BY <1>3, <1>4, <1>5 DEF GateOK, AppOK

LEMMA HandoffTypesKept ==
  ASSUME HandoffInv, NEW v \in Visitors, Handoff(v)
  PROVE  HandoffInv'
  <1>1. LockOK'
    BY RunsLeaves DEF Handoff, HandoffInv
  <1>2. TurnOK'
    BY DEF Handoff, HandoffInv, TurnOK
  <1>3. \E s \in Sessions : HandOver(s)
    BY AppFieldTypes DEF Handoff, HandoffInv
  <1>4. GateOK' /\ AppOK'
    BY <1>3, HandOverTypes DEF Handoff, HandoffInv
  <1>5. QED
    BY <1>1, <1>2, <1>4 DEF HandoffInv

\* The developer's choice of visitor, and what identity requests bind.
LEMMA BindingTypes ==
  ASSUME HandoffInv, NEW v \in Persons,
         Select(v) \/ BindFromIdentity(v) \/ (v \in Visitors /\ Create(v))
  PROVE  HandoffInv'
  <1>1. LockOK'
    BY RunsLeaves DEF Select, BindFromIdentity, Create, HandoffInv
  <1>2. TurnOK' /\ config' = config /\ absentee' = absentee
    BY DEF Select, BindFromIdentity, Create, HandoffInv, TurnOK
  <1>3. profiles' \subseteq Visitors
    BY DEF Select, BindFromIdentity, Create, HandoffInv, AppOK
  <1>4. GateOK'
    <2>1. gate' = gate \/ gate' = SetPrimaryVisitor(gate, v)
      BY DEF Select, BindFromIdentity, Create
    <2>2. v \in Visitors \union {None}
      BY DEF Persons
    <2>3. QED
      BY <1>2, <2>1, <2>2, SetPrimarySound DEF HandoffInv, GateOK
  <1>5. app' \in AppTypes /\ rows' \in RowTypes
    <2>1. CASE BindSession(v)
      BY <2>1, BindSessionType DEF HandoffInv
    <2>2. CASE UNCHANGED << app, rows >>
      BY <2>2 DEF HandoffInv, AppOK
    <2>3. CASE rows' = [rows EXCEPT ![app.session].visitor = v] /\ app' = [app EXCEPT !.visitor = v]
      <3>1. rows' \in RowTypes
        BY <2>3, RowVisitorType, AppFieldTypes DEF HandoffInv, AppOK
      <3>2. app' \in AppTypes
        BY <2>3 DEF HandoffInv, AppOK, AppTypes
      <3>3. QED
        BY <3>1, <3>2
    <2>4. QED
      BY <2>1, <2>2, <2>3 DEF Select, BindFromIdentity, Create
  <1>6. QED
    BY <1>1, <1>2, <1>3, <1>4, <1>5 DEF HandoffInv, AppOK

LEMMA ResetTypes ==
  ASSUME HandoffInv, NEW old \in Sessions, NEW v \in Persons, Reset(old, v)
  PROVE  HandoffInv'
  <1>1. LockOK'
    BY RunsLeaves DEF Reset, HandoffInv
  <1>2. TurnOK' /\ UNCHANGED << config, profiles, absentee >>
    BY DEF Reset, HandoffInv, TurnOK
  <1>3. CASE UNCHANGED << gate, app, rows >>
    BY <1>1, <1>2, <1>3 DEF HandoffInv, GateOK, AppOK
  <1>4. ASSUME NEW s \in Sessions,
               Current(s, app.visitor, [rows EXCEPT ![old].open = FALSE,
                                                    ![s] = [visitor |-> v, open |-> TRUE]]),
               gate' = ConfigureSession(gate, s, v, "session_reset")
        PROVE  HandoffInv'
    <2>1. "session_reset" \in Decisions /\ s \in Nat /\ v \in Visitors \union {None}
      BY SessionNumbers DEF Decisions, Persons
    <2>2. Sound(gate')
      BY <1>4, <2>1, ConfigureSessionSound DEF HandoffInv, GateOK
    <2>3. app.visitor \in Persons /\ rows \in RowTypes
      BY AppFieldTypes DEF HandoffInv, AppOK
    <2> DEFINE table == [rows EXCEPT ![old].open = FALSE, ![s] = [visitor |-> v, open |-> TRUE]]
    <2>4. table \in RowTypes
      BY <2>3, EndAndBeginType
    <2>5. Current(s, app.visitor, table)
      BY <1>4
    <2> HIDE DEF table
    <2>6. app' \in AppTypes /\ rows' \in RowTypes
      BY <2>3, <2>4, <2>5, CurrentType DEF HandoffInv
    <2>7. QED
      BY <1>1, <1>2, <2>2, <2>6 DEF HandoffInv, GateOK, AppOK
  <1>5. QED
    BY <1>3, <1>4 DEF Reset

LEMMA ReloadTypes ==
  ASSUME HandoffInv, NEW s \in Sessions, Reload(s)
  PROVE  HandoffInv'
  <1>1. LockOK'
    BY RunsLeaves DEF Reload, HandoffInv
  <1>2. TurnOK' /\ UNCHANGED << gate, config, profiles, absentee >>
    BY DEF Reload, HandoffInv, TurnOK
  <1>3. app' \in AppTypes /\ rows' \in RowTypes
    <2>1. CASE Current(s, app.visitor, rows)
      BY <2>1, CurrentType, AppFieldTypes DEF HandoffInv, AppOK
    <2>2. CASE UNCHANGED << app, rows >>
      BY <2>2 DEF HandoffInv, AppOK
    <2>3. QED
      BY <2>1, <2>2 DEF Reload
  <1>4. QED
    BY <1>1, <1>2, <1>3 DEF HandoffInv, GateOK, AppOK

LEMMA ServeTypes ==
  ASSUME HandoffInv, Serve
  PROVE  HandoffInv'
  <1>1. ASSUME NEW a \in Answers, NEW i \in BOOLEAN,
               TurnContinues(a, i) \/ TurnInGrace(a, i) \/ TurnInGraceFails(a, i) \/ TurnBinds(i)
        PROVE  HandoffInv'
    BY <1>1, TurnStepTypes, GraceTurnTypes, GraceFailsTypes
  <1>2. CASE TurnBindFails \/ \E i \in BOOLEAN : TurnBinds(i)
    <2>1. "unclear" \in Answers /\ TRUE \in BOOLEAN
      BY DEF Answers
    <2>2. QED
      BY <1>2, <2>1, TurnStepTypes
  <1>3. CASE TurnDone \/ CaptureMatched \/ EventStarts \/ EventDone \/ \E v \in Visitors : HandoffLeftOut(v)
    BY <1>3, SmallServeTypes
  <1>4. \A v \in Visitors : v \in Persons
    BY DEF Persons
  <1>5. CASE \E v \in Visitors : BindFromIdentity(v) \/ Create(v)
    BY <1>4, <1>5, BindingTypes
  <1>6. CASE \E v \in Persons : Select(v)
    BY <1>6, BindingTypes
  <1>7. QED
    BY <1>1, <1>2, <1>3, <1>5, <1>6, CapturedTypes, CaptureAppliesTypes, ArchiveTypes,
       HandoffTypesKept, ResetTypes, ReloadTypes DEF Serve

\* A request is sent: a well typed entry begins to wait.
LEMMA RequestTypes ==
  ASSUME HandoffInv, NEW k, NEW e \in Entries, RequestArrives(k, e)
  PROVE  HandoffInv'
  <1>1. LockOK'
    BY EnterType DEF RequestArrives, HandoffInv
  <1>2. TurnOK'
    BY DEF RequestArrives, HandoffInv, TurnOK
  <1>3. QED
    BY <1>1, <1>2, OnlyLockTypes DEF RequestArrives, appVars

LEMMA RequestsTypes ==
  ASSUME HandoffInv,
         TurnArrives \/ SelectArrives \/ CreateArrives \/ ResetArrives \/ ReloadArrives
  PROVE  HandoffInv'
  <1>1. {"select", "create", "reset", "reload"} \subseteq Tasks
    BY DEF Tasks
  <1>2. profiles \subseteq Persons /\ Visitors \subseteq Persons /\ None \in Persons
    BY DEF HandoffInv, AppOK, Persons
  <1>3. app.session \in Sessions /\ app.visitor \in Persons
    BY AppFieldTypes DEF HandoffInv
  <1>4. CASE TurnArrives
    <2>1. LockOK'
      BY <1>4, EnterType, NamedEntries DEF TurnArrives, HandoffInv
    <2>2. TurnOK'
      BY <1>4 DEF TurnArrives, HandoffInv, TurnOK
    <2>3. QED
      BY <1>4, <2>1, <2>2, OnlyLockTypes DEF TurnArrives, appVars
  <1>5. CASE SelectArrives
    <2>1. \A v \in profiles \union {None} : Entry("select", NoSession, v) \in Entries
      BY <1>1, <1>2, EntryType
    <2>2. QED
      BY <1>5, <2>1, RequestTypes DEF SelectArrives
  <1>6. CASE CreateArrives
    <2>1. \A v \in Visitors : Entry("create", NoSession, v) \in Entries
      BY <1>1, <1>2, EntryType
    <2>2. QED
      BY <1>6, <2>1, RequestTypes DEF CreateArrives
  <1>7. CASE ResetArrives
    <2>1. Entry("reset", app.session, app.visitor) \in Entries
      BY <1>1, <1>3, EntryType
    <2>2. QED
      BY <1>7, <2>1, RequestTypes DEF ResetArrives
  <1>8. CASE ReloadArrives
    <2>1. Entry("reload", app.session, None) \in Entries
      BY <1>1, <1>2, <1>3, EntryType
    <2>2. QED
      BY <1>8, <2>1, RequestTypes DEF ReloadArrives
  <1>9. QED
    BY <1>4, <1>5, <1>6, <1>7, <1>8

LEMMA SoundConfirm ==
  ASSUME Sound(gate), NEW a \in BOOLEAN, Confirm(a)
  PROVE  Sound(gate') /\ config' = config
  BY ConfirmCandidateSound DEF Confirm

\* The identity requests, and what they leave for the lock.
LEMMA IdentityRequestTypes ==
  ASSUME HandoffInv,
         (\E m \in Matches : MatchRequest(m)) \/ (\E a \in BOOLEAN : ConfirmRequest(a))
  PROVE  HandoffInv'
  <1>1. Sound(gate') /\ config' = config
    <2>1. ASSUME NEW m \in Matches, MatchRequest(m) PROVE Sound(gate') /\ config' = config
      BY <2>1, ApplyIdentityMatchSound DEF MatchRequest, ApplyIdentityMatch, HandoffInv, GateOK
    <2>2. ASSUME NEW a \in BOOLEAN, ConfirmRequest(a) PROVE Sound(gate') /\ config' = config
      BY <2>2, SoundConfirm DEF ConfirmRequest, HandoffInv, GateOK
    <2>3. QED
      BY <2>1, <2>2
  <1>2. GateOK'
    BY <1>1 DEF HandoffInv, GateOK
  <1>3. BindIfBound /\ UNCHANGED << app, rows, absentee, turn, capturing >>
    BY DEF MatchRequest, ConfirmRequest
  <1>4. LockOK'
    <2>1. "bind" \in Tasks /\ gate'.primary \in Persons
      BY <1>1, GateFieldTypes DEF Tasks
    <2>2. Entry("bind", NoSession, gate'.primary) \in Entries
      BY <2>1, EntryType
    <2>3. CASE Enter(Entry("bind", NoSession, gate'.primary))
      BY <2>2, <2>3, EnterType DEF HandoffInv
    <2>4. CASE UNCHANGED lockVars
      BY <2>4 DEF lockVars, HandoffInv, LockOK
    <2>5. QED
      BY <1>3, <2>3, <2>4 DEF BindIfBound
  <1>5. profiles' \subseteq Visitors
    <2>1. profiles \subseteq Visitors /\ Sound(gate)
      BY DEF HandoffInv, AppOK, GateOK
    <2>2. ASSUME NEW m \in Matches, MatchRequest(m) PROVE profiles' \subseteq Visitors
      <3>1. m.who \in Persons
        BY DEF Matches, Persons
      <3>2. Records(m.who) \/ profiles' = profiles
        BY <2>2 DEF MatchRequest
      <3>3. QED
        BY <2>1, <3>1, <3>2, RecordsType
    <2>3. ASSUME NEW a \in BOOLEAN, ConfirmRequest(a) PROVE profiles' \subseteq Visitors
      BY <1>1, <2>1, <2>3, RecordsNamedType DEF ConfirmRequest
    <2>4. QED
      BY <2>2, <2>3
  <1>6. AppOK' /\ TurnOK'
    BY <1>3, <1>5 DEF HandoffInv, AppOK, TurnOK
  <1>7. QED
    BY <1>2, <1>4, <1>6 DEF HandoffInv

\* What a poll may ask for.
LEMMA PollEnters ==
  ASSUME NEW r \in Reports, Poll(r)
  PROVE  \/ /\ gate.primary # None /\ gate'.primary = None
            /\ Enter(Entry("handoff", NoSession, gate.primary))
         \/ /\ ~(gate.primary # None /\ gate'.primary = None)
            /\ gate'.presence = "present" /\ Enter(ArchiveEntry)
         \/ /\ ~(gate.primary # None /\ gate'.primary = None)
            /\ gate'.presence # "present" /\ UNCHANGED lockVars
  BY DEF Poll

LEMMA PollTypes ==
  ASSUME HandoffInv, NEW r \in Reports, Poll(r)
  PROVE  HandoffInv'
  <1>1. GateOK'
    BY UpdatePrimaryPresenceSound DEF Poll, UpdatePrimaryPresence, HandoffInv, GateOK
  <1>2. LockOK'
    <2>1. "handoff" \in Tasks /\ gate.primary \in Persons
      BY GateFieldTypes DEF Tasks, HandoffInv, GateOK
    <2>2. Entry("handoff", NoSession, gate.primary) \in Entries
      BY <2>1, EntryType
    <2>3. UNCHANGED lockVars => LockOK'
      BY DEF lockVars, HandoffInv, LockOK
    <2>4. QED
      BY <2>2, <2>3, PollEnters, EnterType, NamedEntries DEF HandoffInv
  <1>3. absentee' \in Persons
    BY DEF Poll, HandoffInv, AppOK, Persons
  <1>4. AppOK' /\ TurnOK'
    BY <1>3 DEF Poll, HandoffInv, AppOK, TurnOK
  <1>5. QED
    BY <1>1, <1>2, <1>4 DEF HandoffInv

LEMMA HappensTypes ==
  ASSUME HandoffInv, Happens
  PROVE  HandoffInv'
  <1>1. ASSUME GateOK', UNCHANGED << appVars, turn, capturing >>, LockOK' PROVE HandoffInv'
    BY <1>1 DEF appVars, HandoffInv, AppOK, TurnOK
  <1>2. UNCHANGED lockVars => LockOK'
    BY DEF lockVars, HandoffInv, LockOK
  <1>3. ASSUME NEW a \in BOOLEAN, NEW h \in BOOLEAN, NEW d \in Graces, ConfigRequest(a, h, d)
        PROVE  HandoffInv'
    <2>1. GateOK'
      BY <1>3 DEF ConfigRequest, ConfigureIdentity, HandoffInv, GateOK, Config
    <2>2. QED
      BY <1>1, <1>2, <1>3, <2>1 DEF ConfigRequest
  <1>4. ASSUME NEW e \in SystemEvents, EventArrives(e) PROVE HandoffInv'
    <2>1. GateOK'
      BY <1>4, SystemEventSound DEF EventArrives, SystemEvent, HandoffInv, GateOK
    <2>2. "events" \in Tasks
      BY DEF Tasks
    <2>3. EventEntry \in Entries
      BY <2>2, EntryType, AppFieldTypes DEF EventEntry, HandoffInv
    <2>4. LockOK'
      BY <1>4, <2>3, EnterType DEF EventArrives, HandoffInv
    <2>5. QED
      BY <1>1, <1>4, <2>1, <2>4 DEF EventArrives
  <1>5. CASE TimePasses
    <2>1. GateOK'
      BY <1>5, TickSound DEF TimePasses, Tick, HandoffInv, GateOK
    <2>2. QED
      BY <1>1, <1>2, <1>5, <2>1 DEF TimePasses
  <1>6. QED
    BY <1>3, <1>4, <1>5, RequestsTypes, IdentityRequestTypes, PollTypes DEF Happens

LEMMA InitTypes == HandoffInit => HandoffInv
  <1> SUFFICES ASSUME HandoffInit PROVE HandoffInv
    OBVIOUS
  <1>1. GateOK
    BY InitInv DEF HandoffInit, IInv, GateOK
  <1>2. profiles \subseteq Visitors /\ gate.primary \in Persons /\ 0 \in Sessions
    BY SessionNumbers DEF HandoffInit, Persons
  <1>3. app \in AppTypes
    <2>1. [session |-> 0, scope |-> gate.primary] \in Loops /\ NoLoop \in Temporary
      BY <1>2 DEF Loops, Temporary
    <2>2. QED
      BY <1>2, <2>1 DEF HandoffInit, AppTypes
  <1>4. rows \in RowTypes
    BY <1>2 DEF HandoffInit, RowTypes, Persons
  <1>5. AppOK
    BY <1>2, <1>3, <1>4, NoLoopType DEF HandoffInit, AppOK
  <1>6. LockOK
    BY DEF HandoffInit, LockOK
  <1>7. TurnOK
    BY NoLoopType DEF HandoffInit, NoTurn, TurnOK
  <1>8. QED
    BY <1>1, <1>5, <1>6, <1>7 DEF HandoffInv

LEMMA NextTypes == HandoffInv /\ [HandoffNext]_vars => HandoffInv'
  <1> SUFFICES ASSUME HandoffInv, [HandoffNext]_vars PROVE HandoffInv'
    OBVIOUS
  <1>1. CASE UNCHANGED vars
    BY <1>1 DEF vars, HandoffInv, GateOK, AppOK, LockOK, TurnOK
  <1>2. QED
    BY <1>1, ServeTypes, HappensTypes DEF HandoffNext

THEOREM HandoffInvariance == HandoffSpec => []HandoffInv
  BY InitTypes, NextTypes, PTL DEF HandoffSpec

\* Every variable of the runtime and of its controller stays in its type, under any
\* requests, any interleaving of the tasks at loop_lock and with a failing LLM client.
THEOREM RuntimeTypeCorrect == HandoffSpec => []HandoffTypes
  <1>1. HandoffInv => HandoffTypes
    <2> SUFFICES ASSUME HandoffInv PROVE HandoffTypes
      OBVIOUS
    <2>1. TypeOK
      BY DEF HandoffInv, GateOK, Sound, TypeOK
    <2>2. app \in [session: Sessions, visitor: Persons, loop: Loops, grace: Loops]
      BY TemporaryLoops DEF HandoffInv, AppOK, AppTypes
    <2>3. QED
      BY <2>1, <2>2 DEF HandoffInv, AppOK, LockOK, TurnOK, RowTypes, HandoffTypes
  <1>2. QED
    BY <1>1, HandoffInvariance, PTL

\* What makes the controller consistent by itself holds inside the runtime too, where
\* the sections under loop_lock combine several of its methods and the identity
\* requests call it without the lock: an open offer is one consistent offer, and a
\* locked track belongs to a primary visitor.
THEOREM ControllerStaysSound == HandoffSpec => [](PendingCandidate /\ TrackFollowsPrimary)
  <1>1. HandoffInv => PendingCandidate /\ TrackFollowsPrimary
    BY DEF HandoffInv, GateOK, Sound, PendingCandidate, TrackFollowsPrimary
  <1>2. QED
    BY <1>1, HandoffInvariance, PTL

-----------------------------------------------------------------------------
(* Who waits: what the operations of the lock do to the set of entries.     *)

LEMMA AppendElements ==
  ASSUME NEW S, NEW q \in Seq(S), NEW e \in S
  PROVE  \A x : (\E i \in DOMAIN Append(q, e) : Append(q, e)[i] = x)
                  <=> (x = e \/ \E i \in DOMAIN q : q[i] = x)
  <1> TAKE x
  <1>1. DOMAIN q = 1 .. Len(q) /\ DOMAIN Append(q, e) = 1 .. Len(q) + 1 /\ Len(q) \in Nat
    OBVIOUS
  <1>2. \A i \in 1 .. Len(q) : Append(q, e)[i] = q[i]
    OBVIOUS
  <1>3. Append(q, e)[Len(q) + 1] = e
    OBVIOUS
  <1>4. ASSUME \E i \in DOMAIN Append(q, e) : Append(q, e)[i] = x
        PROVE  x = e \/ \E i \in DOMAIN q : q[i] = x
    <2>1. PICK i \in 1 .. Len(q) + 1 : Append(q, e)[i] = x
      BY <1>1, <1>4
    <2>2. CASE i = Len(q) + 1
      BY <1>3, <2>1, <2>2
    <2>3. CASE i \in 1 .. Len(q)
      BY <1>1, <1>2, <2>1, <2>3
    <2>4. QED
      BY <1>1, <2>1, <2>2, <2>3
  <1>5. ASSUME x = e \/ \E i \in DOMAIN q : q[i] = x
        PROVE  \E i \in DOMAIN Append(q, e) : Append(q, e)[i] = x
    <2>1. CASE x = e
      <3>1. Len(q) + 1 \in DOMAIN Append(q, e)
        BY <1>1
      <3>2. QED
        BY <1>3, <2>1, <3>1
    <2>2. CASE \E i \in DOMAIN q : q[i] = x
      <3>1. PICK i \in 1 .. Len(q) : q[i] = x
        BY <1>1, <2>2
      <3>2. i \in DOMAIN Append(q, e) /\ Append(q, e)[i] = x
        BY <1>1, <1>2, <3>1
      <3>3. QED
        BY <3>2
    <2>3. QED
      BY <1>5, <2>1, <2>2
  <1>6. QED
    BY <1>4, <1>5

LEMMA TailElements ==
  ASSUME NEW S, NEW q \in Seq(S), q # << >>
  PROVE  \A x : (\E i \in DOMAIN q : q[i] = x)
                  <=> (x = Head(q) \/ \E i \in DOMAIN Tail(q) : Tail(q)[i] = x)
  <1> TAKE x
  <1>1. DOMAIN q = 1 .. Len(q) /\ Len(q) \in Nat /\ Len(q) >= 1
    OBVIOUS
  <1>2. DOMAIN Tail(q) = 1 .. Len(q) - 1 /\ Head(q) = q[1]
    OBVIOUS
  <1>3. \A i \in 1 .. Len(q) - 1 : Tail(q)[i] = q[i + 1]
    OBVIOUS
  <1>4. ASSUME \E i \in DOMAIN q : q[i] = x
        PROVE  x = Head(q) \/ \E i \in DOMAIN Tail(q) : Tail(q)[i] = x
    <2>1. PICK i \in 1 .. Len(q) : q[i] = x
      BY <1>1, <1>4
    <2>2. CASE i = 1
      BY <1>2, <2>1, <2>2
    <2>3. CASE i # 1
      <3>1. i - 1 \in 1 .. Len(q) - 1 /\ (i - 1) + 1 = i
        BY <1>1, <2>1, <2>3
      <3>2. Tail(q)[i - 1] = x
        BY <1>3, <2>1, <3>1
      <3>3. QED
        BY <1>2, <3>1, <3>2
    <2>4. QED
      BY <2>2, <2>3
  <1>5. ASSUME x = Head(q) \/ \E i \in DOMAIN Tail(q) : Tail(q)[i] = x
        PROVE  \E i \in DOMAIN q : q[i] = x
    <2>1. CASE x = Head(q)
      <3>1. 1 \in DOMAIN q
        BY <1>1
      <3>2. QED
        BY <1>2, <2>1, <3>1
    <2>2. CASE \E i \in DOMAIN Tail(q) : Tail(q)[i] = x
      <3>1. PICK i \in 1 .. Len(q) - 1 : Tail(q)[i] = x
        BY <1>2, <2>2
      <3>2. i + 1 \in DOMAIN q
        BY <1>1, <3>1
      <3>3. q[i + 1] = x
        BY <1>3, <3>1
      <3>4. QED
        BY <3>2, <3>3
    <2>3. QED
      BY <1>5, <2>1, <2>2
  <1>6. QED
    BY <1>4, <1>5

LEMMA EnteredIs ==
  /\ \A x : x \in Entered  <=> (x = lock  \/ \E i \in DOMAIN queue  : queue[i] = x)
  /\ \A x : x \in Entered' <=> (x = lock' \/ \E i \in DOMAIN queue' : queue'[i] = x)
  BY DEF Entered

\* Whoever enters is among the tasks, and nobody leaves.
LEMMA EnterEntered ==
  ASSUME LockOK, NEW e \in Entries, Enter(e)
  PROVE  /\ \A x \in Entered : x # Free => x \in Entered'
         /\ \A x \in Entered' : x \in Entered \/ x = e
         /\ e \in Entered'
  <1>1. CASE lock = Free /\ queue = << >>
    <2>1. lock' = e /\ queue' = queue
      BY <1>1 DEF Enter
    <2>2. QED
      BY <1>1, <2>1, EnteredIs
  <1>2. CASE ~(lock = Free /\ queue = << >>)
    <2>1. lock' = lock /\ queue' = Append(queue, e)
      BY <1>2 DEF Enter
    <2>2. queue \in Seq(Entries)
      BY DEF LockOK
    <2>3. \A x : (\E i \in DOMAIN queue' : queue'[i] = x)
                   <=> (x = e \/ \E i \in DOMAIN queue : queue[i] = x)
      BY <2>1, <2>2, AppendElements
    <2>4. QED
      BY <2>1, <2>3, EnteredIs
  <1>3. QED
    BY <1>1, <1>2

LEMMA RunsIsEntered ==
  ASSUME LockOK, NEW e, Runs(e)
  PROVE  e \in Entered
  <1>1. CASE lock = Free
    <2>1. queue # << >> /\ Head(queue) = e /\ queue \in Seq(Entries)
      BY <1>1 DEF Runs, LockOK
    <2>2. QED
      BY <2>1, TailElements, EnteredIs
  <1>2. CASE lock # Free
    BY <1>2, EnteredIs DEF Runs
  <1>3. QED
    BY <1>1, <1>2

\* A section that ends takes its own entry away and no other.
LEMMA LeaveEntered ==
  ASSUME LockOK, NEW e, Runs(e), Leave
  PROVE  /\ \A x \in Entered : x # e /\ x # Free => x \in Entered'
         /\ \A x \in Entered' : x \in Entered \/ x = Free
  <1>1. lock' = Free /\ queue' = Waiting
    BY DEF Leave
  <1>2. CASE lock = Free
    <2>1. queue # << >> /\ Head(queue) = e /\ queue \in Seq(Entries) /\ queue' = Tail(queue)
      BY <1>1, <1>2 DEF Runs, Waiting, LockOK
    <2>2. \A x : (\E i \in DOMAIN queue : queue[i] = x)
                   <=> (x = e \/ \E i \in DOMAIN queue' : queue'[i] = x)
      <3>1. \A x : (\E i \in DOMAIN queue : queue[i] = x)
                     <=> (x = Head(queue) \/ \E i \in DOMAIN Tail(queue) : Tail(queue)[i] = x)
        BY <2>1, TailElements, Zenon
      <3>2. QED
        BY <2>1, <3>1, Zenon
    <2> DEFINE In(x)  == \E i \in DOMAIN queue : queue[i] = x
               In2(x) == \E i \in DOMAIN queue' : queue'[i] = x
    <2>3. \A x : In(x) <=> (x = e \/ In2(x))
      BY <2>2
    <2>4. /\ \A x : x \in Entered  <=> (x = lock  \/ In(x))
          /\ \A x : x \in Entered' <=> (x = lock' \/ In2(x))
      BY EnteredIs
    <2> HIDE DEF In, In2
    <2>5. QED
      BY <1>1, <1>2, <2>3, <2>4
  <1>3. CASE lock # Free
    <2>1. lock = e /\ queue' = queue
      BY <1>1, <1>3 DEF Runs, Waiting
    <2>2. QED
      BY <1>1, <2>1, EnteredIs
  <1>4. QED
    BY <1>2, <1>3

\* So does the holder of the lock.
LEMMA HolderLeavesEntered ==
  ASSUME lock # Free, Leave
  PROVE  /\ \A x \in Entered : x # lock => x \in Entered'
         /\ \A x \in Entered' : x \in Entered \/ x = Free
  <1>1. lock' = Free /\ queue' = queue
    BY DEF Leave, Waiting
  <1>2. QED
    BY <1>1, EnteredIs

\* A section that awaits with the lock held stays among the tasks.
LEMMA KeepEntered ==
  ASSUME LockOK, NEW e, Runs(e) \/ (lock = Free /\ queue # << >> /\ Head(queue) = e), Keep(e)
  PROVE  /\ \A x \in Entered : x # Free => x \in Entered'
         /\ \A x \in Entered' : x \in Entered
  <1>1. lock' = e /\ queue' = Waiting
    BY DEF Keep
  <1>2. CASE lock = Free
    <2>1. queue # << >> /\ Head(queue) = e /\ queue \in Seq(Entries) /\ queue' = Tail(queue)
      BY <1>1, <1>2 DEF Runs, Waiting, LockOK
    <2>2. \A x : (\E i \in DOMAIN queue : queue[i] = x)
                   <=> (x = e \/ \E i \in DOMAIN queue' : queue'[i] = x)
      <3>1. \A x : (\E i \in DOMAIN queue : queue[i] = x)
                     <=> (x = Head(queue) \/ \E i \in DOMAIN Tail(queue) : Tail(queue)[i] = x)
        BY <2>1, TailElements, Zenon
      <3>2. QED
        BY <2>1, <3>1, Zenon
    <2> DEFINE In(x)  == \E i \in DOMAIN queue : queue[i] = x
               In2(x) == \E i \in DOMAIN queue' : queue'[i] = x
    <2>3. \A x : In(x) <=> (x = e \/ In2(x))
      BY <2>2
    <2>4. /\ \A x : x \in Entered  <=> (x = lock  \/ In(x))
          /\ \A x : x \in Entered' <=> (x = lock' \/ In2(x))
      BY EnteredIs
    <2> HIDE DEF In, In2
    <2>5. QED
      BY <1>1, <1>2, <2>3, <2>4
  <1>3. CASE lock # Free
    <2>1. lock = e /\ queue' = queue
      BY <1>1, <1>3 DEF Runs, Waiting
    <2>2. QED
      BY <1>1, <2>1, EnteredIs
  <1>4. QED
    BY <1>2, <1>3

-----------------------------------------------------------------------------
(* What the controller's methods do to the visitor and the track.           *)

SameVisitor(s, h) ==
  /\ h.session = s.session
  /\ h.primary = s.primary
  /\ h.released = s.released
  /\ h.track = s.track
  /\ h.presence = s.presence

\* v is bound: the track of whoever was bound before is forgotten.
BoundTo(s, h, v) ==
  /\ h.session = s.session
  /\ h.primary = v
  /\ h.released = s.released
  /\ h.track = NoTrack
  /\ h.presence # "missing_grace"

\* Whoever is bound now: no track is locked, nobody is missing, and the last release is
\* remembered.
Rebound(s, h) ==
  /\ h.released = s.released
  /\ h.track = NoTrack
  /\ h.presence # "missing_grace"

LEMMA SameVisitorTwice ==
  ASSUME NEW s, NEW h, NEW k, SameVisitor(s, h)
  PROVE  /\ SameVisitor(h, k) => SameVisitor(s, k)
         /\ \A v : BoundTo(h, k, v) => BoundTo(s, k, v)
  BY DEF SameVisitor, BoundTo

LEMMA BoundStays ==
  ASSUME NEW s, NEW h, NEW k, NEW v, BoundTo(s, h, v), SameVisitor(h, k)
  PROVE  BoundTo(s, k, v)
  BY DEF SameVisitor, BoundTo

LEMMA DropCandidateSame ==
  ASSUME NEW s \in Gate
  PROVE  SameVisitor(s, DropCandidate(s))
  BY DEF SameVisitor, DropCandidate, Gate

LEMMA MarkSame ==
  ASSUME NEW s \in Gate, NEW d, NEW e
  PROVE  SameVisitor(s, Mark(s, d, e))
  BY DEF SameVisitor, Mark, Gate

\* A label changes neither the visitor nor the track.
LEMMA LabelSame ==
  ASSUME NEW s \in Gate, NEW w, NEW c, NEW d, NEW e
  PROVE  SameVisitor(s, Mark([s EXCEPT !.waiting = w, !.confirm = c], d, e))
  BY DEF SameVisitor, Mark, Gate

LEMMA ExpireSame ==
  ASSUME NEW s \in Gate
  PROVE  SameVisitor(s, ExpireCandidate(s))
  <1>1. CASE ~Expired(s)
    BY <1>1 DEF ExpireCandidate, SameVisitor
  <1>2. CASE Expired(s)
    <2> DEFINE d == DropCandidate(s)
    <2>1. d \in Gate /\ SameVisitor(s, d)
      BY DropCandidateType, DropCandidateSame
    <2>2. ExpireCandidate(s) = Mark([d EXCEPT !.identity = IdentityOf(s.primary),
                                              !.confirm = Confirmation("expired", s.candidate)],
                                    "observe_only", "candidate_expired")
      BY <1>2 DEF ExpireCandidate
    <2> HIDE DEF d
    <2>3. SameVisitor(d, ExpireCandidate(s))
      BY <2>1, <2>2 DEF SameVisitor, Mark, Gate
    <2>4. QED
      BY <2>1, <2>3, SameVisitorTwice
  <1>3. QED
    BY <1>1, <1>2

LEMMA BeforeTurnSame ==
  ASSUME NEW s, Sound(s), NEW i \in BOOLEAN
  PROVE  SameVisitor(s, BeforeTurn(s, i))
  <1> DEFINE e == ExpireCandidate(s)
             n == EnterTurn(e, i)
             t == [n EXCEPT !.intent = "confirmed_by_input", !.event = "dialogue_turn"]
  <1>1. Sound(e) /\ SameVisitor(s, e)
    BY ExpireCandidateSound, ExpireSame DEF Sound
  <1> HIDE DEF e
  <1>2. n \in Gate
    BY <1>1, EnterTurnSound DEF Sound
  <1>3. SameVisitor(e, n)
    <2>1. e \in Gate
      BY <1>1 DEF Sound
    <2> DEFINE w(r, d) == [e EXCEPT !.runtime = r, !.decision = d]
    <2>2. \A r, d : SameVisitor(e, w(r, d))
      BY <2>1 DEF SameVisitor, Gate
    <2>3. \E r, d : n = w(r, d)
      BY DEF EnterTurn
    <2> HIDE DEF w, n
    <2>4. QED
      BY <2>2, <2>3
  <1> HIDE DEF n
  <1>4. SameVisitor(n, t) /\ SameVisitor(n, CountUnconfirmed(t))
    BY <1>2 DEF SameVisitor, CountUnconfirmed, Gate
  <1>5. BeforeTurn(s, i) = t \/ BeforeTurn(s, i) = CountUnconfirmed(t)
    BY DEF BeforeTurn, t, n, e
  <1> HIDE DEF t
  <1>6. SameVisitor(n, BeforeTurn(s, i))
    BY <1>4, <1>5
  <1>7. QED
    BY <1>1, <1>3, <1>6, SameVisitorTwice

LEMMA BindBinds ==
  ASSUME NEW s \in Gate, NEW v \in Visitors \union {None}
  PROVE  Bind(s, v) \in Gate /\ BoundTo(s, Bind(s, v), v)
  <1>1. /\ Bind(s, v) \in Gate /\ Bind(s, v).primary = v /\ Bind(s, v).track = NoTrack
        /\ Bind(s, v).presence = PresenceOf(v)
    BY BindType, BindIs
  <1>2. Bind(s, v).session = s.session /\ Bind(s, v).released = s.released
    BY DEF Bind, DropTrack, DropCandidate, Gate
  <1>3. PresenceOf(v) # "missing_grace"
    BY DEF PresenceOf
  <1>4. QED
    BY <1>1, <1>2, <1>3 DEF BoundTo

LEMMA LabelBound ==
  ASSUME NEW s, NEW b \in Gate, NEW v, BoundTo(s, b, v), NEW c, NEW d, NEW e
  PROVE  BoundTo(s, Mark([b EXCEPT !.confirm = c], d, e), v)
  BY DEF BoundTo, Mark, Gate

LEMMA SetPrimaryBinds ==
  ASSUME NEW s \in Gate, NEW v \in Visitors \union {None}
  PROVE  BoundTo(s, SetPrimaryVisitor(s, v), v)
  <1> DEFINE b == Bind(s, v)
             d == IF v = None THEN "visitor_cleared" ELSE "visitor_bound"
  <1>1. b \in Gate /\ BoundTo(s, b, v)
    BY BindBinds
  <1>2. SetPrimaryVisitor(s, v) = Mark([b EXCEPT !.confirm = NoConfirmation], d, "visitor_selection")
    BY DEF SetPrimaryVisitor
  <1> HIDE DEF b, d
  <1>3. QED
    BY <1>1, <1>2, LabelBound

\* A rejection leaves the visitor alone, an acceptance binds the candidate if there is
\* one.
LEMMA ConfirmCandidateIs ==
  ASSUME NEW s, Sound(s)
  PROVE  /\ SameVisitor(s, ConfirmCandidate(s, FALSE))
         /\ s.candidate = None => SameVisitor(s, ConfirmCandidate(s, TRUE))
         /\ s.candidate # None => BoundTo(s, ConfirmCandidate(s, TRUE), s.candidate)
         /\ s.waiting => s.candidate # None
  <1>1. s \in Gate /\ s.candidate \in Visitors \union {None}
    BY DEF Sound, Gate
  <1>2. SameVisitor(s, ConfirmCandidate(s, FALSE))
    <2>1. CASE s.candidate = None
      BY <1>1, <2>1, LabelSame DEF ConfirmCandidate
    <2>2. CASE s.candidate # None
      <3> DEFINE d == DropCandidate(s)
                 i == IdentityOf(s.primary)
                 c == Confirmation("rejected", s.candidate)
      <3>1. d \in Gate /\ SameVisitor(s, d)
        BY <1>1, DropCandidateType, DropCandidateSame
      <3>2. ConfirmCandidate(s, FALSE) =
              Mark([d EXCEPT !.identity = i, !.confirm = c], "observe_only",
                   "identity_confirmation")
        BY <2>2 DEF ConfirmCandidate
      <3> HIDE DEF d, i, c
      <3>3. SameVisitor(d, ConfirmCandidate(s, FALSE))
        BY <3>1, <3>2 DEF SameVisitor, Mark, Gate
      <3>4. QED
        BY <3>1, <3>3, SameVisitorTwice
    <2>3. QED
      BY <2>1, <2>2
  <1>3. ASSUME s.candidate # None PROVE BoundTo(s, ConfirmCandidate(s, TRUE), s.candidate)
    <2>1. s.candidate # None
      BY <1>3
    <2> DEFINE b == Bind(s, s.candidate)
               c == Confirmation("accepted", s.candidate)
    <2>2. ConfirmCandidate(s, TRUE) =
            Mark([b EXCEPT !.confirm = c], "visitor_bound", "identity_confirmation")
      BY <2>1 DEF ConfirmCandidate
    <2>3. b \in Gate /\ BoundTo(s, b, s.candidate)
      BY <1>1, BindBinds
    <2> HIDE DEF b, c
    <2>4. BoundTo(s, Mark([b EXCEPT !.confirm = c], "visitor_bound", "identity_confirmation"),
                  s.candidate)
      BY <2>3, LabelBound
    <2>5. QED
      BY <2>2, <2>4, Zenon
  <1>4. s.candidate = None => SameVisitor(s, ConfirmCandidate(s, TRUE))
    BY <1>1, LabelSame DEF ConfirmCandidate
  <1>5. s.waiting => s.candidate # None
    BY DEF Sound, OfferConsistent
  <1>6. QED
    BY <1>2, <1>3, <1>4, <1>5

\* A turn that confirms nothing leaves the visitor alone; one that confirms binds.
LEMMA EnterWithIs ==
  ASSUME NEW a \in Answers, NEW i \in BOOLEAN, Sound(gate)
  PROVE  /\ ~Confirms(a) => SameVisitor(gate, EnterWith(a, i))
         /\ Confirms(a) => BoundTo(gate, EnterWith(a, i), EnterWith(a, i).primary)
  <1> DEFINE e == ExpireCandidate(gate)
             n == IF Offered /\ a # "unclear" THEN ConfirmCandidate(e, a = "accepted") ELSE e
  <1>1. Sound(e) /\ SameVisitor(gate, e) /\ Offered = e.waiting
    BY ExpireCandidateSound, ExpireSame DEF Sound, Offered
  <1>2. EnterWith(a, i) = BeforeTurn(n, i)
    BY DEF EnterWith
  <1> HIDE DEF e
  <1>3. Sound(n)
    <2>1. Sound(ConfirmCandidate(e, TRUE)) /\ Sound(ConfirmCandidate(e, FALSE))
      BY <1>1, ConfirmCandidateSound
    <2>2. n \in {e, ConfirmCandidate(e, TRUE), ConfirmCandidate(e, FALSE)}
      BY DEF n
    <2>3. QED
      BY <1>1, <2>1, <2>2
  <1>4. SameVisitor(n, EnterWith(a, i))
    BY <1>2, <1>3, BeforeTurnSame
  <1>5. ASSUME ~Confirms(a) PROVE SameVisitor(gate, EnterWith(a, i))
    <2>1. n = e \/ n = ConfirmCandidate(e, FALSE)
      BY <1>5 DEF Confirms, n
    <2>2. SameVisitor(e, e) /\ SameVisitor(e, ConfirmCandidate(e, FALSE))
      BY <1>1, ConfirmCandidateIs DEF SameVisitor
    <2>3. SameVisitor(e, n)
      BY <2>1, <2>2
    <2> HIDE DEF n
    <2>4. QED
      BY <1>1, <1>4, <2>3, SameVisitorTwice
  <1>6. ASSUME Confirms(a) PROVE BoundTo(gate, EnterWith(a, i), EnterWith(a, i).primary)
    <2>1. e.waiting /\ n = ConfirmCandidate(e, TRUE)
      BY <1>1, <1>6 DEF Confirms, n
    <2>2. BoundTo(e, n, e.candidate)
      BY <1>1, <2>1, ConfirmCandidateIs
    <2> HIDE DEF n
    <2>3. BoundTo(gate, n, e.candidate)
      BY <1>1, <2>2, SameVisitorTwice
    <2>4. BoundTo(gate, EnterWith(a, i), e.candidate)
      BY <1>4, <2>3, BoundStays
    <2>5. EnterWith(a, i).primary = e.candidate
      BY <2>4 DEF BoundTo
    <2>6. QED
      BY <2>4, <2>5
  <1>7. QED
    BY <1>5, <1>6

LEMMA TickSame ==
  ASSUME Sound(gate), Tick
  PROVE  SameVisitor(gate, gate')
  BY DEF Sound, Gate, Tick, SameVisitor

LEMMA SystemEventSame ==
  ASSUME Sound(gate), NEW e \in SystemEvents, SystemEvent(e)
  PROVE  SameVisitor(gate, gate')
  <1>1. gate \in Gate
    BY DEF Sound
  <1> DEFINE d == DropCandidate(gate)
  <1>2. d \in Gate /\ SameVisitor(gate, d)
    BY <1>1, DropCandidateType, DropCandidateSame
  <1>3. CASE gate' = Mark(gate, "continue_current", e)
    BY <1>1, <1>3, MarkSame
  <1>4. CASE gate' = Mark([gate EXCEPT !.runtime = "encounter_candidate",
                                       !.intent  = "unconfirmed"], "observe_only", e)
    BY <1>1, <1>4 DEF SameVisitor, Mark, Gate
  <1>5. CASE gate' = Mark([gate EXCEPT !.intent = "no_response"], "observe_only", e)
    BY <1>1, <1>5 DEF SameVisitor, Mark, Gate
  <1>6. CASE gate' = Mark([d EXCEPT !.runtime = "idle", !.intent = "unconfirmed"],
                          "observe_only", e)
    <2> HIDE DEF d
    <2>1. SameVisitor(d, gate')
      BY <1>2, <1>6 DEF SameVisitor, Mark, Gate
    <2>2. QED
      BY <1>2, <2>1, SameVisitorTwice
  <1>7. QED
    BY <1>3, <1>4, <1>5, <1>6 DEF SystemEvent

\* A known face, while nobody is bound, is only offered.
LEMMA AskKnownFaceSame ==
  ASSUME Sound(gate), gate.primary = None, NEW v \in Visitors, NEW l \in {"medium", "high"},
         ApplyIdentityMatch([who |-> v, level |-> l, ask |-> TRUE])
  PROVE  SameVisitor(gate, gate')
  <1> DEFINE m == [who |-> v, level |-> l, ask |-> TRUE]
  <1>1. gate \in Gate
    BY DEF Sound
  <1>2. m.who = v /\ v # None /\ m.ask = TRUE /\ m.level = l
    BY NoneAssumption
  <1>3. ApplyIdentityMatch(m)
    OBVIOUS
  <1> HIDE DEF m
  <1>4. ~MatchNobody(m) /\ ~AutoBind(m) /\ ~MatchPrimary(m)
    BY <1>2 DEF MatchNobody, AutoBind, AutoBinds, MatchPrimary
  <1>5. ~InGrace(gate)
    BY DEF InGrace, ScopeMode
  <1>6. ~RefuseDuringGrace(m) /\ ~RefuseDuringDialogue(m) /\ ~IgnoreMatch(m)
    BY <1>2, <1>5 DEF RefuseDuringGrace, RefuseDuringDialogue, IgnoreMatch, IntrudesOnGrace,
                      IntrudesOnDialogue, Ignored
  <1>7. AskCandidate(m)
    BY <1>3, <1>4, <1>6 DEF ApplyIdentityMatch
  <1>8. QED
    BY <1>1, <1>7 DEF AskCandidate, OpenCandidate, Mark, SameVisitor, Gate

\* What the identity API may do to the visitor.
LEMMA MatchLeavesOrBinds ==
  ASSUME Sound(gate), NEW m \in Matches, ApplyIdentityMatch(m)
  PROVE  SameVisitor(gate, gate') \/ Rebound(gate, gate')
  <1>1. gate \in Gate
    BY DEF Sound
  <1> DEFINE d == DropCandidate(gate)
  <1>2. d \in Gate /\ SameVisitor(gate, d)
    BY <1>1, DropCandidateType, DropCandidateSame
  <1>3. \A i, c, e : SameVisitor(d, Mark([d EXCEPT !.identity = i, !.confirm = c], e, "identity_match"))
    <2> HIDE DEF d
    <2>1. QED
      BY <1>2 DEF SameVisitor, Mark, Gate
  <1>4. CASE MatchNobody(m)
    <2> HIDE DEF d
    <2>1. gate' = Mark([d EXCEPT !.confirm = NoConfirmation], "observe_only", "identity_match")
      BY <1>4 DEF MatchNobody, d
    <2>2. SameVisitor(d, gate')
      BY <1>2, <2>1 DEF SameVisitor, Mark, Gate
    <2>3. QED
      BY <1>2, <2>2, SameVisitorTwice
  <1>5. CASE MatchPrimary(m)
    <2> DEFINE c == Confirmation("accepted", m.who)
    <2>1. gate' = Mark([d EXCEPT !.identity = "confirmed", !.confirm = c],
                       "continue_current", "identity_match")
      BY <1>5 DEF MatchPrimary
    <2> HIDE DEF d, c
    <2>2. SameVisitor(d, gate')
      BY <1>3, <2>1
    <2>3. QED
      BY <1>2, <2>2, SameVisitorTwice
  <1>6. CASE IgnoreMatch(m)
    <2> DEFINE i == IdentityOf(gate.primary)
    <2>1. gate' = Mark([d EXCEPT !.identity = i, !.confirm = NoConfirmation],
                       "observe_only", "identity_match")
      BY <1>6 DEF IgnoreMatch
    <2> HIDE DEF d, i
    <2>2. SameVisitor(d, gate')
      BY <1>3, <2>1
    <2>3. QED
      BY <1>2, <2>2, SameVisitorTwice
  <1>7. CASE RefuseDuringGrace(m)
    <2>1. SameVisitor(d, gate')
      <3> DEFINE c == Confirmation("interruption_recorded", m.who)
      <3>1. gate' = Mark([d EXCEPT !.runtime = "interrupted",
                                   !.identity = "primary_missing_grace", !.confirm = c],
                         "refuse_switch", "identity_match")
        BY <1>7 DEF RefuseDuringGrace
      <3> HIDE DEF d, c
      <3>2. QED
        BY <1>2, <3>1 DEF SameVisitor, Mark, Gate
    <2>2. QED
      BY <1>2, <2>1, SameVisitorTwice
  <1>8. CASE RefuseDuringDialogue(m)
    <2>1. SameVisitor(d, gate')
      <3> DEFINE c == Confirmation("interruption_recorded", m.who)
      <3>1. gate' = Mark([d EXCEPT !.runtime = "interrupted", !.candidate = m.who,
                                   !.identity = "interruption_candidate", !.confirm = c],
                         "refuse_switch", "identity_match")
        BY <1>8 DEF RefuseDuringDialogue
      <3> HIDE DEF d, c
      <3>2. QED
        BY <1>2, <3>1 DEF SameVisitor, Mark, Gate
    <2>2. QED
      BY <1>2, <2>1, SameVisitorTwice
  <1>9. CASE AutoBind(m)
    <2> DEFINE b == Bind(gate, m.who)
               c == Confirmation("accepted", m.who)
    <2>1. gate' = Mark([b EXCEPT !.confirm = c], "visitor_bound", "identity_match")
      BY <1>9 DEF AutoBind
    <2>2. b \in Gate /\ BoundTo(gate, b, m.who)
      BY <1>1, BindBinds DEF Matches
    <2> HIDE DEF b, c
    <2>3. BoundTo(gate, Mark([b EXCEPT !.confirm = c], "visitor_bound", "identity_match"), m.who)
      BY <2>2, LabelBound
    <2>4. BoundTo(gate, gate', m.who)
      BY <2>1, <2>3
    <2>5. QED
      BY <2>4 DEF BoundTo, Rebound
  <1>10. CASE AskCandidate(m)
    BY <1>1, <1>10 DEF AskCandidate, OpenCandidate, Mark, SameVisitor, Gate
  <1>11. QED
    BY <1>4, <1>5, <1>6, <1>7, <1>8, <1>9, <1>10 DEF ApplyIdentityMatch

LEMMA ConfirmLeavesOrBinds ==
  ASSUME NEW s, Sound(s), NEW a \in BOOLEAN
  PROVE  SameVisitor(s, ConfirmCandidate(s, a)) \/ Rebound(s, ConfirmCandidate(s, a))
  <1>1. \/ SameVisitor(s, ConfirmCandidate(s, a))
        \/ BoundTo(s, ConfirmCandidate(s, a), s.candidate)
    BY ConfirmCandidateIs
  <1>2. QED
    BY <1>1 DEF BoundTo, Rebound

\* A new status for session n: the last release is all that is kept of the old one.
LEMMA ConfigureSessionRebinds ==
  ASSUME Sound(gate), NEW n \in Nat, NEW v \in Persons, NEW d \in Decisions
  PROVE  /\ Rebound(gate, ConfigureSession(gate, n, v, d))
         /\ ConfigureSession(gate, n, v, d).session = n
         /\ ConfigureSession(gate, n, v, d).primary = v
         /\ ConfigureSession(gate, n, v, d) \in Gate
  <1> DEFINE t == NewStatus(n, v)
             c == ConfigureSession(gate, n, v, d)
  <1>1. /\ t \in Gate /\ t.session = n /\ t.primary = v /\ t.track = NoTrack
        /\ t.presence # "missing_grace"
    BY NewStatusType DEF NewStatus, PresenceOf, Persons
  <1>2. c = [t EXCEPT !.released = gate.released, !.releasedTo = gate.releasedTo,
                      !.decision = d, !.event = "session_configured"]
    BY DEF ConfigureSession
  <1>3. c \in Gate
    BY ConfigureSessionSound DEF Sound, Persons
  <1> HIDE DEF t
  <1>4. /\ c.session = n /\ c.primary = v /\ c.track = NoTrack
        /\ c.presence # "missing_grace" /\ c.released = gate.released
    BY <1>1, <1>2 DEF Gate
  <1>5. QED
    BY <1>3, <1>4 DEF Rebound

-----------------------------------------------------------------------------
(* Tasks that nobody asks for never wait for the lock.                      *)

\* The tasks that change the session or the visitor behind the dispatcher's back.
Behind == {"reset", "reload", "bind"}

Without(T) == \A e \in Entered : e.task \notin T

\* No request leads to a task of T.
NotAskedFor(T) ==
  /\ T \subseteq Behind
  /\ "reset"  \in T => "reset"  \notin Requests
  /\ "reload" \in T => "reload" \notin Requests
  /\ "bind"   \in T => Requests \intersect {"match", "confirm"} = {}

LEMMA EnterWithout ==
  ASSUME LockOK, NEW T, Without(T), NEW e \in Entries, Enter(e), e.task \notin T
  PROVE  Without(T)'
  <1>1. \A x \in Entered' : x \in Entered \/ x = e
    BY EnterEntered
  <1>2. QED
    BY <1>1 DEF Without

LEMMA LeaveWithout ==
  ASSUME NEW T \in SUBSET Behind, Without(T), \A x \in Entered' : x \in Entered \/ x = Free
  PROVE  Without(T)'
  <1>1. Free.task \notin T
    BY DEF Free, Behind
  <1>2. QED
    BY <1>1 DEF Without

LEMMA ServeWithout ==
  ASSUME HandoffInv, NEW T \in SUBSET Behind, Without(T), Serve
  PROVE  Without(T)'
  <1>1. LockOK
    BY DEF HandoffInv
  <1>2. ASSUME NEW e, Runs(e), Leave PROVE Without(T)'
    <2>1. \A x \in Entered' : x \in Entered \/ x = Free
      BY <1>1, <1>2, LeaveEntered
    <2>2. QED
      BY <2>1, LeaveWithout
  <1>3. ASSUME NEW e, Runs(e) \/ (lock = Free /\ queue # << >> /\ Head(queue) = e), Keep(e)
        PROVE  Without(T)'
    <2>1. \A x \in Entered' : x \in Entered
      BY <1>1, <1>3, KeepEntered
    <2>2. QED
      BY <2>1 DEF Without
  <1>4. ASSUME NEW a, NEW i,
               TurnContinues(a, i) \/ TurnInGrace(a, i) \/ TurnInGraceFails(a, i) \/ TurnBinds(i)
                 \/ TurnBindFails
        PROVE  Without(T)'
    BY <1>2, <1>3, <1>4
       DEF TurnContinues, TurnInGrace, TurnInGraceFails, TurnBinds, TurnBindFails
  <1>5. CASE TurnCaptured
    BY <1>5 DEF TurnCaptured, lockVars, Without, Entered
  <1>6. CASE TurnDone \/ EventDone
    <2>1. lock # Free /\ Leave
      BY <1>6 DEF TurnDone, EventDone, Free
    <2>2. QED
      BY <2>1, HolderLeavesEntered, LeaveWithout
  <1>7. CASE CaptureMatched
    <2>1. CaptureEntry \in Entries /\ CaptureEntry.task \notin T
      BY NamedEntries, EntryIs DEF CaptureEntry, Behind
    <2>2. QED
      BY <1>1, <1>7, <2>1, EnterWithout DEF CaptureMatched
  <1>8. CASE CaptureApplies \/ Archive
    BY <1>2, <1>8 DEF CaptureApplies, Archive
  <1>9. CASE EventStarts
    BY <1>3, <1>9 DEF EventStarts
  <1>10. ASSUME NEW v,
                Handoff(v) \/ HandoffLeftOut(v) \/ BindFromIdentity(v) \/ Create(v) \/ Select(v)
         PROVE  Without(T)'
    BY <1>2, <1>10 DEF Handoff, HandoffLeftOut, BindFromIdentity, Create, Select
  <1>11. ASSUME NEW s, NEW v, Reset(s, v) \/ Reload(s)
         PROVE  Without(T)'
    BY <1>2, <1>11 DEF Reset, Reload
  <1>12. QED
    BY <1>4, <1>5, <1>6, <1>7, <1>8, <1>9, <1>10, <1>11 DEF Serve

LEMMA HappensWithout ==
  ASSUME HandoffInv, NEW T, NotAskedFor(T), Without(T), Happens
  PROVE  Without(T)'
  <1> DEFINE Allowed(e) == e \in Entries /\ e.task \notin T
  <1>1. /\ LockOK /\ Sound(gate) /\ gate.primary \in Persons /\ profiles \subseteq Visitors
        /\ app.loop.session \in Sessions \union {NoSession} /\ app.loop.scope \in Persons
    BY AppFieldTypes, GateFieldTypes DEF HandoffInv, GateOK, AppOK
  <1>2. ASSUME NEW e, Allowed(e), Enter(e) PROVE Without(T)'
    BY <1>1, <1>2, EnterWithout
  <1>3. ASSUME UNCHANGED lockVars PROVE Without(T)'
    BY <1>3 DEF lockVars, Without, Entered
  <1>4. /\ Allowed(TurnEntry) /\ Allowed(ArchiveEntry) /\ Allowed(EventEntry)
        /\ \A v \in Persons : /\ Allowed(Entry("select", NoSession, v))
                              /\ Allowed(Entry("create", NoSession, v))
                              /\ Allowed(Entry("handoff", NoSession, v))
    <2>1. {"turn", "archive", "events", "select", "create", "handoff"} \subseteq Tasks
          /\ None \in Persons
      BY DEF Tasks, Persons
    <2>2. ASSUME NEW t \in {"turn", "archive", "events", "select", "create", "handoff"},
                 NEW s \in Sessions \union {NoSession}, NEW v \in Persons
          PROVE  Allowed(Entry(t, s, v))
      <3>1. t \in Tasks /\ t \notin T
        BY <2>1 DEF NotAskedFor, Behind
      <3>2. Entry(t, s, v) \in Entries /\ Entry(t, s, v).task = t
        BY <3>1, EntryType, EntryIs
      <3>3. QED
        BY <3>1, <3>2
    <2> HIDE DEF Allowed
    <2>3. QED
      BY <1>1, <2>1, <2>2 DEF TurnEntry, ArchiveEntry, EventEntry
  <1> HIDE DEF Allowed
  <1>5. CASE TurnArrives
    BY <1>2, <1>4, <1>5 DEF TurnArrives
  <1>6. CASE SelectArrives \/ CreateArrives
    <2>1. Visitors \subseteq Persons /\ profiles \union {None} \subseteq Persons
      BY <1>1 DEF Persons
    <2>2. QED
      BY <1>2, <1>4, <1>6, <2>1 DEF SelectArrives, CreateArrives, RequestArrives
  <1>7. CASE ResetArrives \/ ReloadArrives
    <2>1. {"reset", "reload"} \subseteq Tasks /\ None \in Persons
          /\ app.session \in Sessions /\ app.visitor \in Persons
      BY AppFieldTypes DEF Tasks, Persons, HandoffInv
    <2>2. /\ Entry("reset", app.session, app.visitor) \in Entries
          /\ Entry("reload", app.session, None) \in Entries
      BY <2>1, EntryType
    <2>3. /\ ResetArrives => Allowed(Entry("reset", app.session, app.visitor))
          /\ ReloadArrives => Allowed(Entry("reload", app.session, None))
      BY <2>2, EntryIs DEF NotAskedFor, ResetArrives, ReloadArrives, RequestArrives, Allowed
    <2>4. QED
      BY <1>2, <1>7, <2>3 DEF ResetArrives, ReloadArrives, RequestArrives
  <1>8. ASSUME gate'.primary \in Persons, "bind" \notin T, BindIfBound PROVE Without(T)'
    <2>1. "bind" \in Tasks
      BY DEF Tasks
    <2>2. Allowed(Entry("bind", NoSession, gate'.primary))
      BY <1>8, <2>1, EntryType, EntryIs DEF Allowed
    <2>3. QED
      BY <1>2, <1>3, <1>8, <2>2 DEF BindIfBound
  <1>9. ASSUME NEW m \in Matches, MatchRequest(m) PROVE Without(T)'
    <2>1. Sound(gate') /\ "bind" \notin T
      BY <1>1, <1>9, ApplyIdentityMatchSound DEF MatchRequest, NotAskedFor
    <2>2. QED
      BY <1>8, <1>9, <2>1, GateFieldTypes DEF MatchRequest
  <1>10. ASSUME NEW a \in BOOLEAN, ConfirmRequest(a) PROVE Without(T)'
    <2>1. Sound(gate') /\ "bind" \notin T
      BY <1>1, <1>10, SoundConfirm DEF ConfirmRequest, NotAskedFor
    <2>2. QED
      BY <1>8, <1>10, <2>1, GateFieldTypes DEF ConfirmRequest
  <1>11. ASSUME NEW a, NEW h, NEW d, ConfigRequest(a, h, d) PROVE Without(T)'
    BY <1>3, <1>11 DEF ConfigRequest
  <1>12. ASSUME NEW e \in SystemEvents, EventArrives(e) PROVE Without(T)'
    BY <1>2, <1>4, <1>12 DEF EventArrives
  <1>13. ASSUME NEW r \in Reports, Poll(r) PROVE Without(T)'
    <2>1. (\E e : Allowed(e) /\ Enter(e)) \/ UNCHANGED lockVars
      BY <1>1, <1>4, <1>13, PollEnters
    <2>2. QED
      BY <1>2, <1>3, <2>1
  <1>14. CASE TimePasses
    BY <1>3, <1>14 DEF TimePasses
  <1>15. QED
    BY <1>5, <1>6, <1>7, <1>9, <1>10, <1>11, <1>12, <1>13, <1>14 DEF Happens

LEMMA NextWithout ==
  ASSUME HandoffInv, NEW T, NotAskedFor(T), Without(T), [HandoffNext]_vars
  PROVE  Without(T)'
  <1>1. CASE UNCHANGED vars
    BY <1>1 DEF vars, Without, Entered
  <1>2. QED
    BY <1>1, ServeWithout, HappensWithout DEF HandoffNext, NotAskedFor

LEMMA InitWithout ==
  ASSUME HandoffInit, NEW T \in SUBSET Behind
  PROVE  Without(T)
  BY DEF HandoffInit, Without, Entered, Free, Behind

-----------------------------------------------------------------------------
(* What is done to the sessions.                                            *)

\* The temporary session is not the current one, and nobody who waits has read its
\* number as that of the current one: a reload, which writes back what it has read, does
\* not make it the current one.
SessionInv ==
  /\ app.loop.session = app.session
  /\ app.grace # NoLoop => /\ app.grace.session # app.session
                           /\ \A e \in Entered : e.session # app.grace.session

LEMMA NewIsUnused ==
  ASSUME NEW s, NewSession(s)
  PROVE  /\ s # app.session /\ s # app.grace.session /\ s # gate.session
         /\ \A e \in Entered : s # e.session
  BY DEF NewSession, Unused

LEMMA NoLoopIs == NoLoop.session = NoSession
  BY DEF NoLoop

\* What a rebuild of the loop for the current session does.
LEMMA BindSessionIs ==
  ASSUME AppOK, NEW v \in Persons, BindSession(v)
  PROVE  /\ app' = [app EXCEPT !.visitor = v,
                               !.loop = [session |-> app.session, scope |-> v]]
         /\ app'.session = app.session /\ app'.visitor = v /\ app'.grace = app.grace
         /\ app'.loop = [session |-> app.session, scope |-> v]
         /\ rows'[app.session].visitor = v
         /\ \A s \in Sessions : rows'[s].open = rows[s].open
  <1> DEFINE table == [rows EXCEPT ![app.session].visitor = v]
             l == LoopOf(app.session, v, table)
  <1>1. app.session \in Sessions /\ rows \in RowTypes /\ app \in AppTypes
    BY AppFieldTypes DEF AppOK
  <1>2. table[app.session].visitor = v /\ \A s \in Sessions : table[s].open = rows[s].open
    BY <1>1 DEF RowTypes
  <1>3. rows' = table /\ app' = [app EXCEPT !.session = app.session, !.visitor = v, !.loop = l]
    BY DEF BindSession, Current
  <1>4. l = [session |-> app.session, scope |-> v]
    BY <1>2 DEF LoopOf
  <1> HIDE DEF table, l
  <1>5. /\ app' = [app EXCEPT !.visitor = v, !.loop = l]
        /\ app'.session = app.session /\ app'.visitor = v /\ app'.grace = app.grace
        /\ app'.loop = l
    BY <1>1, <1>3 DEF AppTypes
  <1>6. QED
    BY <1>2, <1>3, <1>4, <1>5

\* As far as the open sessions go, nothing happens.
SameSessions ==
  /\ app'.session = app.session /\ app'.grace = app.grace
  /\ \A s \in Sessions : rows'[s].open = rows[s].open

\* A temporary session is inserted: _ensure_unscoped_grace_loop_locked.
InsertsGrace(s) ==
  /\ app.grace = NoLoop
  /\ s \in Sessions /\ NewSession(s)
  /\ rows' = [rows EXCEPT ![s] = [visitor |-> None, open |-> TRUE]]
  /\ app'  = [app EXCEPT !.grace = [session |-> s, scope |-> None]]

LEMMA InsertsGraceIs ==
  ASSUME AppOK, NEW s, InsertsGrace(s)
  PROVE  /\ app'.session = app.session /\ app'.visitor = app.visitor /\ app'.loop = app.loop
         /\ app'.grace.session = s /\ s # app.session /\ s # NoSession
         /\ \A t \in Sessions : rows'[t].open <=> (t = s \/ rows[t].open)
         /\ rows'[app.session] = rows[app.session]
  <1>1. /\ s \in Sessions /\ s # app.session /\ s # NoSession
        /\ app \in AppTypes /\ rows \in RowTypes /\ app.session \in Sessions
    BY NewIsUnused, SessionNumbers, AppFieldTypes DEF InsertsGrace, AppOK
  <1> DEFINE l == [session |-> s, scope |-> None]
  <1>2. l.session = s /\ app' = [app EXCEPT !.grace = l]
    BY DEF InsertsGrace
  <1> HIDE DEF l
  <1>3. /\ app'.session = app.session /\ app'.visitor = app.visitor /\ app'.loop = app.loop
        /\ app'.grace = l
    BY <1>1, <1>2 DEF AppTypes
  <1>4. /\ \A t \in Sessions : rows'[t].open <=> (t = s \/ rows[t].open)
        /\ rows'[app.session] = rows[app.session]
    BY <1>1 DEF InsertsGrace, RowTypes
  <1>5. QED
    BY <1>1, <1>2, <1>3, <1>4

LEMMA ArchiveIs ==
  ASSUME AppOK, SessionInv, Archive
  PROVE  /\ app'.session = app.session /\ app'.visitor = app.visitor /\ app'.loop = app.loop
         /\ app'.grace = NoLoop
         /\ \A t \in Sessions : rows'[t].open <=> (rows[t].open /\ t # app.grace.session)
         /\ rows'[app.session].visitor = rows[app.session].visitor
  <1>1. /\ app \in AppTypes /\ rows \in RowTypes /\ app.session \in Sessions
        /\ app.grace # NoLoop => app.grace.session \in Sessions
    BY AppFieldTypes DEF AppOK
  <1>2. app.grace # NoLoop => app.grace.session # app.session
    BY DEF SessionInv
  <1>3. app' = [app EXCEPT !.grace = NoLoop]
    <2>1. CASE app.grace = NoLoop
      <3>1. app' = app
        BY <2>1 DEF Archive
      <3>2. QED
        BY <1>1, <2>1, <3>1 DEF AppTypes
    <2>2. CASE app.grace # NoLoop
      BY <1>2, <2>2 DEF Archive
    <2>3. QED
      BY <2>1, <2>2
  <1>4. /\ app'.session = app.session /\ app'.visitor = app.visitor /\ app'.loop = app.loop
        /\ app'.grace = NoLoop
    BY <1>1, <1>3 DEF AppTypes
  <1>5. /\ \A t \in Sessions : rows'[t].open <=> (rows[t].open /\ t # app.grace.session)
        /\ rows'[app.session].visitor = rows[app.session].visitor
    <2>1. CASE app.grace = NoLoop
      <3>1. rows' = rows
        BY <2>1 DEF Archive
      <3>2. \A t \in Sessions : t # app.grace.session
        BY <2>1, NoLoopIs, SessionNumbers
      <3>3. QED
        BY <3>1, <3>2
    <2>2. CASE app.grace # NoLoop
      <3>1. rows' = [rows EXCEPT ![app.grace.session].open = FALSE]
        BY <1>2, <2>2 DEF Archive
      <3>2. QED
        BY <1>1, <1>2, <2>2, <3>1 DEF RowTypes
    <2>3. QED
      BY <2>1, <2>2
  <1>6. QED
    BY <1>4, <1>5

\* Session s succeeds: the temporary one if there is one, and a new one if there is not.
Succeeds(s) ==
  /\ s \in Sessions
  /\ \/ app.grace # NoLoop /\ s = app.grace.session
     \/ app.grace = NoLoop /\ NewSession(s)

LEMMA HandOverIs ==
  ASSUME AppOK, SessionInv, NEW s, Succeeds(s), HandOver(s)
  PROVE  /\ app'.session = s /\ app'.visitor = None /\ app'.grace = NoLoop
         /\ app'.loop = [session |-> s, scope |-> None]
         /\ rows'[s].visitor = None
         /\ \A t \in Sessions : rows'[t].open <=> (t = s \/ (rows[t].open /\ t # app.session))
  <1>1. /\ app'.session = s /\ app'.visitor = None /\ app'.grace = NoLoop
        /\ app'.loop = [session |-> s, scope |-> None]
    BY DEF HandOver
  <1>2. /\ rows \in RowTypes /\ app.session \in Sessions /\ s \in Sessions
    BY AppFieldTypes DEF AppOK, Succeeds
  <1>3. s # app.session
    BY NewIsUnused DEF Succeeds, SessionInv
  <1>4. /\ rows'[s].visitor = None
        /\ \A t \in Sessions : rows'[t].open <=> (t = s \/ (rows[t].open /\ t # app.session))
    BY <1>2, <1>3 DEF HandOver, RowTypes
  <1>5. QED
    BY <1>1, <1>4

\* What the controller is told of a handoff.
LEMMA HandOverGate ==
  ASSUME Sound(gate), NEW s \in Sessions, HandOver(s)
  PROVE  Rebound(gate, gate') /\ gate'.session = s /\ gate'.primary = None
  <1> DEFINE c == ConfigureSession(gate, s, None, "visitor_cleared")
  <1>1. /\ c \in Gate /\ Rebound(gate, c) /\ c.session = s /\ c.primary = None
    <2>1. s \in Nat /\ None \in Persons /\ "visitor_cleared" \in Decisions
      BY SessionNumbers DEF Persons, Decisions
    <2>2. QED
      BY <2>1, ConfigureSessionRebinds
  <1>2. gate' = RecordReleaseSession(c, s)
    BY DEF HandOver
  <1> HIDE DEF c
  <1>3. gate' = c \/ gate' = [c EXCEPT !.releasedTo = s]
    BY <1>2 DEF RecordReleaseSession
  <1>4. /\ gate'.session = c.session /\ gate'.primary = c.primary /\ gate'.track = c.track
        /\ gate'.presence = c.presence /\ gate'.released = c.released
    BY <1>1, <1>3 DEF Gate
  <1>5. QED
    BY <1>1, <1>4 DEF Rebound

-----------------------------------------------------------------------------
(* The kinds of steps.  What a step does to the controller, to the session, *)
(* to the temporary session, and to the entries of the dispatcher.          *)

Dispatched == {"handoff", "archive"}

HandingOver(v) == Entry("handoff", NoSession, v) \in Entered
Archiving      == ArchiveEntry \in Entered

\* What may come to the lock but from the dispatcher.
Newcomer(x) == x.task \notin Dispatched /\ x.session \in {NoSession, app.session}

\* The dispatcher's entries stay, and no new one comes.
Kept ==
  /\ \A x \in Entered : x.task \in Dispatched => x \in Entered'
  /\ \A x \in Entered' : x \in Entered \/ Newcomer(x)

\* One of them is done with; no new one comes, and the others stay.
Done(e) ==
  /\ e \in Entered
  /\ \A x \in Entered : x # e /\ x.task \in Dispatched => x \in Entered'
  /\ \A x \in Entered' : x \in Entered \/ Newcomer(x)

Quiet == SameVisitor(gate, gate') /\ UNCHANGED << app, rows, absentee >> /\ Kept

\* The visitor is bound, in the controller and in the runtime.
Binds(v) ==
  /\ v \in Persons
  /\ BoundTo(gate, gate', v)
  /\ BindSession(v)
  /\ UNCHANGED absentee
  /\ Kept

OpensGrace(s) ==
  /\ SameVisitor(gate, gate')
  /\ InGrace(gate')
  /\ InsertsGrace(s)
  /\ absentee' = gate.primary
  /\ Kept

Archives ==
  /\ Archive
  /\ Done(ArchiveEntry)

LeavesOut(v) ==
  /\ v \in Persons
  /\ app.visitor # v \/ LlmMayFail
  /\ UNCHANGED << gate, app, rows, absentee >>
  /\ Done(Entry("handoff", NoSession, v))

HandsOver(v, s) ==
  /\ v \in Visitors
  /\ app.visitor = v
  /\ Succeeds(s)
  /\ HandOver(s)
  /\ UNCHANGED absentee
  /\ Done(Entry("handoff", NoSession, v))

\* The identity API, a reset, a reload, or a failing LLM client: controller and runtime
\* go separate ways, but the temporary session stays what it is.
Disturbs ==
  /\ SameVisitor(gate, gate') \/ Rebound(gate, gate')
  /\ app'.grace = app.grace
  /\ app'.loop.session = app'.session
  /\ app.grace # NoLoop => app'.session # app.grace.session
  /\ UNCHANGED absentee
  /\ Kept
  /\ LlmMayFail \/ Requests \intersect {"match", "confirm"} # {} \/ ~Without(Behind)
  /\ SameSessions \/ LlmMayFail \/ ~Without({"reset", "reload"})

KindOfStep ==
  \/ Quiet
  \/ \E v : Binds(v)
  \/ \E s : OpensGrace(s)
  \/ Archives
  \/ \E v : LeavesOut(v)
  \/ \E v, s : HandsOver(v, s)
  \/ \E r \in Reports : Poll(r)
  \/ Disturbs

-----------------------------------------------------------------------------
(* Every step is of one of these kinds.                                     *)

LEMMA DispatchedIsNotFree ==
  ASSUME NEW x, x.task \in Dispatched
  PROVE  x # Free
  BY DEF Free, Dispatched

LEMMA FreeComes == Newcomer(Free)
  BY DEF Newcomer, Free, Dispatched

LEMMA EnterKept ==
  ASSUME LockOK, NEW e \in Entries, Enter(e), Newcomer(e)
  PROVE  Kept
  BY EnterEntered, DispatchedIsNotFree DEF Kept

LEMMA LeaveKept ==
  ASSUME LockOK, NEW e, Runs(e), Leave, e.task \notin Dispatched
  PROVE  Kept
  BY LeaveEntered, DispatchedIsNotFree, FreeComes DEF Kept

LEMMA HolderLeaveKept ==
  ASSUME lock # Free, lock.task \notin Dispatched, Leave
  PROVE  Kept
  BY HolderLeavesEntered, DispatchedIsNotFree, FreeComes DEF Kept

LEMMA KeepKept ==
  ASSUME LockOK, NEW e, Runs(e) \/ (lock = Free /\ queue # << >> /\ Head(queue) = e), Keep(e)
  PROVE  Kept
  BY KeepEntered, DispatchedIsNotFree DEF Kept

LEMMA LockStaysKept ==
  ASSUME UNCHANGED lockVars
  PROVE  Kept
  BY DEF Kept, Entered, lockVars

LEMMA LeaveDone ==
  ASSUME LockOK, NEW e, Runs(e), Leave
  PROVE  Done(e)
  BY LeaveEntered, RunsIsEntered, DispatchedIsNotFree, FreeComes DEF Done

\* The entries that do not come from the dispatcher.
LEMMA Newcomers ==
  /\ Newcomer(TurnEntry)
  /\ Newcomer(CaptureEntry)
  /\ SessionInv => Newcomer(EventEntry)
  /\ \A t \in Tasks \ Dispatched : \A v :
       Newcomer(Entry(t, NoSession, v)) /\ Newcomer(Entry(t, app.session, v))
  BY EntryIs DEF TurnEntry, CaptureEntry, EventEntry, Newcomer, SessionInv, Dispatched

LEMMA ClientTasks ==
  {"turn", "events", "capture", "select", "create", "reset", "reload", "bind"} \subseteq Tasks \ Dispatched
  BY DEF Tasks, Dispatched

\* What a face capture leads to.
LEMMA FaceCaptureKind ==
  ASSUME HandoffInv, ApplyFaceCapture, Kept
  PROVE  KindOfStep
  <1>1. Sound(gate) /\ gate \in Gate /\ profiles \subseteq Visitors
    BY DEF HandoffInv, GateOK, AppOK, Sound
  <1>2. CASE UNCHANGED << gate, config, app, rows, profiles >>
    BY <1>2 DEF ApplyFaceCapture, KindOfStep, Quiet, SameVisitor
  <1>3. CASE CaptureRouted /\ Provision
    <2>1. PICK v \in Visitors \ profiles : BindSession(v) /\ gate' = SetPrimaryVisitor(gate, v)
      BY <1>3 DEF Provision
    <2>2. Binds(v)
      BY <1>1, <2>1, SetPrimaryBinds DEF Binds, Persons, ApplyFaceCapture
    <2>3. QED
      BY <2>2 DEF KindOfStep
  <1>4. CASE CaptureRouted /\ ProvisionFails
    BY <1>4 DEF ProvisionFails, ApplyFaceCapture, KindOfStep, Quiet, SameVisitor
  <1>5. CASE CaptureRouted /\ AskKnownFace
    <2>1. PICK v \in profiles, l \in {"medium", "high"} :
            ApplyIdentityMatch([who |-> v, level |-> l, ask |-> TRUE])
      BY <1>5 DEF AskKnownFace
    <2>2. gate.primary = None
      BY <1>5 DEF CaptureRouted
    <2>3. SameVisitor(gate, gate')
      BY <1>1, <2>1, <2>2, AskKnownFaceSame
    <2>4. QED
      BY <1>5, <2>3 DEF AskKnownFace, ApplyFaceCapture, KindOfStep, Quiet
  <1>6. QED
    BY <1>2, <1>3, <1>4, <1>5 DEF ApplyFaceCapture

\* A failing LLM client leaves the session and the temporary session where they are.
LEMMA FailureDisturbs ==
  ASSUME SessionInv, LlmMayFail, Kept, UNCHANGED absentee,
         SameVisitor(gate, gate') \/ Rebound(gate, gate'),
         app'.session = app.session, app'.grace = app.grace, app'.loop = app.loop
  PROVE  KindOfStep
  BY DEF SessionInv, Disturbs, KindOfStep

\* The steps that begin a turn.
LEMMA TurnKind ==
  ASSUME HandoffInv, SessionInv, NEW a \in Answers, NEW i \in BOOLEAN,
         TurnContinues(a, i) \/ TurnInGrace(a, i) \/ TurnInGraceFails(a, i) \/ TurnBinds(i)
           \/ TurnBindFails
  PROVE  KindOfStep
  <1>1. LockOK /\ Sound(gate)
    BY DEF HandoffInv, GateOK
  <1>2. ASSUME Runs(TurnEntry), Keep(TurnEntry) PROVE Kept
    BY <1>1, <1>2, KeepKept
  <1>3. CASE TurnContinues(a, i)
    <2>1. SameVisitor(gate, gate')
      BY <1>1, <1>3, EnterWithIs DEF TurnContinues
    <2>2. QED
      BY <1>2, <1>3, <2>1 DEF TurnContinues, KindOfStep, Quiet, appVars
  <1>4. CASE TurnInGrace(a, i)
    <2>1. SameVisitor(gate, gate') /\ Kept /\ InGrace(gate')
      BY <1>1, <1>2, <1>4, EnterWithIs DEF TurnInGrace
    <2>2. CASE UNCHANGED << app, rows, absentee >>
      BY <2>1, <2>2 DEF Quiet, KindOfStep
    <2>3. CASE /\ app.grace = NoLoop /\ absentee' = gate.primary
               /\ \E s \in Sessions :
                    /\ NewSession(s)
                    /\ rows' = [rows EXCEPT ![s] = [visitor |-> None, open |-> TRUE]]
                    /\ app'  = [app EXCEPT !.grace = [session |-> s, scope |-> None]]
      BY <2>1, <2>3 DEF OpensGrace, InsertsGrace, KindOfStep
    <2>4. QED
      BY <1>4, <2>2, <2>3 DEF TurnInGrace
  <1>5. CASE TurnBinds(i)
    <2> DEFINE v == gate'.primary
    <2>1. "accepted" \in Answers
      BY DEF Answers
    <2>2. gate' = EnterWith("accepted", i) /\ Confirms("accepted")
      BY <1>5 DEF TurnBinds
    <2>3. BoundTo(gate, gate', v)
      BY <1>1, <2>1, <2>2, EnterWithIs
    <2>4. Sound(gate')
      BY <1>1, <2>1, <2>2, EnterWithSound
    <2>5. v \in Persons
      BY <2>4 DEF Sound, Gate, Persons
    <2>6. Kept
      BY <1>2, <1>5 DEF TurnBinds
    <2>7. Binds(v)
      BY <1>5, <2>3, <2>5, <2>6 DEF TurnBinds, Binds
    <2>8. QED
      BY <2>7 DEF KindOfStep
  <1>6. CASE TurnInGraceFails(a, i)
    <2>1. Kept
      BY <1>1, <1>6, LeaveKept, Newcomers DEF TurnInGraceFails, Newcomer
    <2>2. SameVisitor(gate, gate')
      BY <1>1, <1>6, EnterWithIs DEF TurnInGraceFails
    <2>3. QED
      BY <1>6, <2>1, <2>2, FailureDisturbs DEF TurnInGraceFails
  <1>7. CASE TurnBindFails
    <2> DEFINE e == ExpireCandidate(gate)
    <2>1. Sound(e) /\ SameVisitor(gate, e)
      BY <1>1, ExpireCandidateSound, ExpireSame DEF Sound
    <2>2. gate' = ConfirmCandidate(e, TRUE)
      BY <1>7 DEF TurnBindFails
    <2> HIDE DEF e
    <2>3. SameVisitor(e, gate') \/ Rebound(e, gate')
      BY <2>1, <2>2, ConfirmLeavesOrBinds
    <2>4. SameVisitor(gate, gate') \/ Rebound(gate, gate')
      BY <2>1, <2>3 DEF SameVisitor, Rebound
    <2>5. Kept
      BY <1>2, <1>7 DEF TurnBindFails
    <2>6. QED
      BY <1>7, <2>4, <2>5, FailureDisturbs DEF TurnBindFails
  <1>8. QED
    BY <1>3, <1>4, <1>5, <1>6, <1>7

\* The steps after a turn has begun, the background capture and the dispatcher's events.
LEMMA LockStepKind ==
  ASSUME HandoffInv,
         TurnCaptured \/ TurnDone \/ CaptureMatched \/ CaptureApplies \/ EventStarts \/ EventDone
  PROVE  KindOfStep
  <1>1. LockOK
    BY DEF HandoffInv
  <1>2. ASSUME UNCHANGED << gate, app, rows, absentee >>, Kept PROVE KindOfStep
    BY <1>2 DEF KindOfStep, Quiet, SameVisitor
  <1>3. CASE TurnCaptured
    BY <1>3, LockStaysKept, FaceCaptureKind DEF TurnCaptured
  <1>4. CASE TurnDone \/ EventDone
    <2>1. lock # Free /\ lock.task \notin Dispatched
      BY <1>4 DEF TurnDone, EventDone, Free, Dispatched
    <2>2. QED
      BY <1>2, <1>4, <2>1, HolderLeaveKept DEF TurnDone, EventDone, appVars
  <1>5. CASE CaptureMatched
    <2>1. Kept
      BY <1>1, <1>5, EnterKept, NamedEntries, Newcomers DEF CaptureMatched
    <2>2. QED
      BY <1>2, <1>5, <2>1 DEF CaptureMatched, appVars
  <1>6. CASE CaptureApplies
    BY <1>1, <1>6, LeaveKept, Newcomers, FaceCaptureKind DEF CaptureApplies, Newcomer
  <1>7. CASE EventStarts
    BY <1>1, <1>2, <1>7, KeepKept DEF EventStarts, appVars
  <1>8. QED
    BY <1>3, <1>4, <1>5, <1>6, <1>7

\* The dispatcher's sections.
LEMMA DispatchKind ==
  ASSUME HandoffInv, NEW v \in Persons,
         Archive \/ (v \in Visitors /\ (Handoff(v) \/ HandoffLeftOut(v)))
  PROVE  KindOfStep
  <1>1. LockOK
    BY DEF HandoffInv
  <1>2. CASE Archive
    <2>1. Done(ArchiveEntry)
      BY <1>1, <1>2, LeaveDone DEF Archive
    <2>2. QED
      BY <1>2, <2>1 DEF Archives, KindOfStep
  <1>3. CASE v \in Visitors /\ Handoff(v)
    <2>1. Done(Entry("handoff", NoSession, v)) /\ app.visitor = v /\ UNCHANGED absentee
      BY <1>1, <1>3, LeaveDone DEF Handoff
    <2>2. PICK s : Succeeds(s) /\ HandOver(s)
      <3>1. CASE app.grace # NoLoop /\ HandOver(app.grace.session)
        <4>1. app.grace.session \in Sessions
          BY <3>1, AppFieldTypes DEF HandoffInv
        <4>2. QED
          BY <3>1, <4>1 DEF Succeeds
      <3>2. CASE app.grace = NoLoop /\ \E s \in Sessions : NewSession(s) /\ HandOver(s)
        BY <3>2 DEF Succeeds
      <3>3. QED
        BY <1>3, <3>1, <3>2 DEF Handoff
    <2>3. HandsOver(v, s)
      BY <1>3, <2>1, <2>2 DEF HandsOver
    <2>4. QED
      BY <2>3 DEF KindOfStep
  <1>4. CASE v \in Visitors /\ HandoffLeftOut(v)
    <2>1. Done(Entry("handoff", NoSession, v)) /\ (app.visitor # v \/ LlmMayFail)
      BY <1>1, <1>4, LeaveDone DEF HandoffLeftOut
    <2>2. LeavesOut(v)
      BY <1>4, <2>1 DEF HandoffLeftOut, appVars, LeavesOut, Persons
    <2>3. QED
      BY <2>2 DEF KindOfStep
  <1>5. QED
    BY <1>2, <1>3, <1>4

\* The developer's choice of a visitor.
LEMMA ChoiceKind ==
  ASSUME HandoffInv, SessionInv, NEW v \in Persons, Select(v) \/ (v \in Visitors /\ Create(v))
  PROVE  KindOfStep
  <1>1. LockOK /\ Sound(gate) /\ gate \in Gate /\ AppOK /\ app \in AppTypes
    BY DEF HandoffInv, GateOK, Sound, AppOK
  <1>2. Kept /\ UNCHANGED absentee
    BY <1>1, LeaveKept, Newcomers, ClientTasks DEF Select, Create, Newcomer
  <1>3. CASE gate' = SetPrimaryVisitor(gate, v) /\ BindSession(v)
    <2>1. BoundTo(gate, gate', v)
      BY <1>1, <1>3, SetPrimaryBinds DEF Persons
    <2>2. Binds(v)
      BY <1>2, <1>3, <2>1 DEF Binds
    <2>3. QED
      BY <2>2 DEF KindOfStep
  <1>4. CASE LlmMayFail /\ UNCHANGED << gate, app, rows >>
    BY <1>2, <1>4 DEF KindOfStep, Quiet, SameVisitor
  <1>5. CASE LlmMayFail /\ gate' = SetPrimaryVisitor(gate, v) /\ app' = [app EXCEPT !.visitor = v]
    <2>1. BoundTo(gate, gate', v)
      BY <1>1, <1>5, SetPrimaryBinds DEF Persons
    <2>2. app'.session = app.session /\ app'.grace = app.grace /\ app'.loop = app.loop
      BY <1>1, <1>5 DEF AppTypes
    <2>3. Rebound(gate, gate')
      BY <2>1 DEF BoundTo, Rebound
    <2>4. QED
      BY <1>2, <1>5, <2>2, <2>3, FailureDisturbs
  <1>6. QED
    BY <1>3, <1>4, <1>5 DEF Select, Create

\* What a rebuild for session s leaves as it is.
LEMMA CurrentIs ==
  ASSUME AppOK, NEW s, NEW v, NEW table, Current(s, v, table)
  PROVE  app'.session = s /\ app'.grace = app.grace /\ app'.loop.session = s /\ rows' = table
  <1> DEFINE l == LoopOf(s, v, table)
  <1>1. l.session = s
    BY DEF LoopOf
  <1>2. app' = [app EXCEPT !.session = s, !.visitor = v, !.loop = l] /\ rows' = table
    BY DEF Current
  <1> HIDE DEF l
  <1>3. app'.session = s /\ app'.grace = app.grace /\ app'.loop = l
    BY <1>2 DEF AppOK, AppTypes
  <1>4. QED
    BY <1>1, <1>2, <1>3

\* A reset or a reload.
LEMMA RebuildKind ==
  ASSUME HandoffInv, SessionInv, NEW s \in Sessions, NEW v \in Persons, Reset(s, v) \/ Reload(s)
  PROVE  KindOfStep
  <1>1. LockOK /\ Sound(gate) /\ AppOK
    BY DEF HandoffInv, GateOK
  <1> DEFINE e == IF Reset(s, v) THEN Entry("reset", s, v) ELSE Entry("reload", s, None)
  <1>2. Runs(e) /\ Leave /\ UNCHANGED absentee
    BY DEF Reset, Reload
  <1>3. e.session = s /\ e.task \in {"reset", "reload"}
    BY EntryIs
  <1> HIDE DEF e
  <1>4. e \in Entered /\ Kept
    <2>1. e.task \notin Dispatched
      BY <1>3 DEF Dispatched
    <2>2. QED
      BY <1>1, <1>2, <2>1, RunsIsEntered, LeaveKept
  <1>5. ~Without(Behind) /\ ~Without({"reset", "reload"})
    BY <1>3, <1>4 DEF Without, Behind
  <1>6. CASE UNCHANGED << gate, app, rows >>
    BY <1>2, <1>4, <1>6 DEF KindOfStep, Quiet, SameVisitor
  <1>7. ASSUME NEW n, NEW u, NEW table, Current(n, u, table),
               app.grace # NoLoop => n # app.grace.session,
               SameVisitor(gate, gate') \/ Rebound(gate, gate')
        PROVE  KindOfStep
    <2>1. app'.session = n /\ app'.grace = app.grace /\ app'.loop.session = n
      BY <1>1, <1>7, CurrentIs
    <2>2. Disturbs
      BY <1>2, <1>4, <1>5, <1>7, <2>1 DEF Disturbs
    <2>3. QED
      BY <2>2 DEF KindOfStep
  <1>8. CASE Reset(s, v) /\ ~UNCHANGED << gate, app, rows >>
    <2>1. PICK n \in Sessions :
            /\ NewSession(n)
            /\ Current(n, app.visitor, [rows EXCEPT ![s].open = FALSE,
                                                    ![n] = [visitor |-> v, open |-> TRUE]])
            /\ gate' = ConfigureSession(gate, n, v, "session_reset")
      BY <1>8 DEF Reset
    <2>2. n \in Nat /\ "session_reset" \in Decisions
      BY SessionNumbers DEF Decisions
    <2>3. Rebound(gate, gate')
      BY <1>1, <2>1, <2>2, ConfigureSessionRebinds
    <2>4. n # app.grace.session
      BY <2>1, NewIsUnused
    <2>5. QED
      BY <1>7, <2>1, <2>3, <2>4
  <1>9. CASE Reload(s) /\ ~UNCHANGED << gate, app, rows >>
    <2>1. Current(s, app.visitor, rows) /\ gate' = gate
      BY <1>9 DEF Reload
    <2>2. app.grace # NoLoop => s # app.grace.session
      BY <1>3, <1>4 DEF SessionInv
    <2>3. SameVisitor(gate, gate')
      BY <2>1 DEF SameVisitor
    <2>4. QED
      BY <1>7, <2>1, <2>2, <2>3
  <1>10. QED
    BY <1>6, <1>8, <1>9

\* The current session is bound to whom the identity API has bound.
LEMMA BindFromIdentityKind ==
  ASSUME HandoffInv, SessionInv, NEW v \in Persons, BindFromIdentity(v)
  PROVE  KindOfStep
  <1> DEFINE e == Entry("bind", NoSession, v)
  <1>1. LockOK /\ AppOK /\ Runs(e) /\ Leave /\ UNCHANGED << gate, absentee >>
    BY DEF HandoffInv, BindFromIdentity
  <1>2. e.task = "bind"
    BY EntryIs
  <1> HIDE DEF e
  <1>3. Kept /\ e \in Entered
    BY <1>1, <1>2, RunsIsEntered, LeaveKept DEF Dispatched
  <1>4. ~Without(Behind) /\ SameVisitor(gate, gate')
    BY <1>1, <1>2, <1>3 DEF Without, Behind, SameVisitor
  <1>5. CASE UNCHANGED << app, rows >>
    BY <1>1, <1>3, <1>4, <1>5 DEF KindOfStep, Quiet
  <1>6. CASE BindSession(v)
    <2>1. /\ app'.session = app.session /\ app'.grace = app.grace
          /\ app'.loop = [session |-> app.session, scope |-> v]
          /\ \A s \in Sessions : rows'[s].open = rows[s].open
      BY <1>1, <1>6, BindSessionIs
    <2>2. Disturbs
      BY <1>1, <1>3, <1>4, <2>1 DEF Disturbs, SameSessions, SessionInv
    <2>3. QED
      BY <2>2 DEF KindOfStep
  <1>7. QED
    BY <1>5, <1>6 DEF BindFromIdentity

LEMMA ServeKind ==
  ASSUME HandoffInv, SessionInv, Serve
  PROVE  KindOfStep
  <1>1. "unclear" \in Answers /\ TRUE \in BOOLEAN /\ None \in Persons /\ Visitors \subseteq Persons
    BY DEF Answers, Persons
  <1>2. ASSUME NEW a \in Answers, NEW i \in BOOLEAN,
               TurnContinues(a, i) \/ TurnInGrace(a, i) \/ TurnInGraceFails(a, i)
                 \/ TurnBinds(i) \/ TurnBindFails
        PROVE  KindOfStep
    BY <1>2, TurnKind
  <1>3. ASSUME NEW v \in Persons, Archive \/ (v \in Visitors /\ (Handoff(v) \/ HandoffLeftOut(v)))
        PROVE  KindOfStep
    BY <1>3, DispatchKind
  <1>4. ASSUME NEW v \in Persons, Select(v) \/ (v \in Visitors /\ Create(v))
        PROVE  KindOfStep
    BY <1>4, ChoiceKind
  <1>5. ASSUME NEW v \in Persons, BindFromIdentity(v) PROVE KindOfStep
    BY <1>5, BindFromIdentityKind
  <1>6. ASSUME NEW s \in Sessions, NEW v \in Persons, Reset(s, v) \/ Reload(s) PROVE KindOfStep
    BY <1>6, RebuildKind
  <1>7. QED
    BY <1>1, <1>2, <1>3, <1>4, <1>5, <1>6, LockStepKind DEF Serve

LEMMA RequestKind ==
  ASSUME HandoffInv, SessionInv,
         TurnArrives \/ SelectArrives \/ CreateArrives \/ ResetArrives \/ ReloadArrives
  PROVE  KindOfStep
  <1>1. /\ LockOK /\ app.session \in Sessions /\ app.visitor \in Persons
        /\ profiles \subseteq Visitors /\ NoSession \in Sessions \union {NoSession}
    BY AppFieldTypes DEF HandoffInv, AppOK
  <1>2. ASSUME NEW e \in Entries, Newcomer(e), Enter(e), UNCHANGED << gate, appVars >>
        PROVE  KindOfStep
    <2>1. Kept
      BY <1>1, <1>2, EnterKept
    <2>2. QED
      BY <1>2, <2>1 DEF appVars, KindOfStep, Quiet, SameVisitor
  <1>3. CASE TurnArrives
    BY <1>2, <1>3, NamedEntries, Newcomers DEF TurnArrives
  <1>4. \A t \in {"select", "create", "reset", "reload"}, v \in Persons :
          /\ Entry(t, NoSession, v) \in Entries /\ Newcomer(Entry(t, NoSession, v))
          /\ Entry(t, app.session, v) \in Entries /\ Newcomer(Entry(t, app.session, v))
    BY <1>1, EntryType, Newcomers, ClientTasks
  <1>5. ASSUME NEW k, NEW t \in {"select", "create", "reset", "reload"}, NEW v \in Persons,
               RequestArrives(k, Entry(t, NoSession, v)) \/ RequestArrives(k, Entry(t, app.session, v))
        PROVE  KindOfStep
    BY <1>2, <1>4, <1>5 DEF RequestArrives
  <1>6. Visitors \subseteq Persons /\ profiles \union {None} \subseteq Persons /\ None \in Persons
    BY <1>1 DEF Persons
  <1>7. QED
    BY <1>1, <1>3, <1>5, <1>6 DEF SelectArrives, CreateArrives, ResetArrives, ReloadArrives

\* The identity API calls the controller without the lock.
LEMMA IdentityRequestKind ==
  ASSUME HandoffInv, SessionInv,
         (\E m \in Matches : MatchRequest(m)) \/ (\E a \in BOOLEAN : ConfirmRequest(a))
  PROVE  KindOfStep
  <1>1. LockOK /\ Sound(gate)
    BY DEF HandoffInv, GateOK
  <1>2. (SameVisitor(gate, gate') \/ Rebound(gate, gate')) /\ Sound(gate')
    <2>1. ASSUME NEW m \in Matches, MatchRequest(m)
          PROVE  (SameVisitor(gate, gate') \/ Rebound(gate, gate')) /\ Sound(gate')
      BY <1>1, <2>1, MatchLeavesOrBinds, ApplyIdentityMatchSound DEF MatchRequest
    <2>2. ASSUME NEW a \in BOOLEAN, ConfirmRequest(a)
          PROVE  (SameVisitor(gate, gate') \/ Rebound(gate, gate')) /\ Sound(gate')
      <3>1. Sound(gate') /\ gate' = ConfirmCandidate(gate, a)
        BY <1>1, <2>2, SoundConfirm DEF ConfirmRequest, Confirm
      <3>2. QED
        BY <1>1, <3>1, ConfirmLeavesOrBinds
    <2>3. QED
      BY <2>1, <2>2
  <1>3. BindIfBound /\ UNCHANGED << app, rows, absentee >> /\ Requests \intersect {"match", "confirm"} # {}
    BY DEF MatchRequest, ConfirmRequest
  <1>4. Kept
    <2>1. "bind" \in Tasks \ Dispatched /\ gate'.primary \in Persons
      BY <1>2, ClientTasks, GateFieldTypes
    <2>2. /\ Entry("bind", NoSession, gate'.primary) \in Entries
          /\ Newcomer(Entry("bind", NoSession, gate'.primary))
      BY <2>1, EntryType, Newcomers
    <2>3. QED
      BY <1>1, <1>3, <2>2, EnterKept, LockStaysKept DEF BindIfBound
  <1>5. Disturbs
    BY <1>2, <1>3, <1>4 DEF Disturbs, appVars, SessionInv, SameSessions
  <1>6. QED
    BY <1>5 DEF KindOfStep

LEMMA HappensKind ==
  ASSUME HandoffInv, SessionInv, Happens
  PROVE  KindOfStep
  <1>1. LockOK /\ Sound(gate) /\ app.loop.session \in Sessions \union {NoSession}
        /\ app.loop.scope \in Persons
    BY AppFieldTypes DEF HandoffInv, GateOK
  <1>2. ASSUME SameVisitor(gate, gate'), UNCHANGED appVars, Kept PROVE KindOfStep
    BY <1>2 DEF appVars, KindOfStep, Quiet
  <1>3. ASSUME NEW a, NEW h, NEW d, ConfigRequest(a, h, d) PROVE KindOfStep
    <2>1. SameVisitor(gate, gate')
      BY <1>3 DEF ConfigRequest, ConfigureIdentity, SameVisitor
    <2>2. QED
      BY <1>2, <1>3, <2>1, LockStaysKept DEF ConfigRequest
  <1>4. ASSUME NEW e \in SystemEvents, EventArrives(e) PROVE KindOfStep
    <2>1. "events" \in Tasks
      BY DEF Tasks
    <2>2. EventEntry \in Entries
      BY <1>1, <2>1, EntryType DEF EventEntry
    <2>3. Kept
      BY <1>1, <1>4, <2>2, EnterKept, Newcomers DEF EventArrives
    <2>4. SameVisitor(gate, gate')
      BY <1>1, <1>4, SystemEventSame DEF EventArrives
    <2>5. QED
      BY <1>2, <1>4, <2>3, <2>4 DEF EventArrives
  <1>5. CASE TimePasses
    <2>1. Kept /\ SameVisitor(gate, gate')
      BY <1>1, <1>5, LockStaysKept, TickSame DEF TimePasses
    <2>2. QED
      BY <1>2, <1>5, <2>1 DEF TimePasses
  <1>6. CASE \E r \in Reports : Poll(r)
    BY <1>6 DEF KindOfStep
  <1>7. QED
    BY <1>3, <1>4, <1>5, <1>6, RequestKind, IdentityRequestKind DEF Happens

LEMMA StepHasKind ==
  ASSUME HandoffInv, SessionInv, [HandoffNext]_vars
  PROVE  KindOfStep
  <1>1. CASE UNCHANGED vars
    <2>1. UNCHANGED << gate, app, rows, absentee, lock, queue >>
      BY <1>1 DEF vars
    <2>2. QED
      BY <2>1, LockStaysKept DEF lockVars, KindOfStep, Quiet, SameVisitor
  <1>2. QED
    BY <1>1, ServeKind, HappensKind DEF HandoffNext

-----------------------------------------------------------------------------
(* The absence that the temporary session is of.                            *)

LEMMA PrimedEntries ==
  /\ Archiving' <=> ArchiveEntry \in Entered'
  /\ \A v : HandingOver(v)' <=> Entry("handoff", NoSession, v) \in Entered'
  BY DEF Archiving, ArchiveEntry, HandingOver

LEMMA KeptDispatch ==
  ASSUME Kept
  PROVE  /\ Archiving' <=> Archiving
         /\ \A v : HandingOver(v)' <=> HandingOver(v)
  <1>1. ArchiveEntry.task = "archive" /\ \A v : Entry("handoff", NoSession, v).task = "handoff"
    BY EntryIs DEF ArchiveEntry
  <1>2. "archive" \in Dispatched /\ "handoff" \in Dispatched
    BY DEF Dispatched
  <1>3. \A x : x.task \in Dispatched => (x \in Entered' <=> x \in Entered)
    BY DEF Kept, Newcomer
  <1>4. QED
    BY <1>1, <1>2, <1>3, PrimedEntries DEF Archiving, HandingOver

LEMMA DoneDispatch ==
  ASSUME NEW e, Done(e)
  PROVE  /\ Archiving' => Archiving
         /\ \A v : HandingOver(v)' => HandingOver(v)
         /\ \A v : HandingOver(v) /\ e # Entry("handoff", NoSession, v) => HandingOver(v)'
  <1>1. ArchiveEntry.task = "archive" /\ \A v : Entry("handoff", NoSession, v).task = "handoff"
    BY EntryIs DEF ArchiveEntry
  <1>2. "archive" \in Dispatched /\ "handoff" \in Dispatched
    BY DEF Dispatched
  <1>3. \A x : x.task \in Dispatched => /\ x \in Entered' => x \in Entered
                                        /\ x \in Entered /\ e # x => x \in Entered'
    BY DEF Done, Newcomer
  <1>4. QED
    BY <1>1, <1>2, <1>3, PrimedEntries DEF Archiving, HandingOver

\* Whoever is tracked, if a temporary session is there that is not about to be archived,
\* is the one it was opened for; and so is whoever is being handed over.
AbsenceInv ==
  /\ Archiving \/ app.grace = NoLoop \/ gate.track = NoTrack \/ absentee = gate.primary
  /\ Archiving => gate.presence # "missing_grace"
  /\ \A v \in Persons :
       HandingOver(v) =>
         /\ v # None
         /\ ~Archiving
         /\ gate.released = v
         /\ gate.presence # "missing_grace"
         /\ gate.track = NoTrack
         /\ app.grace # NoLoop => absentee = v

\* Only while nothing else is under way does the visitor count as missing.
LEMMA MissingIsAlone ==
  ASSUME AbsenceInv, gate.presence = "missing_grace"
  PROVE  ~Archiving /\ \A v \in Persons : ~HandingOver(v)
  BY DEF AbsenceInv

\* A poll asks for at most one thing, and only when nothing of the dispatcher waits.
LEMMA PollAdds ==
  ASSUME HandoffInv, NEW r \in Reports, Poll(r)
  PROVE  \E x : /\ x \in {ArchiveEntry, Entry("handoff", NoSession, gate.primary), Free}
                /\ Enter(x) \/ UNCHANGED lockVars
                /\ \A y \in Entered' : y \in Entered \/ y = x
                /\ x # Free => x \in Entered'
                /\ x = ArchiveEntry <=> ~(gate.primary # None /\ gate'.primary = None)
                                          /\ gate'.presence = "present"
                /\ x = Entry("handoff", NoSession, gate.primary)
                     <=> gate.primary # None /\ gate'.primary = None
  <1> DEFINE h == Entry("handoff", NoSession, gate.primary)
  <1>1. LockOK /\ gate.primary \in Persons /\ "handoff" \in Tasks
    BY GateFieldTypes DEF HandoffInv, GateOK, Tasks
  <1>2. h \in Entries /\ ArchiveEntry \in Entries
    BY <1>1, EntryType, NamedEntries
  <1>3. h # Free /\ ArchiveEntry # Free /\ h # ArchiveEntry
    BY EntryIs DEF ArchiveEntry
  <1> HIDE DEF h
  <1>4. \A x \in {h, ArchiveEntry} :
          Enter(x) => x \in Entered' /\ \A y \in Entered' : y \in Entered \/ y = x
    BY <1>1, <1>2, EnterEntered
  <1>5. UNCHANGED lockVars => Entered' = Entered
    BY DEF lockVars, Entered
  <1>6. CASE gate.primary # None /\ gate'.primary = None
    <2>1. Enter(h)
      BY <1>6, PollEnters DEF h
    <2>2. QED
      BY <1>3, <1>4, <1>6, <2>1 DEF h
  <1>7. CASE ~(gate.primary # None /\ gate'.primary = None) /\ gate'.presence = "present"
    <2>1. Enter(ArchiveEntry)
      BY <1>7, PollEnters
    <2>2. QED
      BY <1>3, <1>4, <1>7, <2>1 DEF h
  <1>8. CASE ~(gate.primary # None /\ gate'.primary = None) /\ gate'.presence # "present"
    <2>1. UNCHANGED lockVars
      BY <1>8, PollEnters
    <2>2. QED
      BY <1>3, <1>5, <1>8, <2>1 DEF h
  <1>9. QED
    BY <1>6, <1>7, <1>8

\* What a poll may change: it releases a visitor whose track was locked, or the visitor
\* stays and a track is locked only when it is seen.
LEMMA PollIs ==
  ASSUME Sound(gate), NEW r \in Reports, UpdatePrimaryPresence(r)
  PROVE  /\ gate'.session = gate.session
         /\ \/ /\ gate'.primary = gate.primary /\ gate'.released = gate.released
               /\ gate'.track \in {gate.track, NoTrack} \/ gate'.presence = "present"
            \/ /\ gate.primary # None /\ gate.track # NoTrack
               /\ gate'.primary = None /\ gate'.released = gate.primary
               /\ gate'.track = NoTrack /\ gate'.presence = "left"
  <1>1. gate \in Gate
    BY DEF Sound
  <1>2. CASE PollRelease(r)
    <2> DEFINE d == DropCandidate(gate)
               t == DropTrack(d, "left")
    <2>1. d \in Gate /\ d.session = gate.session
      BY <1>1, DropCandidateType, DropCandidateSame DEF SameVisitor
    <2>2. gate' = Mark([t EXCEPT !.primary = None, !.released = gate.primary,
                                 !.releasedTo = NoSession, !.identity = "unidentified",
                                 !.confirm = NoConfirmation],
                       "visitor_cleared", "primary_visitor_left")
      BY <1>2 DEF PollRelease
    <2> HIDE DEF d
    <2>3. t \in Gate /\ t.session = gate.session /\ t.track = NoTrack /\ t.presence = "left"
      <3>1. t \in Gate
        BY <2>1, DropTrackType DEF PresenceStates
      <3>2. t.session = gate.session /\ t.track = NoTrack /\ t.presence = "left"
        BY <2>1 DEF DropTrack, Gate
      <3>3. QED
        BY <3>1, <3>2
    <2> HIDE DEF t
    <2>4. /\ gate'.session = gate.session /\ gate'.primary = None
          /\ gate'.released = gate.primary /\ gate'.track = NoTrack /\ gate'.presence = "left"
      BY <2>2, <2>3 DEF Mark, Gate
    <2>5. gate.primary # None /\ gate.track # NoTrack
      BY <1>2 DEF PollRelease, Tracking
    <2>6. QED
      BY <2>4, <2>5
  <1>3. CASE PollNoPrimary(r)
    BY <1>1, <1>3 DEF PollNoPrimary, DropTrack, Gate
  <1>4. CASE PollHandoffOff(r) \/ PollNoFrame(r) \/ PollUnlocked(r)
    <2>1. PollHandoffOff(r) => gate' = [gate EXCEPT !.presence = "handoff_disabled"]
      BY DEF PollHandoffOff
    <2>2. PollNoFrame(r) => gate' = [gate EXCEPT !.presence = "untracked"]
      BY DEF PollNoFrame
    <2>3. PollUnlocked(r) => \/ gate' = [gate EXCEPT !.presence = "ambiguous"]
                             \/ gate' = [gate EXCEPT !.presence = "untracked"]
      BY DEF PollUnlocked
    <2>4. QED
      BY <1>1, <1>4, <2>1, <2>2, <2>3 DEF Gate
  <1>5. CASE PollLock(r)
    <2>1. PICK t \in Tracks :
             gate' = [gate EXCEPT !.track = t, !.unseen = r.list[t].age, !.presence = "present"]
      BY <1>5 DEF PollLock
    <2> DEFINE u == r.list[t].age
    <2>2. gate' = [gate EXCEPT !.track = t, !.unseen = u, !.presence = "present"]
      BY <2>1
    <2> HIDE DEF u
    <2>3. QED
      BY <1>1, <2>2 DEF Gate
  <1>6. CASE PollSeen(r) \/ PollMissing(r)
    <2> DEFINE u == SeenAge(r)
    <2>1. \/ gate' = [gate EXCEPT !.unseen = u, !.presence = "present"]
          \/ gate' = [gate EXCEPT !.unseen = u, !.presence = "missing_grace"]
      BY <1>6 DEF PollSeen, PollMissing
    <2> HIDE DEF u
    <2>2. QED
      BY <1>1, <2>1 DEF Gate
  <1>7. QED
    BY <1>2, <1>3, <1>4, <1>5, <1>6 DEF UpdatePrimaryPresence

\* While the dispatcher polls, nothing of its own waits.
LEMMA PollingIsAlone ==
  ASSUME Polling
  PROVE  ~Archiving /\ \A v : ~HandingOver(v)
  <1>1. ArchiveEntry.task = "archive" /\ \A v : Entry("handoff", NoSession, v).task = "handoff"
    BY EntryIs DEF ArchiveEntry
  <1>2. QED
    BY <1>1 DEF Polling, Archiving, HandingOver

\* What a poll leaves of the dispatcher's entries.
LEMMA PollDispatch ==
  ASSUME HandoffInv, NEW r \in Reports, Poll(r)
  PROVE  /\ ~Archiving /\ \A v : ~HandingOver(v)
         /\ Archiving' <=> /\ ~(gate.primary # None /\ gate'.primary = None)
                           /\ gate'.presence = "present"
         /\ \A v : HandingOver(v)' <=> /\ gate.primary # None /\ gate'.primary = None
                                       /\ v = gate.primary
         /\ \A x \in Entered' : x \in Entered \/ x.session = NoSession
  <1> DEFINE h == Entry("handoff", NoSession, gate.primary)
             released == gate.primary # None /\ gate'.primary = None
             returned == ~released /\ gate'.presence = "present"
  <1>1. ~Archiving /\ \A v : ~HandingOver(v)
    BY PollingIsAlone DEF Poll
  <1>2. PICK x : /\ x \in {ArchiveEntry, h, Free}
                 /\ \A y \in Entered' : y \in Entered \/ y = x
                 /\ x # Free => x \in Entered'
                 /\ x = ArchiveEntry <=> returned
                 /\ x = h <=> released
    BY PollAdds
  <1>3. /\ ArchiveEntry # Free /\ h # Free
        /\ \A v : Entry("handoff", NoSession, v) # ArchiveEntry
        /\ \A v : Entry("handoff", NoSession, v) # Free
        /\ \A v : Entry("handoff", NoSession, v) = h <=> v = gate.primary
    <2>1. ArchiveEntry.task = "archive" /\ ArchiveEntry # Free
      BY EntryIs DEF ArchiveEntry
    <2>2. \A v : /\ Entry("handoff", NoSession, v).task = "handoff"
                 /\ Entry("handoff", NoSession, v).who = v
                 /\ Entry("handoff", NoSession, v) # Free
      BY EntryIs
    <2>3. QED
      BY <2>1, <2>2
  <1>4. x.session = NoSession
    BY <1>2, EntryIs DEF ArchiveEntry, Free
  <1> HIDE DEF h, released, returned
  <1>5. ArchiveEntry \in Entered' <=> returned
    BY <1>1, <1>2, <1>3 DEF Archiving
  <1>6. ASSUME NEW v PROVE Entry("handoff", NoSession, v) \in Entered' <=> released /\ v = gate.primary
    BY <1>1, <1>2, <1>3 DEF HandingOver
  <1>7. QED
    BY <1>1, <1>2, <1>4, <1>5, <1>6, PrimedEntries DEF released, returned

LEMMA PollKeepsAbsence ==
  ASSUME HandoffInv, AbsenceInv, NEW r \in Reports, Poll(r)
  PROVE  AbsenceInv'
  <1>1. Sound(gate)
    BY DEF HandoffInv, GateOK
  <1>2. /\ gate'.session = gate.session
        /\ \/ /\ gate'.primary = gate.primary /\ gate'.released = gate.released
              /\ gate'.track \in {gate.track, NoTrack} \/ gate'.presence = "present"
           \/ /\ gate.primary # None /\ gate.track # NoTrack
              /\ gate'.primary = None /\ gate'.released = gate.primary
              /\ gate'.track = NoTrack /\ gate'.presence = "left"
    BY <1>1, PollIs DEF Poll
  <1>3. /\ app' = app
        /\ absentee' = IF gate'.presence = "present" THEN None ELSE absentee
    BY DEF Poll
  <1>4. /\ ~Archiving
        /\ Archiving' <=> /\ ~(gate.primary # None /\ gate'.primary = None)
                          /\ gate'.presence = "present"
        /\ \A v : HandingOver(v)' <=> /\ gate.primary # None /\ gate'.primary = None
                                      /\ v = gate.primary
    BY PollDispatch
  <1>5. app.grace = NoLoop \/ gate.track = NoTrack \/ absentee = gate.primary
    BY <1>4 DEF AbsenceInv
  <1>6. CASE gate.primary # None /\ gate'.primary = None
    <2>1. /\ gate.track # NoTrack /\ gate'.released = gate.primary
          /\ gate'.track = NoTrack /\ gate'.presence = "left"
      BY <1>2, <1>6
    <2>2. app.grace # NoLoop => absentee' = gate.primary
      BY <1>3, <1>5, <2>1
    <2>3. ~(Archiving') /\ \A v : HandingOver(v)' => v = gate.primary
      BY <1>4, <1>6
    <2>4. QED
      BY <1>3, <1>6, <2>1, <2>2, <2>3 DEF AbsenceInv
  <1>7. CASE ~(gate.primary # None /\ gate'.primary = None)
    <2>1. gate'.primary = gate.primary /\ (gate'.track \in {gate.track, NoTrack} \/ gate'.presence = "present")
      BY <1>2, <1>7
    <2>2. (Archiving' <=> gate'.presence = "present") /\ \A v : ~(HandingOver(v)')
      BY <1>4, <1>7
    <2>3. Archiving' \/ app'.grace = NoLoop \/ gate'.track = NoTrack \/ absentee' = gate'.primary
      BY <1>3, <1>5, <2>1, <2>2
    <2>4. QED
      BY <2>2, <2>3 DEF AbsenceInv
  <1>8. QED
    BY <1>6, <1>7

\* Steps that touch neither the temporary session nor the dispatcher's entries.
LEMMA KeptKeepsAbsence ==
  ASSUME AbsenceInv, Kept, app'.grace = app.grace, absentee' = absentee,
         SameVisitor(gate, gate') \/ Rebound(gate, gate')
  PROVE  AbsenceInv'
  <1>1. (Archiving' <=> Archiving) /\ \A v : HandingOver(v)' <=> HandingOver(v)
    BY KeptDispatch
  <1>2. \/ /\ gate'.primary = gate.primary /\ gate'.released = gate.released
           /\ gate'.track = gate.track /\ gate'.presence = gate.presence
        \/ /\ gate'.released = gate.released /\ gate'.track = NoTrack
           /\ gate'.presence # "missing_grace"
    BY DEF SameVisitor, Rebound
  <1>3. QED
    BY <1>1, <1>2 DEF AbsenceInv

LEMMA StepKeepsAbsence ==
  ASSUME HandoffInv, SessionInv, AbsenceInv, KindOfStep
  PROVE  AbsenceInv'
  <1>1. AppOK /\ Sound(gate)
    BY DEF HandoffInv, GateOK
  <1>2. CASE Quiet
    BY <1>2, KeptKeepsAbsence DEF Quiet
  <1>3. ASSUME NEW v, Binds(v) PROVE AbsenceInv'
    <2>1. app'.grace = app.grace
      BY <1>1, <1>3, BindSessionIs DEF Binds
    <2>2. Rebound(gate, gate')
      BY <1>3 DEF Binds, BoundTo, Rebound
    <2>3. QED
      BY <1>3, <2>1, <2>2, KeptKeepsAbsence DEF Binds
  <1>4. CASE Disturbs
    BY <1>4, KeptKeepsAbsence DEF Disturbs
  <1>5. ASSUME NEW s, OpensGrace(s) PROVE AbsenceInv'
    <2>1. /\ gate'.primary = gate.primary /\ gate'.presence = gate.presence
          /\ absentee' = gate.primary
      BY <1>5 DEF OpensGrace, SameVisitor
    <2>2. gate.presence = "missing_grace"
      BY <1>5, <2>1 DEF OpensGrace, InGrace, ScopeMode
    <2>3. ~Archiving /\ \A v \in Persons : ~HandingOver(v)
      BY <2>2, MissingIsAlone
    <2>4. (Archiving' <=> Archiving) /\ \A v : HandingOver(v)' <=> HandingOver(v)
      BY <1>5, KeptDispatch DEF OpensGrace
    <2>5. QED
      BY <2>1, <2>3, <2>4 DEF AbsenceInv
  <1>6. CASE Archives
    <2>1. Archiving
      BY <1>6 DEF Archives, Done, Archiving
    <2>2. /\ Archiving' => Archiving
          /\ \A v : HandingOver(v)' => HandingOver(v)
      BY <1>6, DoneDispatch DEF Archives
    <2>3. \A v \in Persons : ~HandingOver(v)
      BY <2>1 DEF AbsenceInv
    <2>4. app'.grace = NoLoop
      BY <1>1, <1>6, ArchiveIs DEF Archives
    <2>5. gate' = gate
      BY <1>6 DEF Archives, Archive
    <2>6. QED
      BY <2>1, <2>2, <2>3, <2>4, <2>5 DEF AbsenceInv
  <1>7. ASSUME NEW v, LeavesOut(v) PROVE AbsenceInv'
    <2>1. HandingOver(v) /\ v \in Persons
      BY <1>7 DEF LeavesOut, Done, HandingOver
    <2>2. /\ Archiving' => Archiving
          /\ \A u : HandingOver(u)' => HandingOver(u)
      BY <1>7, DoneDispatch DEF LeavesOut
    <2>3. UNCHANGED << gate, app, absentee >>
      BY <1>7 DEF LeavesOut
    <2>4. ~Archiving
      BY <2>1 DEF AbsenceInv
    <2>5. QED
      BY <2>2, <2>3, <2>4 DEF AbsenceInv
  <1>8. ASSUME NEW v, NEW s, HandsOver(v, s) PROVE AbsenceInv'
    <2>1. HandingOver(v) /\ v \in Persons
      BY <1>8 DEF HandsOver, Done, HandingOver, Persons
    <2>2. /\ Archiving' => Archiving
          /\ \A u : HandingOver(u)' => HandingOver(u)
      BY <1>8, DoneDispatch DEF HandsOver
    <2>3. ~Archiving
      BY <2>1 DEF AbsenceInv
    <2>4. app'.grace = NoLoop
      BY <1>8 DEF HandsOver, HandOver
    <2>5. Rebound(gate, gate')
      BY <1>1, <1>8, HandOverGate DEF HandsOver, Succeeds
    <2>6. \A u \in Persons : HandingOver(u)' => u # None /\ gate'.released = u
      BY <2>2, <2>5 DEF AbsenceInv, Rebound
    <2>7. QED
      BY <2>2, <2>3, <2>4, <2>5, <2>6 DEF AbsenceInv, Rebound
  <1>9. QED
    BY <1>2, <1>3, <1>4, <1>5, <1>6, <1>7, <1>8, PollKeepsAbsence DEF KindOfStep

\* The temporary session stays apart.
LEMMA StepKeepsSessions ==
  ASSUME HandoffInv, SessionInv, KindOfStep
  PROVE  SessionInv'
  <1>1. AppOK /\ app.session \in Sessions /\ NoSession \notin Sessions
        /\ (app.grace # NoLoop => app.grace.session \in Sessions)
    BY AppFieldTypes, SessionNumbers DEF HandoffInv
  <1>2. ASSUME app'.loop.session = app'.session, app'.grace = app.grace,
               app.grace # NoLoop => app'.session # app.grace.session,
               \A x \in Entered' : x \in Entered \/ x.session \in {NoSession, app.session}
        PROVE  SessionInv'
    BY <1>1, <1>2 DEF SessionInv
  <1>3. Kept => \A x \in Entered' : x \in Entered \/ x.session \in {NoSession, app.session}
    BY DEF Kept, Newcomer
  <1>4. \A e : Done(e) => \A x \in Entered' : x \in Entered \/ x.session \in {NoSession, app.session}
    BY DEF Done, Newcomer
  <1>5. CASE Quiet
    BY <1>2, <1>3, <1>5 DEF Quiet, SessionInv
  <1>6. ASSUME NEW v, Binds(v) PROVE SessionInv'
    <2>1. /\ app'.session = app.session /\ app'.grace = app.grace
          /\ app'.loop = [session |-> app.session, scope |-> v] /\ Kept
      BY <1>1, <1>6, BindSessionIs DEF Binds
    <2>2. app'.loop.session = app'.session
      BY <2>1
    <2>3. QED
      BY <1>2, <1>3, <2>1, <2>2 DEF SessionInv
  <1>7. CASE Disturbs
    BY <1>2, <1>3, <1>7 DEF Disturbs
  <1>8. ASSUME NEW s, OpensGrace(s) PROVE SessionInv'
    <2>1. /\ app'.session = app.session /\ app'.loop = app.loop
          /\ app'.grace.session = s /\ s # app.session /\ s # NoSession
      BY <1>1, <1>8, InsertsGraceIs DEF OpensGrace
    <2>2. \A e \in Entered : e.session # s
      BY <1>8, NewIsUnused DEF OpensGrace, InsertsGrace
    <2>3. \A x \in Entered' : x.session # s
      BY <1>3, <1>8, <2>1, <2>2 DEF OpensGrace
    <2>4. QED
      BY <2>1, <2>3 DEF SessionInv
  <1>9. CASE Archives
    BY <1>1, <1>9, ArchiveIs DEF Archives, SessionInv
  <1>10. ASSUME NEW v, LeavesOut(v) PROVE SessionInv'
    <2>1. app' = app
      BY <1>10 DEF LeavesOut
    <2>2. QED
      BY <1>2, <1>4, <1>10, <2>1 DEF LeavesOut, SessionInv
  <1>11. ASSUME NEW v, NEW s, HandsOver(v, s) PROVE SessionInv'
    BY <1>11 DEF HandsOver, HandOver, SessionInv
  <1>12. ASSUME NEW r \in Reports, Poll(r) PROVE SessionInv'
    <2>1. \A x \in Entered' : x \in Entered \/ x.session = NoSession
      BY <1>12, PollDispatch
    <2>2. app' = app
      BY <1>12 DEF Poll
    <2>3. QED
      BY <1>2, <2>1, <2>2 DEF SessionInv
  <1>13. QED
    BY <1>5, <1>6, <1>7, <1>8, <1>9, <1>10, <1>11, <1>12 DEF KindOfStep

RuntimeInv == HandoffInv /\ SessionInv /\ AbsenceInv

LEMMA InitRuntime == HandoffInit => RuntimeInv
  <1> SUFFICES ASSUME HandoffInit PROVE RuntimeInv
    OBVIOUS
  <1>1. app.session = 0 /\ app.grace = NoLoop /\ app.loop.session = 0 /\ Entered = {Free}
    BY DEF HandoffInit, Entered
  <1>2. ~Archiving /\ \A v : ~HandingOver(v)
    BY <1>1, EntryIs DEF Archiving, ArchiveEntry, HandingOver
  <1>3. SessionInv /\ AbsenceInv
    BY <1>1, <1>2 DEF SessionInv, AbsenceInv
  <1>4. QED
    BY <1>3, InitTypes DEF RuntimeInv

LEMMA NextRuntime == RuntimeInv /\ [HandoffNext]_vars => RuntimeInv'
  BY NextTypes, StepHasKind, StepKeepsSessions, StepKeepsAbsence DEF RuntimeInv

LEMMA RuntimeInvariance == HandoffSpec => []RuntimeInv
  BY InitRuntime, NextRuntime, PTL DEF HandoffSpec

\* Only a handoff makes the temporary session the current one.
LEMMA OnlyHandoffPromotes ==
  ASSUME RuntimeInv, KindOfStep, app.grace # NoLoop, app'.session = app.grace.session
  PROVE  absentee # None /\ absentee = gate.released
  <1>1. app'.session # app.session /\ AppOK /\ SessionInv
    BY DEF RuntimeInv, SessionInv, HandoffInv
  <1>2. ~Quiet /\ ~Disturbs /\ \A r : ~Poll(r)
    BY <1>1 DEF Quiet, Disturbs, Poll
  <1>3. \A v : ~Binds(v) /\ ~LeavesOut(v)
    BY <1>1, BindSessionIs DEF Binds, LeavesOut
  <1>4. (\A s : ~OpensGrace(s)) /\ ~Archives
    BY <1>1, InsertsGraceIs, ArchiveIs DEF OpensGrace, Archives
  <1>5. PICK v, s : HandsOver(v, s)
    BY <1>2, <1>3, <1>4 DEF KindOfStep
  <1>6. HandingOver(v) /\ v \in Persons
    BY <1>5 DEF HandsOver, Done, HandingOver, Persons
  <1>7. QED
    BY <1>6 DEF RuntimeInv, AbsenceInv

\* A temporary session that becomes the next person's session was spoken in the absence
\* that ended with this release (_start_unidentified_session_after_primary_leave): the
\* session of an absence that ended with a return has been archived before the dispatcher
\* polls again.  So under any requests, the identity API, resets and reloads included,
\* and with a failing LLM client.
THEOREM PromotionIsOfThisAbsence == HandoffSpec => PromotesThisAbsence
  <1>1. RuntimeInv /\ [HandoffNext]_vars =>
          [ (app.grace # NoLoop /\ app'.session = app.grace.session) =>
              absentee # None /\ absentee = gate.released ]_vars
    BY StepHasKind, OnlyHandoffPromotes DEF RuntimeInv
  <1>2. QED
    BY <1>1, RuntimeInvariance, PTL DEF HandoffSpec, PromotesThisAbsence

-----------------------------------------------------------------------------
(* Which sessions are open, without resets and reloads and with a working   *)
(* LLM client.                                                              *)

SessionsKept == Requests \intersect {"reset", "reload"} = {} /\ ~LlmMayFail

LEMMA SameSessionsKeeps ==
  ASSUME OnlyLiveSessionsOpen, SameSessions
  PROVE  OnlyLiveSessionsOpen'
  BY DEF SameSessions, OnlyLiveSessionsOpen

LEMMA InsertsGraceKeeps ==
  ASSUME AppOK, OnlyLiveSessionsOpen, NEW s, InsertsGrace(s)
  PROVE  OnlyLiveSessionsOpen'
  <1>1. /\ app'.session = app.session /\ app'.grace.session = s /\ s # NoSession
        /\ \A t \in Sessions : rows'[t].open <=> (t = s \/ rows[t].open)
    BY InsertsGraceIs
  <1>2. app.grace.session = NoSession /\ \A t \in Sessions : t # NoSession
    BY NoLoopIs, SessionNumbers DEF InsertsGrace
  <1>3. \A t \in Sessions : rows[t].open <=> t = app.session
    BY <1>2 DEF OnlyLiveSessionsOpen
  <1>4. \A t \in Sessions : rows'[t].open <=> t \in {app'.session, app'.grace.session} \ {NoSession}
    BY <1>1, <1>2, <1>3
  <1>5. QED
    BY <1>4 DEF OnlyLiveSessionsOpen

LEMMA ArchiveKeeps ==
  ASSUME AppOK, SessionInv, OnlyLiveSessionsOpen, Archive
  PROVE  OnlyLiveSessionsOpen'
  <1>1. /\ app'.session = app.session /\ app'.grace = NoLoop
        /\ \A t \in Sessions : rows'[t].open <=> (rows[t].open /\ t # app.grace.session)
    BY ArchiveIs
  <1>2. \A t \in Sessions : rows[t].open <=> t \in {app.session, app.grace.session} \ {NoSession}
    BY DEF OnlyLiveSessionsOpen
  <1>3. app.session \in Sessions /\ (\A t \in Sessions : t # NoSession) /\ app'.grace.session = NoSession
    BY <1>1, AppFieldTypes, NoLoopIs, SessionNumbers
  <1>4. app.session # app.grace.session
    BY <1>3, NoLoopIs DEF SessionInv
  <1>5. \A t \in Sessions : rows'[t].open <=> t \in {app'.session, app'.grace.session} \ {NoSession}
    BY <1>1, <1>2, <1>3, <1>4
  <1>6. QED
    BY <1>5 DEF OnlyLiveSessionsOpen

LEMMA HandOverKeeps ==
  ASSUME AppOK, SessionInv, OnlyLiveSessionsOpen, NEW s, Succeeds(s), HandOver(s)
  PROVE  OnlyLiveSessionsOpen'
  <1>1. /\ app'.session = s /\ app'.grace = NoLoop
        /\ \A t \in Sessions : rows'[t].open <=> (t = s \/ (rows[t].open /\ t # app.session))
    BY HandOverIs
  <1>2. \A t \in Sessions : rows[t].open <=> t \in {app.session, app.grace.session} \ {NoSession}
    BY DEF OnlyLiveSessionsOpen
  <1>3. (\A t \in Sessions : t # NoSession) /\ app'.grace.session = NoSession
    BY <1>1, NoLoopIs, SessionNumbers
  <1>4. app.grace.session \in {s, NoSession}
    BY NoLoopIs DEF Succeeds
  <1>5. \A t \in Sessions : rows'[t].open <=> t \in {app'.session, app'.grace.session} \ {NoSession}
    BY <1>1, <1>2, <1>3, <1>4
  <1>6. QED
    BY <1>5 DEF OnlyLiveSessionsOpen

LEMMA StepEndsSessions ==
  ASSUME HandoffInv, SessionInv, OnlyLiveSessionsOpen, KindOfStep,
         ~LlmMayFail, Without({"reset", "reload"})
  PROVE  OnlyLiveSessionsOpen'
  <1>1. AppOK
    BY DEF HandoffInv
  <1>2. ASSUME UNCHANGED << app, rows >> PROVE OnlyLiveSessionsOpen'
    BY <1>2 DEF OnlyLiveSessionsOpen
  <1>3. (Quiet \/ \E v : LeavesOut(v)) => UNCHANGED << app, rows >>
    BY DEF Quiet, LeavesOut
  <1>4. ASSUME NEW r \in Reports, Poll(r) PROVE UNCHANGED << app, rows >>
    BY <1>4 DEF Poll
  <1>5. ASSUME NEW v, Binds(v) PROVE SameSessions
    BY <1>1, <1>5, BindSessionIs DEF Binds, SameSessions
  <1>6. Disturbs => SameSessions
    BY DEF Disturbs
  <1>7. ASSUME NEW s, OpensGrace(s) PROVE OnlyLiveSessionsOpen'
    BY <1>1, <1>7, InsertsGraceKeeps DEF OpensGrace
  <1>8. Archives => OnlyLiveSessionsOpen'
    BY <1>1, ArchiveKeeps DEF Archives
  <1>9. ASSUME NEW v, NEW s, HandsOver(v, s) PROVE OnlyLiveSessionsOpen'
    BY <1>1, <1>9, HandOverKeeps DEF HandsOver
  <1>10. QED
    BY <1>2, <1>3, <1>4, <1>5, <1>6, <1>7, <1>8, <1>9, SameSessionsKeeps DEF KindOfStep

\* Only the current session and the temporary one are open: whichever of the handoff,
\* the archive, the turns of the absence and the visitor's requests get loop_lock first,
\* no session is left open that nobody ends any more, and none is ended that is in use.
\* Also with the identity API, which changes the controller behind the runtime's back.
THEOREM SessionsAreEnded == SessionsKept => (HandoffSpec => []OnlyLiveSessionsOpen)
  <1> SUFFICES ASSUME SessionsKept PROVE HandoffSpec => []OnlyLiveSessionsOpen
    OBVIOUS
  <1> DEFINE T == {"reset", "reload"}
             SInv == Without(T) /\ OnlyLiveSessionsOpen
  <1>1. NotAskedFor(T) /\ ~LlmMayFail
    BY DEF SessionsKept, NotAskedFor, Behind
  <1>2. HandoffInit => SInv
    <2> SUFFICES ASSUME HandoffInit PROVE SInv
      OBVIOUS
    <2>1. Without(T)
      BY <1>1, InitWithout DEF NotAskedFor
    <2>2. /\ app.session = 0 /\ app.grace = NoLoop /\ 0 \in Sessions
          /\ \A s \in Sessions : rows[s].open <=> s = 0
      BY SessionNumbers DEF HandoffInit
    <2>3. OnlyLiveSessionsOpen
      BY <2>2, NoLoopIs, SessionNumbers DEF OnlyLiveSessionsOpen
    <2>4. QED
      BY <2>1, <2>3
  <1>3. RuntimeInv /\ SInv /\ [HandoffNext]_vars => SInv'
    BY <1>1, NextWithout, StepHasKind, StepEndsSessions DEF RuntimeInv
  <1>4. SInv => OnlyLiveSessionsOpen
    OBVIOUS
  <1> HIDE DEF SInv
  <1>5. QED
    BY <1>2, <1>3, <1>4, RuntimeInvariance, PTL DEF HandoffSpec

-----------------------------------------------------------------------------
(* The agreement, without the requests that change the session or the       *)
(* visitor behind the dispatcher's back, and with a working LLM client.     *)

Orderly == /\ Requests \subseteq {"turn", "select", "create", "config"}
           /\ ~LlmMayFail

\* Controller, runtime, loop and database agree, or the handoff that will make them
\* agree is under way: the controller has released the runtime's visitor.
AgreeInv ==
  /\ gate.session = app.session
  /\ app.loop = [session |-> app.session, scope |-> app.visitor]
  /\ rows[app.session].visitor = app.visitor
  /\ \/ gate.primary = app.visitor
     \/ gate.primary = None /\ HandingOver(app.visitor)

LEMMA AgreeNext ==
  AgreeInv' <=>
    /\ gate'.session = app'.session
    /\ app'.loop = [session |-> app'.session, scope |-> app'.visitor]
    /\ rows'[app'.session].visitor = app'.visitor
    /\ \/ gate'.primary = app'.visitor
       \/ gate'.primary = None /\ Entry("handoff", NoSession, app'.visitor) \in Entered'
  BY DEF AgreeInv, HandingOver

\* A step that leaves both visitors alone, and their handoff.
LEMMA AgreedAsBefore ==
  ASSUME AgreeInv, app' = app, rows' = rows,
         gate'.session = gate.session, gate'.primary = gate.primary,
         Entry("handoff", NoSession, app.visitor) \in Entered
           => Entry("handoff", NoSession, app.visitor) \in Entered'
  PROVE  AgreeInv'
  BY AgreeNext DEF AgreeInv, HandingOver

LEMMA QuietAgrees ==
  ASSUME AgreeInv, Quiet
  PROVE  AgreeInv'
  <1>1. gate'.session = gate.session /\ gate'.primary = gate.primary /\ app' = app /\ rows' = rows
    BY DEF Quiet, SameVisitor
  <1>2. Entry("handoff", NoSession, app.visitor).task \in Dispatched
    BY EntryIs DEF Dispatched
  <1>3. QED
    BY <1>1, <1>2, AgreedAsBefore DEF Quiet, Kept

LEMMA BindsAgrees ==
  ASSUME AppOK, AgreeInv, NEW v, Binds(v)
  PROVE  AgreeInv'
  <1>1. gate'.session = gate.session /\ gate'.primary = v
    BY DEF Binds, BoundTo
  <1>2. /\ app'.session = app.session /\ app'.visitor = v
        /\ app'.loop = [session |-> app.session, scope |-> v]
        /\ rows'[app.session].visitor = v
    BY BindSessionIs DEF Binds
  <1>3. QED
    BY <1>1, <1>2, AgreeNext DEF AgreeInv

\* While the visitor counts as missing there is no handoff, so the visitors agree.
LEMMA OpensGraceAgrees ==
  ASSUME AppOK, AbsenceInv, AgreeInv, NEW s, OpensGrace(s)
  PROVE  AgreeInv'
  <1>1. /\ gate'.session = gate.session /\ gate'.primary = gate.primary
        /\ gate'.presence = gate.presence
    BY DEF OpensGrace, SameVisitor
  <1>2. gate.presence = "missing_grace"
    BY <1>1 DEF OpensGrace, InGrace, ScopeMode
  <1>3. app.visitor \in Persons
    BY AppFieldTypes
  <1>4. gate.primary = app.visitor
    BY <1>2, <1>3, MissingIsAlone DEF AgreeInv
  <1>5. /\ app'.session = app.session /\ app'.visitor = app.visitor /\ app'.loop = app.loop
        /\ rows'[app.session] = rows[app.session]
    BY InsertsGraceIs DEF OpensGrace
  <1>6. QED
    BY <1>1, <1>4, <1>5, AgreeNext DEF AgreeInv

\* Nor is there a handoff while an archive waits.
LEMMA ArchivesAgrees ==
  ASSUME AppOK, SessionInv, AbsenceInv, AgreeInv, Archives
  PROVE  AgreeInv'
  <1>1. Archiving /\ gate' = gate
    BY DEF Archives, Archive, Done, Archiving
  <1>2. app.visitor \in Persons
    BY AppFieldTypes
  <1>3. gate.primary = app.visitor
    BY <1>1, <1>2 DEF AbsenceInv, AgreeInv
  <1>4. /\ app'.session = app.session /\ app'.visitor = app.visitor /\ app'.loop = app.loop
        /\ rows'[app.session].visitor = rows[app.session].visitor
    BY ArchiveIs DEF Archives
  <1>5. QED
    BY <1>1, <1>3, <1>4, AgreeNext DEF AgreeInv

\* A handoff that is left out was not of the runtime's visitor.
LEMMA LeavesOutAgrees ==
  ASSUME AgreeInv, ~LlmMayFail, NEW v, LeavesOut(v)
  PROVE  AgreeInv'
  <1> DEFINE h(u) == Entry("handoff", NoSession, u)
  <1>1. app.visitor # v /\ gate' = gate /\ app' = app /\ rows' = rows
    BY DEF LeavesOut
  <1>2. h(app.visitor) # h(v) /\ h(app.visitor).task \in Dispatched
    <2>1. h(app.visitor).who = app.visitor /\ h(v).who = v /\ h(app.visitor).task = "handoff"
      BY EntryIs
    <2>2. QED
      BY <1>1, <2>1 DEF Dispatched
  <1>3. Done(h(v))
    BY DEF LeavesOut
  <1> HIDE DEF h
  <1>4. h(app.visitor) \in Entered => h(app.visitor) \in Entered'
    BY <1>2, <1>3 DEF Done
  <1>5. QED
    BY <1>1, <1>4, AgreedAsBefore DEF h

LEMMA HandsOverAgrees ==
  ASSUME HandoffInv, SessionInv, NEW v, NEW s, HandsOver(v, s)
  PROVE  AgreeInv'
  <1>1. Sound(gate) /\ AppOK
    BY DEF HandoffInv, GateOK
  <1>2. gate'.session = s /\ gate'.primary = None
    BY <1>1, HandOverGate DEF HandsOver, Succeeds
  <1>3. /\ app'.session = s /\ app'.visitor = None
        /\ app'.loop = [session |-> s, scope |-> None]
        /\ rows'[s].visitor = None
    BY <1>1, HandOverIs DEF HandsOver
  <1>4. QED
    BY <1>2, <1>3, AgreeNext

\* A poll that releases the runtime's visitor asks for the handoff.
LEMMA PollAgrees ==
  ASSUME HandoffInv, AgreeInv, NEW r \in Reports, Poll(r)
  PROVE  AgreeInv'
  <1>1. Sound(gate) /\ app' = app /\ rows' = rows
    BY DEF HandoffInv, GateOK, Poll
  <1>2. ~HandingOver(app.visitor)
    BY PollDispatch
  <1>3. gate.primary = app.visitor
    BY <1>2 DEF AgreeInv
  <1>4. /\ gate'.session = gate.session
        /\ gate'.primary = gate.primary \/ (gate.primary # None /\ gate'.primary = None)
    BY <1>1, PollIs DEF Poll
  <1>5. gate.primary # None /\ gate'.primary = None
          => Entry("handoff", NoSession, gate.primary) \in Entered'
    BY PollDispatch, PrimedEntries
  <1>6. QED
    BY <1>1, <1>3, <1>4, <1>5, AgreeNext DEF AgreeInv

LEMMA StepAgrees ==
  ASSUME RuntimeInv, AgreeInv, KindOfStep, Orderly, Without(Behind)
  PROVE  AgreeInv'
  <1>1. HandoffInv /\ SessionInv /\ AbsenceInv /\ AppOK /\ ~LlmMayFail
    BY DEF RuntimeInv, HandoffInv, Orderly
  <1>2. ~Disturbs
    BY <1>1 DEF Disturbs, Orderly
  <1>3. ASSUME NEW r \in Reports, Poll(r) PROVE AgreeInv'
    BY <1>1, <1>3, PollAgrees
  <1>4. QED
    BY <1>1, <1>2, <1>3, QuietAgrees, BindsAgrees, OpensGraceAgrees, ArchivesAgrees,
       LeavesOutAgrees, HandsOverAgrees DEF KindOfStep

\* Once nobody holds loop_lock or waits for it, runtime, controller, dialogue loop and
\* database name the same session and the same visitor: whatever visitors are released
\* by the dispatcher, confirmed in a turn, recognised by a capture, or chosen by the
\* developer, in any order at the lock.
THEOREM HandoffSettles == Orderly => (HandoffSpec => []SettledAgreement)
  <1> SUFFICES ASSUME Orderly PROVE HandoffSpec => []SettledAgreement
    OBVIOUS
  <1> DEFINE AInv == Without(Behind) /\ AgreeInv
  <1>1. NotAskedFor(Behind)
    BY DEF Orderly, NotAskedFor, Behind
  <1>2. HandoffInit => AInv
    <2> SUFFICES ASSUME HandoffInit PROVE AInv
      OBVIOUS
    <2>1. Without(Behind)
      BY InitWithout
    <2>2. /\ app.session = 0 /\ app.visitor = gate.primary
          /\ app.loop = [session |-> 0, scope |-> gate.primary] /\ 0 \in Sessions
      BY SessionNumbers DEF HandoffInit
    <2>3. rows[0].visitor = gate.primary
      BY <2>2 DEF HandoffInit
    <2>4. gate.session = 0
      BY DEF HandoffInit, Init, NewStatus
    <2>5. QED
      BY <2>1, <2>2, <2>3, <2>4 DEF AgreeInv
  <1>3. RuntimeInv /\ AInv /\ [HandoffNext]_vars => AInv'
    BY <1>1, NextWithout, StepHasKind, StepAgrees DEF RuntimeInv
  <1>4. AInv => SettledAgreement
    <2> SUFFICES ASSUME AgreeInv, Settled PROVE SettledAgreement
      BY DEF SettledAgreement
    <2>1. Entered = {Free}
      BY DEF Settled, Entered
    <2>2. \A v : ~HandingOver(v)
      BY <2>1, EntryIs DEF HandingOver
    <2>3. QED
      BY <2>2 DEF AgreeInv, SettledAgreement
  <1> HIDE DEF AInv
  <1>5. QED
    BY <1>2, <1>3, <1>4, RuntimeInvariance, PTL DEF HandoffSpec

=============================================================================
