------------------------ MODULE VisitorGating_proofs ------------------------
(***************************************************************************)
(* Proofs about the gating controller, for any set of visitors, any set of *)
(* tracks and any bounds; and, in the second half, about the controller    *)
(* fed by the camera (VisitorPresence), for any people, track numbers and  *)
(* times.  The first half uses nothing of the camera.                      *)
(***************************************************************************)
EXTENDS VisitorPresence, TLAPS, FiniteSetTheorems, SequenceTheorems

-----------------------------------------------------------------------------
(* The building blocks keep the type of the controller's state. *)

LEMMA ZeroAge == 0 \in Ages
  BY AgeAssumption DEF Ages

LEMMA OlderType == \A a \in Ages : Older(a) \in Ages
  BY AgeAssumption DEF Older, Ages

LEMMA OlderClock == \A a \in Ages \union {NoClock} :
                      /\ Older(a) \in Ages \union {NoClock}
                      /\ Older(a) = NoClock <=> a = NoClock
  BY AgeAssumption DEF Older, Ages, NoClock

LEMMA NewStatusType ==
  ASSUME NEW sid \in Nat, NEW v \in Visitors \union {None}
  PROVE  NewStatus(sid, v) \in Gate
  <1>1. IdentityOf(v) \in IdentityStates /\ PresenceOf(v) \in PresenceStates
    BY DEF IdentityOf, PresenceOf, IdentityStates, PresenceStates
  <1>2. NoConfirmation \in [status: ConfirmStates, who: Visitors \union {None}]
    BY DEF NoConfirmation, ConfirmStates
  <1>3. /\ "idle" \in RuntimeStates
        /\ "unconfirmed" \in IntentStates
        /\ "observe_only" \in Decisions
        /\ "none" \in EventNames
    BY DEF RuntimeStates, IntentStates, Decisions, EventNames
  <1>4. QED
    BY <1>1, <1>2, <1>3, ZeroAge DEF NewStatus, Gate

LEMMA DropCandidateType ==
  ASSUME NEW s \in Gate
  PROVE  DropCandidate(s) \in Gate
  BY DEF DropCandidate, Gate

\* ... and close the offer, whoever is the primary visitor.
LEMMA DropCandidateIs ==
  ASSUME NEW s \in Gate
  PROVE  /\ DropCandidate(s).waiting = FALSE
         /\ DropCandidate(s).candidate = None
         /\ DropCandidate(s).primary = s.primary
         /\ DropCandidate(s).track = s.track
         /\ DropCandidate(s).presence = s.presence
         /\ DropCandidate(s).unseen = s.unseen
  BY DEF DropCandidate, Gate

LEMMA DropTrackType ==
  ASSUME NEW s \in Gate, NEW p \in PresenceStates
  PROVE  DropTrack(s, p) \in Gate
  BY ZeroAge DEF DropTrack, Gate

LEMMA DropTrackIs ==
  ASSUME NEW s \in Gate, NEW p
  PROVE  /\ DropTrack(s, p).waiting = s.waiting
         /\ DropTrack(s, p).candidate = s.candidate
         /\ DropTrack(s, p).track = NoTrack
         /\ DropTrack(s, p).presence = p
  BY DEF DropTrack, Gate

LEMMA MarkType ==
  ASSUME NEW s \in Gate, NEW d \in Decisions, NEW e \in EventNames
  PROVE  Mark(s, d, e) \in Gate
  BY DEF Mark, Gate

LEMMA BindType ==
  ASSUME NEW s \in Gate, NEW v \in Visitors \union {None}
  PROVE  Bind(s, v) \in Gate
  <1>1. IdentityOf(v) \in IdentityStates /\ PresenceOf(v) \in PresenceStates
    BY DEF IdentityOf, PresenceOf, IdentityStates, PresenceStates
  <1> DEFINE d == DropTrack(DropCandidate(s), PresenceOf(v))
  <1>2. d \in Gate
    BY <1>1, DropCandidateType, DropTrackType
  <1>3. Bind(s, v) = [d EXCEPT !.primary = v, !.identity = IdentityOf(v)]
    BY DEF Bind
  <1> HIDE DEF d
  <1>4. QED
    BY <1>1, <1>2, <1>3, ZenonT(60) DEF Gate

LEMMA BindIs ==
  ASSUME NEW s \in Gate, NEW v \in Visitors \union {None}
  PROVE  /\ Bind(s, v).waiting = FALSE
         /\ Bind(s, v).candidate = None
         /\ Bind(s, v).primary = v
         /\ Bind(s, v).track = NoTrack
         /\ Bind(s, v).presence = PresenceOf(v)
  <1> DEFINE d == DropTrack(DropCandidate(s), PresenceOf(v))
  <1>1. PresenceOf(v) \in PresenceStates
    BY DEF PresenceOf, PresenceStates
  <1>2. d \in Gate
    BY <1>1, DropCandidateType, DropTrackType
  <1>3. /\ d.waiting = FALSE /\ d.candidate = None
        /\ d.track = NoTrack /\ d.presence = PresenceOf(v)
    <2>1. /\ DropCandidate(s) \in Gate
          /\ DropCandidate(s).waiting = FALSE /\ DropCandidate(s).candidate = None
      BY DropCandidateType, DropCandidateIs
    <2>2. QED
      BY <2>1, DropTrackIs
  <1>4. Bind(s, v) = [d EXCEPT !.primary = v, !.identity = IdentityOf(v)]
    BY DEF Bind
  <1> HIDE DEF d
  <1>5. QED
    BY <1>2, <1>3, <1>4 DEF Gate

-----------------------------------------------------------------------------
(* The inductive invariant, as a predicate on the controller's state, and   *)
(* the methods that keep it.                                                *)

Sound(s) == s \in Gate /\ OfferConsistent(s) /\ TrackConsistent(s)

LEMMA NewStatusSound ==
  ASSUME NEW sid \in Nat, NEW v \in Visitors \union {None}
  PROVE  Sound(NewStatus(sid, v))
  BY NewStatusType, SMTT(30)
     DEF Sound, OfferConsistent, TrackConsistent, NewStatus, PresenceOf

LEMMA BindSound ==
  ASSUME NEW s \in Gate, NEW v \in Visitors \union {None}
  PROVE  Sound(Bind(s, v))
  <1>1. Bind(s, v) \in Gate
    BY BindType
  <1> DEFINE b == Bind(s, v)
  <1>2. /\ b.waiting = FALSE /\ b.candidate = None
        /\ b.primary = v /\ b.track = NoTrack /\ b.presence = PresenceOf(v)
    BY BindIs
  <1> HIDE DEF b
  <1>3. OfferConsistent(b) /\ TrackConsistent(b)
    BY <1>2 DEF OfferConsistent, TrackConsistent, PresenceOf
  <1>4. QED
    BY <1>1, <1>3 DEF Sound, b

\* A step that leaves the fields of the offer and of the track alone.
LEMMA SameFieldsSound ==
  ASSUME NEW s, Sound(s), NEW w \in Gate,
         w.primary = s.primary, w.track = s.track, w.presence = s.presence,
         w.waiting = s.waiting, w.candidate = s.candidate, w.candAge = s.candAge,
         w.candTurns = s.candTurns, w.confirm = s.confirm, w.identity = s.identity
  PROVE  Sound(w)
  BY DEF Sound, OfferConsistent, TrackConsistent

\* Without an open offer only the fields of the track matter.
LEMMA NoOfferSound ==
  ASSUME NEW s, Sound(s), NEW w \in Gate, w.waiting = FALSE, w.candidate = None,
         w.primary = s.primary, w.track = s.track, w.presence = s.presence
  PROVE  Sound(w)
  BY DEF Sound, OfferConsistent, TrackConsistent

LEMMA MarkSound ==
  ASSUME NEW s, Sound(s), NEW d \in Decisions, NEW e \in EventNames
  PROVE  Sound(Mark(s, d, e))
  <1>1. Mark(s, d, e) \in Gate
    BY MarkType DEF Sound
  <1> DEFINE w == Mark(s, d, e)
  <1>2. /\ w.primary = s.primary /\ w.track = s.track /\ w.presence = s.presence
        /\ w.waiting = s.waiting /\ w.candidate = s.candidate
        /\ w.candAge = s.candAge /\ w.candTurns = s.candTurns
        /\ w.confirm = s.confirm /\ w.identity = s.identity
    BY DEF Mark, Sound, Gate
  <1>3. QED
    BY <1>1, <1>2, SameFieldsSound

LEMMA DropCandidateSound ==
  ASSUME NEW s, Sound(s)
  PROVE  /\ Sound(DropCandidate(s))
         /\ DropCandidate(s).waiting = FALSE /\ DropCandidate(s).candidate = None
  <1>1. DropCandidate(s) \in Gate
    BY DropCandidateType DEF Sound
  <1>2. QED
    BY <1>1, DropCandidateIs, NoOfferSound DEF Sound

LEMMA ConfirmSound ==
  ASSUME NEW s, Sound(s), s.waiting = FALSE, s.candidate = None,
         NEW st \in ConfirmStates, NEW v \in Visitors \union {None}
  PROVE  Sound([s EXCEPT !.confirm = Confirmation(st, v)])
  <1> DEFINE w == [s EXCEPT !.confirm = Confirmation(st, v)]
  <1>1. w \in Gate
    BY DEF Sound, Gate, Confirmation
  <1>2. /\ w.primary = s.primary /\ w.track = s.track /\ w.presence = s.presence
        /\ w.waiting = FALSE /\ w.candidate = None
    BY DEF Sound, Gate
  <1> HIDE DEF w
  <1>3. Sound(w)
    BY <1>1, <1>2, NoOfferSound
  <1>4. QED
    BY <1>3 DEF w

\* Without an open offer the diagnostics may be rewritten freely.
LEMMA AnswerSound ==
  ASSUME NEW s, Sound(s), s.waiting = FALSE, s.candidate = None, NEW i \in IdentityStates,
         NEW st \in ConfirmStates, NEW v \in Visitors \union {None}
  PROVE  Sound([s EXCEPT !.identity = i, !.confirm = Confirmation(st, v)])
  <1> DEFINE w == [s EXCEPT !.identity = i, !.confirm = Confirmation(st, v)]
  <1>1. w \in Gate
    <2>1. Confirmation(st, v) \in [status: ConfirmStates, who: Visitors \union {None}]
      BY DEF Confirmation
    <2>2. s \in Gate
      BY DEF Sound
    <2>3. QED
      BY <2>1, <2>2, ZenonT(60) DEF Gate
  <1>2. /\ w.primary = s.primary /\ w.track = s.track /\ w.presence = s.presence
        /\ w.waiting = s.waiting /\ w.candidate = s.candidate
    <2>1. s \in Gate
      BY DEF Sound
    <2>2. QED
      BY <2>1 DEF Gate
  <1> HIDE DEF w
  <1>3. Sound(w)
    BY <1>1, <1>2, NoOfferSound
  <1>4. QED
    BY <1>3 DEF w

LEMMA ReleaseRecordSound ==
  ASSUME NEW s, Sound(s), NEW v \in Visitors \union {None},
         NEW sid \in Nat \union {NoSession}
  PROVE  Sound([s EXCEPT !.released = v, !.releasedTo = sid])
  <1> DEFINE w == [s EXCEPT !.released = v, !.releasedTo = sid]
  <1>1. w \in Gate
    BY DEF Sound, Gate
  <1>2. /\ w.primary = s.primary /\ w.track = s.track /\ w.presence = s.presence
        /\ w.waiting = s.waiting /\ w.candidate = s.candidate
        /\ w.candAge = s.candAge /\ w.candTurns = s.candTurns
        /\ w.confirm = s.confirm /\ w.identity = s.identity
    BY DEF Sound, Gate
  <1> HIDE DEF w
  <1>3. Sound(w)
    BY <1>1, <1>2, SameFieldsSound
  <1>4. QED
    BY <1>3 DEF w

LEMMA OpenCandidateSound ==
  ASSUME NEW s, Sound(s), NEW v \in Visitors, v # s.primary
  PROVE  Sound(OpenCandidate(s, v))
  <1>1. OpenCandidate(s, v) \in Gate
    BY ZeroAge DEF Sound, OpenCandidate, Gate, Confirmation, RuntimeStates,
                   IdentityStates, ConfirmStates
  <1>2. QED
    BY <1>1, NoneAssumption, AgeAssumption, SMTT(30)
       DEF Sound, OfferConsistent, TrackConsistent, OpenCandidate, Gate, NoClock

-----------------------------------------------------------------------------
(* The methods that callers combine. *)

LEMMA ConfigureSessionSound ==
  ASSUME NEW s, Sound(s), NEW sid \in Nat, NEW v \in Visitors \union {None},
         NEW d \in Decisions
  PROVE  Sound(ConfigureSession(s, sid, v, d))
  <1> DEFINE n == NewStatus(sid, v)
  <1>1. Sound(n) /\ n.waiting = FALSE /\ n.candidate = None
    BY NewStatusSound DEF NewStatus
  <1>2. "session_configured" \in EventNames
    BY DEF EventNames
  <1> HIDE DEF n
  <1>3. ConfigureSession(s, sid, v, d) =
          [n EXCEPT !.released = s.released, !.releasedTo = s.releasedTo,
                    !.decision = d, !.event = "session_configured"]
    BY DEF ConfigureSession, n
  <1>4. s.released \in Visitors \union {None} /\ s.releasedTo \in Nat \union {NoSession}
    BY DEF Sound, Gate
  <1> DEFINE w == [n EXCEPT !.released = s.released, !.releasedTo = s.releasedTo]
  <1>5. Sound(w)
    BY <1>1, <1>4, ReleaseRecordSound
  <1>6. ConfigureSession(s, sid, v, d) = Mark(w, d, "session_configured")
    BY <1>1, <1>3 DEF Mark, Sound, Gate
  <1> HIDE DEF w
  <1>7. QED
    BY <1>2, <1>5, <1>6, MarkSound

LEMMA SetPrimarySound ==
  ASSUME NEW s, Sound(s), NEW v \in Visitors \union {None}
  PROVE  Sound(SetPrimaryVisitor(s, v))
  <1>1. Sound(Bind(s, v)) /\ Bind(s, v).waiting = FALSE /\ Bind(s, v).candidate = None
    BY BindSound, BindIs DEF Sound
  <1>2. Sound([Bind(s, v) EXCEPT !.confirm = NoConfirmation])
    <2>1. NoConfirmation = Confirmation("none", None) /\ "none" \in ConfirmStates
      BY DEF NoConfirmation, Confirmation, ConfirmStates
    <2>2. QED
      BY <1>1, <2>1, ConfirmSound
  <1>3. /\ {"visitor_cleared", "visitor_bound"} \subseteq Decisions
        /\ "visitor_selection" \in EventNames
    BY DEF Decisions, EventNames
  <1>4. QED
    BY <1>2, <1>3, MarkSound DEF SetPrimaryVisitor

LEMMA ConfirmCandidateSound ==
  ASSUME NEW s, Sound(s), NEW accepted \in BOOLEAN
  PROVE  Sound(ConfirmCandidate(s, accepted))
  <1> DEFINE v == s.candidate
  <1>1. v \in Visitors \union {None}
    BY DEF Sound, Gate
  <1>2. /\ {"observe_only", "visitor_bound"} \subseteq Decisions
        /\ "identity_confirmation" \in EventNames
        /\ {"none", "accepted", "rejected"} \subseteq ConfirmStates
    BY DEF Decisions, EventNames, ConfirmStates
  <1>3. CASE v = None
    <2> DEFINE w == [s EXCEPT !.waiting = FALSE, !.confirm = NoConfirmation]
    <2>1. Sound(w)
      <3>1. w \in Gate
        BY <1>2 DEF Sound, Gate, NoConfirmation
      <3>2. /\ w.primary = s.primary /\ w.track = s.track /\ w.presence = s.presence
            /\ w.waiting = FALSE /\ w.candidate = None
        BY <1>3 DEF Sound, Gate
      <3> HIDE DEF w
      <3>3. QED
        BY <3>1, <3>2, NoOfferSound
    <2>2. Sound(Mark(w, "observe_only", "identity_confirmation"))
      BY <1>2, <2>1, MarkSound
    <2>3. QED
      BY <1>3, <2>2 DEF ConfirmCandidate
  <1>4. CASE v # None /\ accepted
    <2> DEFINE w == [Bind(s, v) EXCEPT !.confirm = Confirmation("accepted", v)]
    <2>1. Sound(Bind(s, v)) /\ Bind(s, v).waiting = FALSE /\ Bind(s, v).candidate = None
      BY <1>1, BindSound, BindIs DEF Sound
    <2>2. Sound(w)
      BY <1>1, <1>2, <2>1, ConfirmSound
    <2>3. Sound(Mark(w, "visitor_bound", "identity_confirmation"))
      BY <1>2, <2>2, MarkSound
    <2>4. QED
      BY <1>4, <2>3 DEF ConfirmCandidate
  <1>5. CASE v # None /\ ~accepted
    <2> DEFINE d == DropCandidate(s)
               w == [d EXCEPT !.identity = IdentityOf(s.primary),
                              !.confirm  = Confirmation("rejected", v)]
    <2>1. Sound(d) /\ d.waiting = FALSE /\ d.candidate = None
      BY DropCandidateSound
    <2> HIDE DEF d
    <2>2. IdentityOf(s.primary) \in IdentityStates
      BY DEF IdentityOf, IdentityStates
    <2>3. Sound(w)
      BY <1>1, <1>2, <2>1, <2>2, AnswerSound
    <2>4. Sound(Mark(w, "observe_only", "identity_confirmation"))
      BY <1>2, <2>3, MarkSound
    <2>5. QED
      BY <1>5, <2>4 DEF ConfirmCandidate, d
  <1>6. QED
    BY <1>3, <1>4, <1>5

LEMMA RecordReleaseSound ==
  ASSUME NEW s, Sound(s), NEW sid \in Nat
  PROVE  Sound(RecordReleaseSession(s, sid))
  BY SMTT(30) DEF RecordReleaseSession, Sound, OfferConsistent, TrackConsistent, Gate

LEMMA ExpireCandidateSound ==
  ASSUME NEW s, Sound(s)
  PROVE  /\ Sound(ExpireCandidate(s))
         /\ Expired(s) => ExpireCandidate(s).waiting = FALSE /\ ExpireCandidate(s).candidate = None
         /\ ExpireCandidate(s).primary = s.primary
  <1>1. CASE ~Expired(s)
    BY <1>1 DEF ExpireCandidate
  <1>2. CASE Expired(s)
    <2> DEFINE d == DropCandidate(s)
               w == [d EXCEPT !.identity = IdentityOf(s.primary),
                              !.confirm  = Confirmation("expired", s.candidate)]
    <2>1. Sound(d) /\ d.waiting = FALSE /\ d.candidate = None /\ d.primary = s.primary
      BY DropCandidateSound, DropCandidateIs DEF Sound
    <2>2. /\ IdentityOf(s.primary) \in IdentityStates
          /\ "expired" \in ConfirmStates
          /\ s.candidate \in Visitors \union {None}
      BY DEF IdentityOf, IdentityStates, ConfirmStates, Sound, Gate
    <2> HIDE DEF d
    <2>3. Sound(w)
      BY <2>1, <2>2, AnswerSound
    <2>4. w.waiting = FALSE /\ w.candidate = None /\ w.primary = s.primary
      BY <2>1 DEF Sound, Gate
    <2> HIDE DEF w
    <2>5. Sound(Mark(w, "observe_only", "candidate_expired"))
      BY <2>3, MarkSound DEF Decisions, EventNames
    <2>6. ExpireCandidate(s) = Mark(w, "observe_only", "candidate_expired")
      BY <1>2 DEF ExpireCandidate, w, d
    <2>7. QED
      BY <1>2, <2>3, <2>4, <2>5, <2>6 DEF Mark, Sound, Gate
  <1>3. QED
    BY <1>1, <1>2

\* Runtime state, intent, decision and event take no part in the invariant.
LEMMA LabelsSound ==
  ASSUME NEW s, Sound(s), NEW r \in RuntimeStates, NEW i \in IntentStates,
         NEW d \in Decisions, NEW e \in EventNames
  PROVE  Sound([s EXCEPT !.runtime = r, !.intent = i, !.decision = d, !.event = e])
  <1> DEFINE w == [s EXCEPT !.runtime = r, !.intent = i, !.decision = d, !.event = e]
  <1>1. w \in Gate
    BY DEF Sound, Gate
  <1>2. /\ w.primary = s.primary /\ w.track = s.track /\ w.presence = s.presence
        /\ w.waiting = s.waiting /\ w.candidate = s.candidate
        /\ w.candAge = s.candAge /\ w.candTurns = s.candTurns
        /\ w.confirm = s.confirm /\ w.identity = s.identity
    BY DEF Sound, Gate
  <1> HIDE DEF w
  <1>3. Sound(w)
    BY <1>1, <1>2, SameFieldsSound
  <1>4. QED
    BY <1>3 DEF w

LEMMA EnterTurnSound ==
  ASSUME NEW s, Sound(s), NEW interruption \in BOOLEAN
  PROVE  /\ Sound(EnterTurn(s, interruption))
         /\ EnterTurn(s, interruption).waiting = s.waiting
         /\ EnterTurn(s, interruption).candTurns = s.candTurns
  <1> DEFINE w(r, d) == [s EXCEPT !.runtime = r, !.decision = d]
  <1>1. \A r \in RuntimeStates, d \in Decisions :
           Sound(w(r, d)) /\ w(r, d).waiting = s.waiting /\ w(r, d).candTurns = s.candTurns
    <2> TAKE r \in RuntimeStates, d \in Decisions
    <2>1. w(r, d) \in Gate
      BY DEF Sound, Gate
    <2> DEFINE x == w(r, d)
    <2>2. /\ x.primary = s.primary /\ x.track = s.track /\ x.presence = s.presence
          /\ x.waiting = s.waiting /\ x.candidate = s.candidate
          /\ x.candAge = s.candAge /\ x.candTurns = s.candTurns
          /\ x.confirm = s.confirm /\ x.identity = s.identity
      BY DEF Sound, Gate
    <2> HIDE DEF x
    <2>3. Sound(x)
      BY <2>1, <2>2, SameFieldsSound DEF x
    <2>4. QED
      BY <2>2, <2>3 DEF x
  <1> HIDE DEF w
  <1>2. /\ {"interrupted", "in_dialogue"} \subseteq RuntimeStates
        /\ {"interruption_recorded", "continue_unscoped", "continue_unidentified",
            "continue_current"} \subseteq Decisions
    BY DEF RuntimeStates, Decisions
  <1>3. \E r \in RuntimeStates, d \in Decisions : EnterTurn(s, interruption) = w(r, d)
    <2>1. CASE interruption
      <3>1. EnterTurn(s, interruption) = w("interrupted", "interruption_recorded")
        BY <2>1 DEF EnterTurn, w
      <3>2. QED BY <1>2, <3>1
    <2>2. CASE ~interruption /\ InGrace(s)
      <3>1. EnterTurn(s, interruption) = w("interrupted", "continue_unscoped")
        BY <2>2 DEF EnterTurn, w
      <3>2. QED BY <1>2, <3>1
    <2>3. CASE ~interruption /\ ~InGrace(s)
      <3>1. EnterTurn(s, interruption) =
              w("in_dialogue", IF s.primary = None THEN "continue_unidentified"
                                                   ELSE "continue_current")
        BY <2>3 DEF EnterTurn, w
      <3>2. QED BY <1>2, <3>1
    <2>4. QED BY <2>1, <2>2, <2>3
  <1>4. QED BY <1>1, <1>3

\* The turn counter of an offer: the invariant that bounds it needs the expiry
\* that before_turn runs first.
LEMMA CountUnconfirmedSound ==
  ASSUME NEW s, Sound(s), s.waiting => s.candTurns < CandidateMaxTurns
  PROVE  Sound(CountUnconfirmed(s))
  <1>1. CASE s.waiting /\ s.candidate # None
    BY <1>1, AgeAssumption, SMTT(30)
       DEF CountUnconfirmed, Sound, OfferConsistent, TrackConsistent, Gate
  <1>2. CASE ~(s.waiting /\ s.candidate # None)
    BY <1>2 DEF CountUnconfirmed
  <1>3. QED BY <1>1, <1>2

LEMMA BeforeTurnSound ==
  ASSUME NEW s, Sound(s), NEW interruption \in BOOLEAN
  PROVE  Sound(BeforeTurn(s, interruption))
  <1> DEFINE e == ExpireCandidate(s)
             n == EnterTurn(e, interruption)
             t == [n EXCEPT !.intent = "confirmed_by_input", !.event = "dialogue_turn"]
  <1>1. Sound(e)
    BY ExpireCandidateSound
  <1>2. Sound(n) /\ n.waiting = e.waiting /\ n.candTurns = e.candTurns
    BY <1>1, EnterTurnSound
  <1>3. ~Expired(s) => (e.waiting => e.candTurns < CandidateMaxTurns)
    BY AgeAssumption DEF ExpireCandidate, Expired, Sound, OfferConsistent, Gate
  <1> HIDE DEF n, e
  <1>4. Sound(t) /\ t.waiting = n.waiting /\ t.candTurns = n.candTurns
    <2>1. "confirmed_by_input" \in IntentStates /\ "dialogue_turn" \in EventNames
      BY DEF IntentStates, EventNames
    <2>2. n \in Gate
      BY <1>2 DEF Sound
    <2>3. t \in Gate
      BY <2>1, <2>2 DEF Gate
    <2>4. /\ t.primary = n.primary /\ t.track = n.track /\ t.presence = n.presence
          /\ t.waiting = n.waiting /\ t.candidate = n.candidate
          /\ t.candAge = n.candAge /\ t.candTurns = n.candTurns
          /\ t.confirm = n.confirm /\ t.identity = n.identity
      BY <2>2 DEF Gate
    <2> HIDE DEF t
    <2>5. QED BY <1>2, <2>3, <2>4, SameFieldsSound
  <1> HIDE DEF t
  <1>5. ~Expired(s) => Sound(CountUnconfirmed(t))
    BY <1>2, <1>3, <1>4, CountUnconfirmedSound
  <1>6. BeforeTurn(s, interruption) = IF Expired(s) THEN t ELSE CountUnconfirmed(t)
    BY DEF BeforeTurn, t, n, e
  <1>7. QED
    BY <1>4, <1>5, <1>6

-----------------------------------------------------------------------------
(* Every action keeps the invariant.                                        *)

\* The names that the actions write are in their sets.
LEMMA Names ==
  /\ {"observe_only", "continue_current", "confirm_candidate", "refuse_switch",
      "visitor_bound", "visitor_cleared", "session_reset"} \subseteq Decisions
  /\ SystemEvents \subseteq EventNames
  /\ {"identity_match", "primary_visitor_left"} \subseteq EventNames
  /\ {"none", "accepted", "interruption_recorded"} \subseteq ConfirmStates
  /\ {"idle", "encounter_candidate", "interrupted"} \subseteq RuntimeStates
  /\ {"unconfirmed", "no_response"} \subseteq IntentStates
  /\ {"unidentified", "confirmed", "interruption_candidate",
      "primary_missing_grace"} \subseteq IdentityStates
  /\ \A v : IdentityOf(v) \in IdentityStates
  BY DEF Decisions, SystemEvents, EventNames, ConfirmStates, RuntimeStates,
         IntentStates, IdentityStates, IdentityOf

LEMMA TickSound ==
  ASSUME Sound(gate), Tick
  PROVE  Sound(gate')
  <1> DEFINE a == Older(gate.candAge)
             u == IF gate.track = NoTrack THEN gate.unseen ELSE Older(gate.unseen)
  <1>1. a \in Ages \union {NoClock} /\ (a = NoClock <=> gate.candAge = NoClock)
    BY OlderClock DEF Sound, Gate
  <1>2. u \in Ages
    BY OlderType DEF Sound, Gate
  <1>3. gate' = [gate EXCEPT !.candAge = a, !.unseen = u]
    BY DEF Tick, Sound, Gate
  <1> HIDE DEF a, u
  <1>4. gate' \in Gate
    BY <1>1, <1>2, <1>3 DEF Sound, Gate
  <1>5. /\ gate'.primary = gate.primary /\ gate'.track = gate.track
        /\ gate'.presence = gate.presence
        /\ gate'.waiting = gate.waiting /\ gate'.candidate = gate.candidate
        /\ gate'.candAge = a /\ gate'.candTurns = gate.candTurns
        /\ gate'.confirm = gate.confirm /\ gate'.identity = gate.identity
    BY <1>3 DEF Sound, Gate
  <1>6. OfferConsistent(gate')
    BY <1>1, <1>5 DEF Sound, OfferConsistent
  <1>7. TrackConsistent(gate')
    BY <1>5 DEF Sound, TrackConsistent
  <1>8. QED
    BY <1>4, <1>6, <1>7 DEF Sound

LEMMA RuntimeIntentSound ==
  ASSUME NEW s, Sound(s), NEW r \in RuntimeStates, NEW i \in IntentStates
  PROVE  Sound([s EXCEPT !.runtime = r, !.intent = i])
  <1> DEFINE w == [s EXCEPT !.runtime = r, !.intent = i]
  <1>1. w \in Gate
    BY DEF Sound, Gate
  <1>2. /\ w.primary = s.primary /\ w.track = s.track /\ w.presence = s.presence
        /\ w.waiting = s.waiting /\ w.candidate = s.candidate
        /\ w.candAge = s.candAge /\ w.candTurns = s.candTurns
        /\ w.confirm = s.confirm /\ w.identity = s.identity
    BY DEF Sound, Gate
  <1> HIDE DEF w
  <1>3. Sound(w)
    BY <1>1, <1>2, SameFieldsSound
  <1>4. QED
    BY <1>3 DEF w

LEMMA SystemEventSound ==
  ASSUME Sound(gate), NEW e \in SystemEvents, SystemEvent(e)
  PROVE  Sound(gate')
  <1> DEFINE d == DropCandidate(gate)
  <1>1. Sound(d)
    BY DropCandidateSound
  <1>2. gate.runtime \in RuntimeStates
    BY DEF Sound, Gate
  <1> HIDE DEF d
  <1>3. /\ Sound([gate EXCEPT !.runtime = "encounter_candidate", !.intent = "unconfirmed"])
        /\ Sound([d EXCEPT !.runtime = "idle", !.intent = "unconfirmed"])
    BY <1>1, Names, RuntimeIntentSound
  <1>4. Sound([gate EXCEPT !.intent = "no_response"])
    <2>1. [gate EXCEPT !.intent = "no_response"] =
            [gate EXCEPT !.runtime = gate.runtime, !.intent = "no_response"]
      BY DEF Sound, Gate
    <2>2. QED
      BY <1>2, <2>1, Names, RuntimeIntentSound
  <1>5. \A s : Sound(s) => /\ Sound(Mark(s, "continue_current", e))
                           /\ Sound(Mark(s, "observe_only", e))
    BY Names, MarkSound
  <1>6. QED
    BY <1>3, <1>4, <1>5 DEF SystemEvent, d

LEMMA MatchNobodySound ==
  ASSUME Sound(gate), NEW m \in Matches, MatchNobody(m)
  PROVE  Sound(gate')
  <1> DEFINE d == DropCandidate(gate)
  <1>1. Sound(d) /\ d.waiting = FALSE /\ d.candidate = None
    BY DropCandidateSound
  <1>2. NoConfirmation = Confirmation("none", None)
    BY DEF NoConfirmation, Confirmation
  <1> HIDE DEF d
  <1>3. Sound([d EXCEPT !.confirm = NoConfirmation])
    BY <1>1, <1>2, Names, ConfirmSound
  <1>4. Sound(Mark([d EXCEPT !.confirm = NoConfirmation], "observe_only", "identity_match"))
    BY <1>3, Names, MarkSound
  <1>5. QED
    BY <1>4 DEF MatchNobody, d

LEMMA MatchPrimarySound ==
  ASSUME Sound(gate), NEW m \in Matches, MatchPrimary(m)
  PROVE  Sound(gate')
  <1> DEFINE d == DropCandidate(gate)
             w == [d EXCEPT !.identity = "confirmed",
                            !.confirm  = Confirmation("accepted", m.who)]
  <1>1. Sound(d) /\ d.waiting = FALSE /\ d.candidate = None
    BY DropCandidateSound
  <1> HIDE DEF d
  <1>2. Sound(w)
    BY <1>1, Names, AnswerSound DEF Matches
  <1> HIDE DEF w
  <1>3. Sound(Mark(w, "continue_current", "identity_match"))
    BY <1>2, Names, MarkSound
  <1>4. QED
    BY <1>3 DEF MatchPrimary, d, w

\* A refused visitor leaves traces, but no offer: at most a candidate nobody is
\* asked about, next to the primary visitor whose dialogue was interrupted.
LEMMA RefusalSound ==
  ASSUME NEW s, Sound(s), s.waiting = FALSE, s.candidate = None,
         NEW c \in Visitors \union {None},
         NEW r \in RuntimeStates, NEW i \in IdentityStates,
         c # None => s.primary \notin {None, c} /\ i = "interruption_candidate",
         NEW st \in ConfirmStates, NEW v \in Visitors \union {None}
  PROVE  Sound([s EXCEPT !.runtime = r, !.candidate = c, !.identity = i,
                         !.confirm = Confirmation(st, v)])
  <1> DEFINE w == [s EXCEPT !.runtime = r, !.candidate = c, !.identity = i,
                         !.confirm = Confirmation(st, v)]
  <1>1. w \in Gate
    <2>1. Confirmation(st, v) \in [status: ConfirmStates, who: Visitors \union {None}]
      BY DEF Confirmation
    <2>2. s \in Gate
      BY DEF Sound
    <2>3. QED
      BY <2>1, <2>2, ZenonT(60) DEF Gate
  <1>2. /\ w.primary = s.primary /\ w.track = s.track /\ w.presence = s.presence
        /\ w.waiting = s.waiting /\ w.candidate = c /\ w.identity = i
    <2>1. s \in Gate
      BY DEF Sound
    <2>2. QED
      BY <2>1 DEF Gate
  <1> HIDE DEF w
  <1>3. Sound(w)
    BY <1>1, <1>2 DEF Sound, OfferConsistent, TrackConsistent
  <1>4. QED
    BY <1>3 DEF w

LEMMA RefuseDuringGraceSound ==
  ASSUME Sound(gate), NEW m \in Matches, RefuseDuringGrace(m)
  PROVE  Sound(gate')
  <1> DEFINE d == DropCandidate(gate)
             w == [d EXCEPT !.runtime  = "interrupted",
                            !.identity = "primary_missing_grace",
                            !.confirm  = Confirmation("interruption_recorded", m.who)]
  <1>1. Sound(d) /\ d.waiting = FALSE /\ d.candidate = None
    BY DropCandidateSound
  <1> HIDE DEF d
  <1>2. w = [d EXCEPT !.runtime = "interrupted", !.candidate = d.candidate,
                      !.identity = "primary_missing_grace",
                      !.confirm  = Confirmation("interruption_recorded", m.who)]
    BY <1>1 DEF Sound, Gate
  <1>3. d.candidate \in Visitors \union {None} /\ m.who \in Visitors \union {None}
    BY <1>1 DEF Sound, Gate, Matches
  <1> HIDE DEF w
  <1>4. Sound(w)
    BY <1>1, <1>2, <1>3, Names, RefusalSound
  <1>5. Sound(Mark(w, "refuse_switch", "identity_match"))
    BY <1>4, Names, MarkSound
  <1>6. QED
    BY <1>5 DEF RefuseDuringGrace, d, w

LEMMA RefuseDuringDialogueSound ==
  ASSUME Sound(gate), NEW m \in Matches, RefuseDuringDialogue(m)
  PROVE  Sound(gate')
  <1> DEFINE d == DropCandidate(gate)
             w == [d EXCEPT !.runtime   = "interrupted",
                            !.candidate = m.who,
                            !.identity  = "interruption_candidate",
                            !.confirm   = Confirmation("interruption_recorded", m.who)]
  <1>1. Sound(d) /\ d.waiting = FALSE /\ d.candidate = None
    BY DropCandidateSound
  <1>2. m.who \in Visitors \union {None} /\ d.primary \notin {None, m.who}
    <2>1. gate.primary \notin {None, m.who}
      BY DEF RefuseDuringDialogue, IntrudesOnDialogue, Other
    <2>2. d.primary = gate.primary
      BY DropCandidateIs DEF Sound
    <2>3. QED
      BY <2>1, <2>2 DEF Matches
  <1> HIDE DEF d
  <1>3. Sound(w)
    BY <1>1, <1>2, Names, RefusalSound
  <1> HIDE DEF w
  <1>4. Sound(Mark(w, "refuse_switch", "identity_match"))
    BY <1>3, Names, MarkSound
  <1>5. QED
    BY <1>4 DEF RefuseDuringDialogue, d, w

LEMMA AutoBindSound ==
  ASSUME Sound(gate), NEW m \in Matches, AutoBind(m)
  PROVE  Sound(gate')
  <1> DEFINE b == Bind(gate, m.who)
  <1>1. m.who \in Visitors \union {None}
    BY DEF Matches
  <1>2. gate \in Gate
    BY DEF Sound
  <1>3. Sound(b) /\ b.waiting = FALSE /\ b.candidate = None
    BY <1>1, <1>2, BindSound, BindIs
  <1> HIDE DEF b
  <1>4. Sound([b EXCEPT !.confirm = Confirmation("accepted", m.who)])
    BY <1>1, <1>3, Names, ConfirmSound
  <1>5. Sound(Mark([b EXCEPT !.confirm = Confirmation("accepted", m.who)],
                   "visitor_bound", "identity_match"))
    BY <1>4, Names, MarkSound
  <1>6. QED
    BY <1>5 DEF AutoBind, b

LEMMA AskCandidateSound ==
  ASSUME Sound(gate), NEW m \in Matches, AskCandidate(m)
  PROVE  Sound(gate')
  <1>1. m.who \in Visitors /\ m.who # gate.primary
    BY DEF AskCandidate, NeedsConfirmation, Other, Matches
  <1>2. Sound(OpenCandidate(gate, m.who))
    BY <1>1, OpenCandidateSound
  <1>3. Sound(Mark(OpenCandidate(gate, m.who), "confirm_candidate", "identity_match"))
    BY <1>2, Names, MarkSound
  <1>4. QED
    BY <1>3 DEF AskCandidate

LEMMA IgnoreMatchSound ==
  ASSUME Sound(gate), NEW m \in Matches, IgnoreMatch(m)
  PROVE  Sound(gate')
  <1> DEFINE d == DropCandidate(gate)
             w == [d EXCEPT !.identity = IdentityOf(gate.primary),
                            !.confirm  = NoConfirmation]
  <1>1. Sound(d) /\ d.waiting = FALSE /\ d.candidate = None
    BY DropCandidateSound
  <1>2. NoConfirmation = Confirmation("none", None)
    BY DEF NoConfirmation, Confirmation
  <1> HIDE DEF d
  <1>3. Sound(w)
    BY <1>1, <1>2, Names, AnswerSound
  <1> HIDE DEF w
  <1>4. Sound(Mark(w, "observe_only", "identity_match"))
    BY <1>3, Names, MarkSound
  <1>5. QED
    BY <1>4 DEF IgnoreMatch, d, w

LEMMA ApplyIdentityMatchSound ==
  ASSUME Sound(gate), NEW m \in Matches, ApplyIdentityMatch(m)
  PROVE  Sound(gate')
  BY MatchNobodySound, MatchPrimarySound, RefuseDuringGraceSound,
     RefuseDuringDialogueSound, AutoBindSound, AskCandidateSound, IgnoreMatchSound
     DEF ApplyIdentityMatch

\* What the tracker says of a track is an age, or leaves the stored one.
LEMMA SeenAgeType ==
  ASSUME gate \in Gate, gate.track # NoTrack, NEW r \in Reports
  PROVE  SeenAge(r) \in Ages
  <1>1. gate.track \in Tracks /\ gate.unseen \in Ages
    BY DEF Gate
  <1>2. \A t \in Tracks : r.list[t] \in Sightings
    BY DEF Reports
  <1>3. \A x \in Sightings : x.age \in Ages
    BY ZeroAge DEF Sightings, Absent
  <1>4. QED
    BY <1>1, <1>2, <1>3 DEF SeenAge

\* The presence and the locked track may move together.
LEMMA PresenceSound ==
  ASSUME NEW s, Sound(s), NEW t \in Tracks \union {NoTrack}, NEW u \in Ages,
         NEW p \in PresenceStates,
         s.primary = None <=> p \in {"no_primary", "left"},
         s.primary = None => t = NoTrack,
         p \in {"present", "missing_grace"} => t # NoTrack,
         p = "ambiguous" => t = NoTrack
  PROVE  Sound([s EXCEPT !.track = t, !.unseen = u, !.presence = p])
  <1> DEFINE w == [s EXCEPT !.track = t, !.unseen = u, !.presence = p]
  <1>1. w \in Gate
    BY DEF Sound, Gate
  <1>2. /\ w.primary = s.primary /\ w.track = t /\ w.presence = p
        /\ w.waiting = s.waiting /\ w.candidate = s.candidate
        /\ w.candAge = s.candAge /\ w.candTurns = s.candTurns
        /\ w.confirm = s.confirm /\ w.identity = s.identity
    BY DEF Sound, Gate
  <1> HIDE DEF w
  <1>3. OfferConsistent(w)
    BY <1>2 DEF Sound, OfferConsistent
  <1>4. TrackConsistent(w)
    BY <1>2 DEF Sound, TrackConsistent
  <1>5. Sound(w)
    BY <1>1, <1>3, <1>4 DEF Sound
  <1>6. QED
    BY <1>5 DEF w

LEMMA PresenceOnlySound ==
  ASSUME NEW s, Sound(s), s.primary # None,
         NEW p \in PresenceStates,
         p \in {"untracked", "handoff_disabled"} \/ (p = "ambiguous" /\ s.track = NoTrack)
  PROVE  Sound([s EXCEPT !.presence = p])
  <1> DEFINE w == [s EXCEPT !.presence = p]
  <1>1. w \in Gate
    BY DEF Sound, Gate
  <1>2. /\ w.primary = s.primary /\ w.track = s.track /\ w.presence = p
        /\ w.waiting = s.waiting /\ w.candidate = s.candidate
        /\ w.candAge = s.candAge /\ w.candTurns = s.candTurns
        /\ w.confirm = s.confirm /\ w.identity = s.identity
    BY DEF Sound, Gate
  <1> HIDE DEF w
  <1>3. OfferConsistent(w)
    BY <1>2 DEF Sound, OfferConsistent
  <1>4. TrackConsistent(w)
    BY <1>2 DEF Sound, TrackConsistent
  <1>5. Sound(w)
    BY <1>1, <1>3, <1>4 DEF Sound
  <1>6. QED
    BY <1>5 DEF w

LEMMA UpdatePrimaryPresenceSound ==
  ASSUME Sound(gate), NEW r \in Reports, UpdatePrimaryPresence(r)
  PROVE  Sound(gate')
  <1>1. gate \in Gate /\ gate.track \in Tracks \union {NoTrack} /\ gate.unseen \in Ages
    BY DEF Sound, Gate
  <1>2. {"no_primary", "handoff_disabled", "untracked", "present", "ambiguous",
         "missing_grace", "left"} \subseteq PresenceStates
    BY DEF PresenceStates
  <1>3. CASE PollNoPrimary(r)
    <2>1. gate' = [gate EXCEPT !.track = NoTrack, !.unseen = 0, !.presence = "no_primary"]
      BY <1>3 DEF PollNoPrimary, DropTrack
    <2>2. gate.primary = None
      BY <1>3 DEF PollNoPrimary
    <2>3. QED
      BY <2>1, <2>2, <1>2, ZeroAge, PresenceSound
  <1>4. CASE PollHandoffOff(r)
    <2>1. gate.primary # None /\ gate' = [gate EXCEPT !.presence = "handoff_disabled"]
      BY <1>4 DEF PollHandoffOff
    <2>2. QED
      BY <2>1, <1>2, PresenceOnlySound
  <1>5. CASE PollNoFrame(r)
    <2>1. gate.primary # None /\ gate' = [gate EXCEPT !.presence = "untracked"]
      BY <1>5 DEF PollNoFrame
    <2>2. QED
      BY <2>1, <1>2, PresenceOnlySound
  <1>6. CASE PollLock(r)
    <2>1. PICK t \in Tracks :
             gate' = [gate EXCEPT !.track = t, !.unseen = r.list[t].age,
                                  !.presence = "present"]
      BY <1>6 DEF PollLock
    <2>2. t # NoTrack /\ gate.primary # None
      BY <1>6, NoTrackAssumption DEF PollLock, Tracking
    <2>3. r.list[t].age \in Ages
      <3>1. r.list[t] \in Sightings
        BY DEF Reports
      <3>2. QED
        BY <3>1, ZeroAge DEF Sightings, Absent
    <2>4. QED
      BY <2>1, <2>2, <2>3, <1>2, PresenceSound
  <1>7. CASE PollUnlocked(r)
    <2>1. PICK p \in {"ambiguous", "untracked"} : gate' = [gate EXCEPT !.presence = p]
      BY <1>7 DEF PollUnlocked
    <2>2. gate.primary # None /\ gate.track = NoTrack
      BY <1>7 DEF PollUnlocked, Tracking
    <2>3. QED
      BY <2>1, <2>2, <1>2, PresenceOnlySound
  <1>8. CASE PollSeen(r)
    <2>1. gate' = [gate EXCEPT !.track = gate.track, !.unseen = SeenAge(r),
                               !.presence = "present"]
      BY <1>8, <1>1 DEF PollSeen, Gate
    <2>2. gate.primary # None /\ gate.track # NoTrack
      BY <1>8 DEF PollSeen, Tracking
    <2>3. QED
      BY <2>1, <2>2, <1>1, <1>2, SeenAgeType, PresenceSound
  <1>9. CASE PollMissing(r)
    <2>1. gate' = [gate EXCEPT !.track = gate.track, !.unseen = SeenAge(r),
                               !.presence = "missing_grace"]
      BY <1>9, <1>1 DEF PollMissing, Gate
    <2>2. gate.primary # None /\ gate.track # NoTrack
      BY <1>9 DEF PollMissing, Tracking
    <2>3. QED
      BY <2>1, <2>2, <1>1, <1>2, SeenAgeType, PresenceSound
  <1>10. CASE PollRelease(r)
    <2> DEFINE d == DropTrack(DropCandidate(gate), "left")
               w == [d EXCEPT !.primary = None, !.released = gate.primary,
                              !.releasedTo = NoSession, !.identity = "unidentified",
                              !.confirm = NoConfirmation]
    <2>1. /\ d \in Gate /\ d.waiting = FALSE /\ d.candidate = None
          /\ d.track = NoTrack /\ d.presence = "left"
      <3>1. d \in Gate
        BY <1>1, <1>2, DropCandidateType, DropTrackType
      <3>2. QED
        <4>1. /\ DropCandidate(gate) \in Gate
              /\ DropCandidate(gate).waiting = FALSE /\ DropCandidate(gate).candidate = None
          BY <1>1, DropCandidateType, DropCandidateIs
        <4>2. QED
          BY <3>1, <4>1, DropTrackIs
    <2> HIDE DEF d
    <2>2. NoConfirmation \in [status: ConfirmStates, who: Visitors \union {None}]
      BY DEF NoConfirmation, ConfirmStates
    <2>3. "unidentified" \in IdentityStates /\ gate.primary \in Visitors \union {None}
      BY <1>1, Names DEF Gate
    <2>4. w \in Gate
      BY <2>1, <2>2, <2>3, ZenonT(60) DEF Gate
    <2>5. /\ w.waiting = FALSE /\ w.candidate = None
          /\ w.track = NoTrack /\ w.presence = "left" /\ w.primary = None
      BY <2>1 DEF Gate
    <2> HIDE DEF w
    <2>6. Sound(w)
      BY <2>4, <2>5, SMTT(30) DEF Sound, OfferConsistent, TrackConsistent
    <2>7. Sound(Mark(w, "visitor_cleared", "primary_visitor_left"))
      BY <2>6, Names, MarkSound
    <2>8. QED
      BY <1>10, <2>7 DEF PollRelease, d, w
  <1>11. QED
    BY <1>3, <1>4, <1>5, <1>6, <1>7, <1>8, <1>9, <1>10 DEF UpdatePrimaryPresence

LEMMA NextSessionSound ==
  ASSUME Sound(gate), NEW v \in Visitors \union {None}, NEW d \in Decisions
  PROVE  /\ gate.session + 1 \in Nat
         /\ Sound(ConfigureSession(gate, gate.session + 1, v, d))
  <1>1. gate.session + 1 \in Nat
    BY DEF Sound, Gate
  <1>2. QED
    BY <1>1, ConfigureSessionSound

LEMMA FollowReleaseSound ==
  ASSUME Sound(gate), FollowRelease
  PROVE  Sound(gate')
  <1> DEFINE c == ConfigureSession(gate, gate.session + 1, None, "visitor_cleared")
  <1>1. gate.session + 1 \in Nat /\ Sound(c)
    BY Names, NextSessionSound
  <1>2. gate' = RecordReleaseSession(c, gate.session + 1)
    BY DEF FollowRelease
  <1> HIDE DEF c
  <1>3. QED
    BY <1>1, <1>2, RecordReleaseSound

-----------------------------------------------------------------------------
(* The inductive invariant and the invariants of the runs.                  *)

IInv == Sound(gate) /\ config \in Config

LEMMA InitInv == Init => IInv
  <1> SUFFICES ASSUME Init PROVE IInv
    OBVIOUS
  <1>1. Sound(gate)
    BY NewStatusSound DEF Init
  <1>2. config \in Config
    BY DEF Init, Config
  <1>3. QED
    BY <1>1, <1>2 DEF IInv

LEMMA NextInv == IInv /\ [Next]_gateVars => IInv'
  <1> SUFFICES ASSUME IInv, [Next]_gateVars PROVE IInv'
    OBVIOUS
  <1>1. Sound(gate) /\ config \in Config
    BY DEF IInv
  <1>2. CASE UNCHANGED gateVars
    BY <1>1, <1>2 DEF IInv, gateVars
  <1>3. CASE Tick
    BY <1>1, <1>3, TickSound DEF IInv, Tick
  <1>4. ASSUME NEW a \in BOOLEAN, NEW h \in BOOLEAN, NEW d \in Graces,
               ConfigureIdentity(a, h, d)
        PROVE  IInv'
    BY <1>1, <1>4 DEF IInv, ConfigureIdentity, Config
  <1>5. ASSUME NEW v \in Visitors \union {None}, ResetSession(v)
        PROVE  IInv'
    BY <1>1, <1>5, Names, NextSessionSound DEF IInv, ResetSession
  <1>6. CASE FollowRelease
    BY <1>1, <1>6, FollowReleaseSound DEF IInv, FollowRelease
  <1>7. ASSUME NEW v \in Visitors \union {None}, SelectVisitor(v)
        PROVE  IInv'
    BY <1>1, <1>7, SetPrimarySound DEF IInv, SelectVisitor
  <1>8. ASSUME NEW m \in Matches, ApplyIdentityMatch(m)
        PROVE  IInv'
    BY <1>1, <1>8, ApplyIdentityMatchSound DEF IInv, ApplyIdentityMatch
  <1>9. ASSUME NEW a \in BOOLEAN, Confirm(a)
        PROVE  IInv'
    BY <1>1, <1>9, ConfirmCandidateSound DEF IInv, Confirm
  <1>10. ASSUME NEW r \in Reports, UpdatePrimaryPresence(r)
         PROVE  IInv'
    BY <1>1, <1>10, UpdatePrimaryPresenceSound DEF IInv, UpdatePrimaryPresence
  <1>11. ASSUME NEW e \in SystemEvents, SystemEvent(e)
         PROVE  IInv'
    BY <1>1, <1>11, SystemEventSound DEF IInv, SystemEvent
  <1>12. CASE Expire
    BY <1>1, <1>12, ExpireCandidateSound DEF IInv, Expire
  <1>13. ASSUME NEW i \in BOOLEAN, Turn(i)
         PROVE  IInv'
    BY <1>1, <1>13, BeforeTurnSound DEF IInv, Turn
  <1>14. QED
    BY <1>2, <1>3, <1>4, <1>5, <1>6, <1>7, <1>8, <1>9, <1>10, <1>11, <1>12, <1>13
       DEF Next

\* The inductive invariant holds of every behaviour.
THEOREM Invariance == Spec => []IInv
  BY InitInv, NextInv, PTL DEF Spec

\* Every field of the controller stays in its type, under any calls at all.
THEOREM TypeCorrect == Spec => []TypeOK
  <1>1. IInv => TypeOK
    BY DEF IInv, Sound, TypeOK
  <1>2. QED
    BY <1>1, Invariance, PTL

\* An open offer is always one consistent offer, to a visitor who is not the
\* primary one, within its turns.
THEOREM OffersAreConsistent == Spec => []PendingCandidate
  <1>1. IInv => PendingCandidate
    BY DEF IInv, Sound, PendingCandidate
  <1>2. QED
    BY <1>1, Invariance, PTL

\* A locked track always belongs to a primary visitor, and the presence shown
\* agrees with the track.
THEOREM TracksFollowVisitors == Spec => []TrackFollowsPrimary
  <1>1. IInv => TrackFollowsPrimary
    BY DEF IInv, Sound, TrackFollowsPrimary
  <1>2. QED
    BY <1>1, Invariance, PTL

-----------------------------------------------------------------------------
(* Who may change the primary visitor.                                      *)

\* What a step may do to the primary visitor.
MayChangePrimary ==
  (gate.primary # None /\ gate'.primary # gate.primary) =>
    \/ gate'.event \in {"visitor_selection", "session_configured"}
    \/ /\ gate'.event = "identity_confirmation" /\ gate'.primary = gate.candidate
       /\ gate.waiting \/ gate.identity = "interruption_candidate"
    \/ /\ gate'.event = "primary_visitor_left"  /\ gate'.primary = None
       /\ gate.track # NoTrack

LEMMA TurnKeepsPrimary ==
  ASSUME NEW s \in Gate, NEW i \in BOOLEAN
  PROVE  BeforeTurn(s, i).primary = s.primary
  <1> DEFINE e == ExpireCandidate(s)
             n == EnterTurn(e, i)
             t == [n EXCEPT !.intent = "confirmed_by_input", !.event = "dialogue_turn"]
  <1>1. e \in Gate /\ e.primary = s.primary
    <2>1. CASE Expired(s)
      <3> DEFINE d == [DropCandidate(s) EXCEPT
                          !.identity = IdentityOf(s.primary),
                          !.confirm  = Confirmation("expired", s.candidate)]
      <3>1. DropCandidate(s) \in Gate /\ DropCandidate(s).primary = s.primary
        BY DropCandidateType, DropCandidateIs
      <3>2. /\ IdentityOf(s.primary) \in IdentityStates
            /\ Confirmation("expired", s.candidate)
                 \in [status: ConfirmStates, who: Visitors \union {None}]
        BY Names DEF Confirmation, ConfirmStates, Gate
      <3> DEFINE c == DropCandidate(s)
      <3> HIDE DEF c
      <3>3. d \in Gate /\ d.primary = s.primary
        <4>1. c \in Gate /\ c.primary = s.primary
          BY <3>1 DEF c
        <4>2. \A j \in IdentityStates,
                  a \in [status: ConfirmStates, who: Visitors \union {None}] :
                LET x == [c EXCEPT !.identity = j, !.confirm = a]
                IN  x \in Gate /\ x.primary = s.primary
          BY <4>1 DEF Gate
        <4>3. QED
          BY <3>2, <4>2 DEF c
      <3> HIDE DEF d
      <3>4. e = Mark(d, "observe_only", "candidate_expired")
        BY <2>1 DEF ExpireCandidate, d
      <3>5. Mark(d, "observe_only", "candidate_expired") \in Gate
        BY <3>3, MarkType DEF Decisions, EventNames
      <3>6. QED
        BY <3>3, <3>4, <3>5 DEF Mark, Gate
    <2>2. CASE ~Expired(s)
      BY <2>2 DEF ExpireCandidate
    <2>3. QED
      BY <2>1, <2>2
  <1> HIDE DEF e
  <1>2. /\ DOMAIN n = DOMAIN e
        /\ n.primary = e.primary
    BY <1>1 DEF EnterTurn, Gate
  <1> HIDE DEF n
  <1>3. t.primary = n.primary /\ DOMAIN t = DOMAIN n
    BY <1>1, <1>2 DEF Gate
  <1> HIDE DEF t
  <1>4. CountUnconfirmed(t).primary = t.primary
    BY <1>1, <1>2, <1>3 DEF CountUnconfirmed, Gate
  <1>5. BeforeTurn(s, i) = IF Expired(s) THEN t ELSE CountUnconfirmed(t)
    BY DEF BeforeTurn, t, n, e
  <1>6. QED
    BY <1>1, <1>2, <1>3, <1>4, <1>5

LEMMA MatchKeepsPrimary ==
  ASSUME gate \in Gate, NEW m \in Matches, ApplyIdentityMatch(m), gate.primary # None
  PROVE  gate'.primary = gate.primary
  <1>1. DropCandidate(gate) \in Gate /\ DropCandidate(gate).primary = gate.primary
    BY DropCandidateType, DropCandidateIs
  <1> DEFINE d == DropCandidate(gate)
  <1> HIDE DEF d
  <1>2. d \in Gate /\ d.primary = gate.primary
    BY <1>1 DEF d
  <1>3. CASE MatchNobody(m)
    BY <1>2, <1>3 DEF MatchNobody, Mark, Gate, d
  <1>4. CASE MatchPrimary(m)
    BY <1>2, <1>4 DEF MatchPrimary, Mark, Gate, d
  <1>5. CASE RefuseDuringGrace(m)
    BY <1>2, <1>5 DEF RefuseDuringGrace, Mark, Gate, d
  <1>6. CASE RefuseDuringDialogue(m)
    BY <1>2, <1>6 DEF RefuseDuringDialogue, Mark, Gate, d
  <1>7. CASE AutoBind(m)
    BY <1>7 DEF AutoBind, AutoBinds
  <1>8. CASE AskCandidate(m)
    BY <1>8 DEF AskCandidate, OpenCandidate, Mark, Gate
  <1>9. CASE IgnoreMatch(m)
    BY <1>2, <1>9 DEF IgnoreMatch, Mark, Gate, d
  <1>10. QED
    BY <1>3, <1>4, <1>5, <1>6, <1>7, <1>8, <1>9 DEF ApplyIdentityMatch

LEMMA PollMayOnlyRelease ==
  ASSUME gate \in Gate, NEW r \in Reports, UpdatePrimaryPresence(r)
  PROVE  \/ gate'.primary = gate.primary
         \/ /\ gate'.event = "primary_visitor_left" /\ gate'.primary = None
            /\ gate.track # NoTrack
  <1>1. CASE PollRelease(r)
    <2> DEFINE d == DropTrack(DropCandidate(gate), "left")
    <2>1. d \in Gate
      BY DropCandidateType, DropTrackType DEF PresenceStates
    <2> HIDE DEF d
    <2>2. QED
      BY <1>1, <2>1 DEF PollRelease, Mark, Gate, d
  <1>2. CASE PollNoPrimary(r)
    BY <1>2 DEF PollNoPrimary, DropTrack, Gate
  <1>3. CASE PollHandoffOff(r) \/ PollNoFrame(r) \/ PollLock(r)
    BY <1>3 DEF PollHandoffOff, PollNoFrame, PollLock, Gate
  <1>4. CASE PollUnlocked(r) \/ PollSeen(r) \/ PollMissing(r)
    BY <1>4 DEF PollUnlocked, PollSeen, PollMissing, Gate
  <1>5. QED
    BY <1>1, <1>2, <1>3, <1>4 DEF UpdatePrimaryPresence

LEMMA ConfirmBindsTheOffer ==
  ASSUME NEW s \in Gate, NEW accepted \in BOOLEAN
  PROVE  LET c == ConfirmCandidate(s, accepted)
         IN  /\ c.event = "identity_confirmation"
             /\ \/ c.primary = s.primary
                \/ c.primary = s.candidate /\ s.candidate # None
  <1>1. CASE s.candidate = None
    BY <1>1 DEF ConfirmCandidate, Mark, Gate
  <1>2. CASE s.candidate # None /\ accepted
    <2> DEFINE b == Bind(s, s.candidate)
    <2>1. b \in Gate
      BY BindType DEF Gate
    <2>2. b.primary = s.candidate
      BY BindIs DEF Gate
    <2> HIDE DEF b
    <2>3. QED
      BY <1>2, <2>1, <2>2 DEF ConfirmCandidate, Mark, Gate, b
  <1>3. CASE s.candidate # None /\ ~accepted
    <2> DEFINE d == DropCandidate(s)
    <2>1. d \in Gate /\ d.primary = s.primary
      BY DropCandidateType, DropCandidateIs
    <2> HIDE DEF d
    <2>2. QED
      BY <1>3, <2>1 DEF ConfirmCandidate, Mark, Gate, d
  <1>4. QED
    BY <1>1, <1>2, <1>3

LEMMA StepMayChangePrimary == IInv /\ [Next]_gateVars => MayChangePrimary
  <1> SUFFICES ASSUME IInv, [Next]_gateVars PROVE MayChangePrimary
    OBVIOUS
  <1>1. gate \in Gate
    BY DEF IInv, Sound
  <1>2. CASE UNCHANGED gateVars
    BY <1>2 DEF MayChangePrimary, gateVars
  <1>3. CASE Tick
    BY <1>1, <1>3 DEF MayChangePrimary, Tick, Gate
  <1>4. ASSUME NEW a \in BOOLEAN, NEW h \in BOOLEAN, NEW d \in Graces,
               ConfigureIdentity(a, h, d)
        PROVE  MayChangePrimary
    BY <1>4 DEF MayChangePrimary, ConfigureIdentity
  <1>5. ASSUME NEW v \in Visitors \union {None}, ResetSession(v)
        PROVE  MayChangePrimary
    BY <1>5 DEF MayChangePrimary, ResetSession, ConfigureSession, NewStatus
  <1>6. CASE FollowRelease
    BY <1>6 DEF MayChangePrimary, FollowRelease, RecordReleaseSession,
                ConfigureSession, NewStatus
  <1>7. ASSUME NEW v \in Visitors \union {None}, SelectVisitor(v)
        PROVE  MayChangePrimary
    <2>1. Bind(gate, v) \in Gate
      BY <1>1, BindType
    <2>2. QED
      BY <1>7, <2>1 DEF MayChangePrimary, SelectVisitor, SetPrimaryVisitor, Mark, Gate
  <1>8. ASSUME NEW m \in Matches, ApplyIdentityMatch(m)
        PROVE  MayChangePrimary
    BY <1>1, <1>8, MatchKeepsPrimary DEF MayChangePrimary
  <1>9. ASSUME NEW a \in BOOLEAN, Confirm(a)
        PROVE  MayChangePrimary
    <2>1. gate.candidate = None \/ gate.waiting \/ gate.identity = "interruption_candidate"
      BY DEF IInv, Sound, OfferConsistent
    <2>2. QED
      BY <1>1, <1>9, <2>1, ConfirmBindsTheOffer DEF MayChangePrimary, Confirm
  <1>10. ASSUME NEW r \in Reports, UpdatePrimaryPresence(r)
         PROVE  MayChangePrimary
    BY <1>1, <1>10, PollMayOnlyRelease DEF MayChangePrimary
  <1>11. ASSUME NEW e \in SystemEvents, SystemEvent(e)
         PROVE  MayChangePrimary
    <2>1. DropCandidate(gate) \in Gate /\ DropCandidate(gate).primary = gate.primary
      BY <1>1, DropCandidateType, DropCandidateIs
    <2> DEFINE d == DropCandidate(gate)
    <2>2. d \in Gate /\ d.primary = gate.primary
      BY <2>1
    <2> HIDE DEF d
    <2>3. QED
      BY <1>1, <1>11, <2>2, ZenonT(60) DEF MayChangePrimary, SystemEvent, Mark, Gate, d
  <1>12. CASE Expire
    BY <1>12, ExpireCandidateSound DEF MayChangePrimary, Expire, IInv
  <1>13. ASSUME NEW i \in BOOLEAN, Turn(i)
         PROVE  MayChangePrimary
    BY <1>1, <1>13, TurnKeepsPrimary DEF MayChangePrimary, Turn
  <1>14. QED
    BY <1>2, <1>3, <1>4, <1>5, <1>6, <1>7, <1>8, <1>9, <1>10, <1>11, <1>12, <1>13
       DEF Next

\* The primary visitor is exchanged only by the developer, a new session or the
\* confirmation of a candidate who was on offer or whom the dialogue had refused,
\* and taken away only by a release of its locked track: never by recognition
\* alone, by a turn or by the clock.
THEOREM PrimaryIsNeverSwitched == Spec => NoHardSwitch
  <1>1. IInv /\ [Next]_gateVars =>
          [ (gate.primary # None /\ gate'.primary # gate.primary) =>
              \/ gate'.event \in {"visitor_selection", "session_configured"}
              \/ /\ gate'.event = "identity_confirmation" /\ gate'.primary = gate.candidate
                 /\ gate.waiting \/ gate.identity = "interruption_candidate"
              \/ /\ gate'.event = "primary_visitor_left"  /\ gate'.primary = None
                 /\ gate.track # NoTrack ]_gate
    BY StepMayChangePrimary DEF MayChangePrimary
  <1>2. QED
    BY <1>1, Invariance, PTL DEF Spec, NoHardSwitch

-----------------------------------------------------------------------------
(* The camera's variables keep their types. *)

Trackers  == [next: 1 .. MaxTrack + 1, tracks: [TrackIds -> Track]]
Workers   == [pc: {"gone", "loop", "detected", "tracked", "noticed"},
              sees: SUBSET People, listed: SUBSET TrackIds, events: Seq(VisionEvents)]
Presences == [present: BOOLEAN, run: 0 .. EnterFrames, seen: Clock, idle: Clock]
Snapshots == [frame: BOOLEAN, listed: SUBSET TrackIds]

LEMMA ZeroClock == 0 \in Clock /\ 0 \in 0 .. EnterFrames
  BY VisionAssumption DEF Clock

LEMMA GrownClock == \A a \in Clock : Grown(a) \in Clock /\ Grown(a) >= a
  BY VisionAssumption DEF Grown, Clock

LEMMA FirstStates ==
  /\ NewTracker \in Trackers /\ Absence \in Presences
  /\ NoSnapshot \in Snapshots /\ NoWorker \in Workers /\ AtLoop \in Workers
  <1>1. NoTrackYet \in Track
    BY ZeroClock DEF NoTrackYet, Track
  <1>2. NewTracker \in Trackers
    BY <1>1, VisionAssumption DEF NewTracker, Trackers
  <1>3. Absence \in Presences
    BY ZeroClock DEF Absence, Presences
  <1>4. NoSnapshot \in Snapshots
    BY DEF NoSnapshot, Snapshots
  <1>5. << >> \in Seq(VisionEvents)
    OBVIOUS
  <1>6. NoWorker \in Workers
    BY <1>5 DEF NoWorker, Workers
  <1>7. AtLoop \in Workers
    BY <1>6 DEF AtLoop, Workers
  <1>8. QED
    BY <1>2, <1>3, <1>4, <1>6, <1>7

\* The new numbers of an association follow the last one given.
LEMMA NewNumbers ==
  ASSUME NEW trk \in Trackers, NEW sees \in SUBSET People,
         NEW f \in [sees -> TrackIds], Assigns(sees, f, trk)
  PROVE  LET new == {f[p] : p \in sees} \ Live(trk)
         IN  /\ Cardinality(new) \in Nat
             /\ trk.next + Cardinality(new) \in 1 .. MaxTrack + 1
             /\ new = trk.next .. trk.next + Cardinality(new) - 1
  <1> DEFINE new == {f[p] : p \in sees} \ Live(trk)
             n   == Cardinality(new)
  <1>1. new \subseteq 1 .. MaxTrack
    BY DEF TrackIds
  <1>2. n \in Nat
    <2>1. IsFiniteSet(1 .. MaxTrack)
      BY VisionAssumption, FS_Interval
    <2>2. IsFiniteSet(new)
      BY <1>1, <2>1, FS_Subset
    <2> HIDE DEF new
    <2>3. QED
      BY <2>2, FS_CardinalityType
  <1>3. new = trk.next .. trk.next + n - 1
    BY DEF Assigns
  <1>4. trk.next \in 1 .. MaxTrack + 1
    BY DEF Trackers
  <1> HIDE DEF new, n
  <1>5. trk.next + n \in 1 .. MaxTrack + 1
    <2>1. CASE n = 0
      BY <1>4, <2>1
    <2>2. CASE n # 0
      <3>1. trk.next + n - 1 \in new
        BY <1>2, <1>3, <1>4, <2>2
      <3>2. trk.next + n - 1 \in 1 .. MaxTrack
        BY <1>1, <3>1
      <3>3. QED
        BY <1>2, <1>4, <3>2, VisionAssumption
    <2>3. QED
      BY <2>1, <2>2
  <1>6. QED
    BY <1>2, <1>3, <1>5 DEF n, new

LEMMA AssociatedType ==
  ASSUME NEW trk \in Trackers, NEW sees \in SUBSET People,
         NEW f \in [sees -> TrackIds], Assigns(sees, f, trk)
  PROVE  Associated(sees, f, trk) \in Trackers
  <1> DEFINE track(t) ==
        IF \E p \in sees : f[p] = t
        THEN [who |-> CHOOSE p \in sees : f[p] = t, age |-> 0, active |-> TRUE, live |-> TRUE]
        ELSE [trk.tracks[t] EXCEPT !.active = FALSE,
                                   !.live = @ /\ trk.tracks[t].age <= MissingTicks]
  <1>1. ASSUME NEW t \in TrackIds
        PROVE  track(t) \in Track
    <2>1. CASE \E p \in sees : f[p] = t
      <3>1. (CHOOSE p \in sees : f[p] = t) \in People
        BY <2>1
      <3>2. QED
        BY <2>1, <3>1, ZeroClock DEF Track
    <2>2. CASE ~\E p \in sees : f[p] = t
      <3>1. trk.tracks[t] \in Track
        BY DEF Trackers
      <3>2. QED
        BY <2>2, <3>1 DEF Track
    <2>3. QED
      BY <2>1, <2>2
  <1> DEFINE n == trk.next + Cardinality({f[p] : p \in sees} \ Live(trk))
  <1>2. n \in 1 .. MaxTrack + 1
    BY NewNumbers
  <1>3. Associated(sees, f, trk) = [next |-> n, tracks |-> [t \in TrackIds |-> track(t)]]
    BY DEF Associated
  <1> HIDE DEF track, n
  <1>4. QED
    BY <1>1, <1>2, <1>3 DEF Trackers

LEMMA NoticedType ==
  ASSUME NEW has \in BOOLEAN, NEW p \in Presences
  PROVE  /\ Noticed(has, p) \in Presences
         /\ Settle(Noticed(has, p)) \in Presences
         /\ Settle(Noticed(has, p)).present = Noticed(has, p).present
  <1>1. /\ p.present \in BOOLEAN /\ p.run \in 0 .. EnterFrames
        /\ p.seen \in Clock /\ p.idle \in Clock
    BY DEF Presences
  <1>2. Entering(has, p) \in BOOLEAN /\ Leaving(has, p) \in BOOLEAN
    BY DEF Entering, Leaving
  <1>3. (IF ~has THEN 0 ELSE IF p.run < EnterFrames THEN p.run + 1 ELSE p.run) \in 0 .. EnterFrames
    BY <1>1, VisionAssumption
  <1> DEFINE n == Noticed(has, p)
  <1>4. n \in Presences
    BY <1>1, <1>2, <1>3, ZeroClock DEF Noticed, Presences
  <1> HIDE DEF n
  <1>5. Settle(n) \in Presences /\ Settle(n).present = n.present
    BY <1>4, ZeroClock DEF Settle, Presences
  <1>6. QED
    BY <1>4, <1>5 DEF n

LEMMA EventsType ==
  ASSUME NEW has, NEW p
  PROVE  EventsOf(has, p) \in Seq(VisionEvents)
  <1>1. /\ << "user_entered" >> \in Seq(VisionEvents) /\ << "user_left" >> \in Seq(VisionEvents)
        /\ << "long_silence" >> \in Seq(VisionEvents) /\ << >> \in Seq(VisionEvents)
    BY DEF VisionEvents
  <1>2. QED
    BY <1>1 DEF EventsOf

LEMMA VisionTypeParts ==
  VisionTypeOK <=>
    /\ running \in BOOLEAN /\ halted \in BOOLEAN /\ call \in {"none", "stop", "switch"}
    /\ worker \in Workers /\ tracker \in Trackers /\ presence \in Presences
    /\ snapshot \in Snapshots /\ pending \in Seq(VisionEvents)
  BY DEF VisionTypeOK, Workers, Trackers, Presences, Snapshots

\* What a step of the composition does to the camera's variables.
VisionMoves == \/ Worker \/ Manager \/ Switch \/ BrowserFrame
               \/ MarkActivity \/ PopEvents \/ VisionTick \/ UNCHANGED visionVars

LEMMA PresenceMovesVision == [PresenceNext]_presenceVars => VisionMoves
  <1> SUFFICES ASSUME [PresenceNext]_presenceVars PROVE VisionMoves
    OBVIOUS
  <1>1. CASE Camera
    BY <1>1 DEF Camera, VisionMoves
  <1>2. CASE SwitchCamera
    BY <1>2 DEF SwitchCamera, VisionMoves
  <1>3. CASE FrameFromBrowser
    BY <1>3 DEF FrameFromBrowser, VisionMoves
  <1>4. CASE PollVision \/ HandleEvent \/ BindVisitor \/ Reconfigure
    BY <1>4, Zenon DEF PollVision, HandleEvent, BindVisitor, Reconfigure, VisionMoves
  <1>5. CASE PopPending
    BY <1>5 DEF PopPending, VisionMoves
  <1>6. CASE TakeTurn
    BY <1>6 DEF TakeTurn, VisionMoves
  <1>7. CASE Clockwork
    BY <1>7 DEF Clockwork, VisionMoves
  <1>8. CASE UNCHANGED presenceVars
    BY <1>8 DEF presenceVars, VisionMoves
  <1>9. QED
    BY <1>1, <1>2, <1>3, <1>4, <1>5, <1>6, <1>7, <1>8 DEF PresenceNext

LEMMA WorkerKeepsTypes == VisionTypeOK /\ Worker => VisionTypeOK'
  <1> SUFFICES ASSUME VisionTypeOK, Worker PROVE VisionTypeOK'
    OBVIOUS
  <1>0. /\ running \in BOOLEAN /\ halted \in BOOLEAN /\ call \in {"none", "stop", "switch"}
        /\ worker \in Workers /\ tracker \in Trackers /\ presence \in Presences
        /\ snapshot \in Snapshots /\ pending \in Seq(VisionEvents)
    BY VisionTypeParts
  <1> SUFFICES /\ running' \in BOOLEAN /\ halted' \in BOOLEAN
               /\ call' \in {"none", "stop", "switch"}
               /\ worker' \in Workers /\ tracker' \in Trackers /\ presence' \in Presences
               /\ snapshot' \in Snapshots /\ pending' \in Seq(VisionEvents)
    BY DEF VisionTypeOK, Workers, Trackers, Presences, Snapshots
  <1>1. CASE WorkerReads
    <2>1. PICK sees \in SUBSET People : worker' = [AtLoop EXCEPT !.pc = "detected", !.sees = sees]
      BY <1>1, Zenon DEF WorkerReads
    <2>2. worker' \in Workers
      BY <2>1, FirstStates DEF Workers
    <2>3. QED
      BY <1>0, <1>1, <2>2 DEF WorkerReads
  <1>2. CASE WorkerTracks
    <2>1. PICK f \in [worker.sees -> TrackIds] :
             Assigns(worker.sees, f, tracker) /\ tracker' = Associated(worker.sees, f, tracker)
      BY <1>2, Zenon DEF WorkerTracks
    <2>2. worker.sees \in SUBSET People
      BY <1>0 DEF Workers
    <2>3. tracker' \in Trackers
      BY <1>0, <2>1, <2>2, AssociatedType, Zenon
    <2>4. Live(tracker') \in SUBSET TrackIds
      BY DEF Live
    <2>5. worker' = [worker EXCEPT !.pc = "tracked", !.listed = Live(tracker')]
      BY <1>2, Zenon DEF WorkerTracks
    <2>6. worker' \in Workers
      BY <1>0, <2>4, <2>5 DEF Workers
    <2>7. QED
      BY <1>0, <1>2, <2>3, <2>6 DEF WorkerTracks
  <1>3. CASE WorkerNotices
    <2> DEFINE has == worker.sees # {}
               events == EventsOf(has, presence)
    <2>1. presence' = Settle(Noticed(has, presence))
      BY <1>3 DEF WorkerNotices
    <2>2. presence' \in Presences
      BY <1>0, <2>1, NoticedType
    <2>3. worker' = [worker EXCEPT !.pc = "noticed", !.sees = {}, !.events = events]
      BY <1>3 DEF WorkerNotices
    <2>4. events \in Seq(VisionEvents)
      BY EventsType
    <2> HIDE DEF events
    <2>5. worker' \in Workers
      BY <1>0, <2>3, <2>4 DEF Workers
    <2>6. QED
      BY <1>0, <1>3, <2>2, <2>5 DEF WorkerNotices
  <1>4. CASE WorkerPublishes
    <2>1. worker.listed \in SUBSET TrackIds /\ worker.events \in Seq(VisionEvents)
      BY <1>0 DEF Workers
    <2>2. snapshot' = [frame |-> TRUE, listed |-> worker.listed] /\ pending' = pending \o worker.events
      BY <1>4 DEF WorkerPublishes, Publish
    <2>3. snapshot' \in Snapshots
      BY <2>1, <2>2 DEF Snapshots
    <2>4. pending' \in Seq(VisionEvents)
      BY <1>0, <2>1, <2>2
    <2>5. QED
      BY <1>0, <1>4, <2>3, <2>4, FirstStates DEF WorkerPublishes
  <1>5. CASE WorkerEnds
    BY <1>0, <1>5, FirstStates DEF WorkerEnds
  <1>6. QED
    BY <1>1, <1>2, <1>3, <1>4, <1>5 DEF Worker

LEMMA RequestsKeepTypes ==
  VisionTypeOK /\ (Manager \/ Switch \/ MarkActivity \/ PopEvents \/ UNCHANGED visionVars) => VisionTypeOK'
  <1> SUFFICES ASSUME VisionTypeOK, Manager \/ Switch \/ MarkActivity \/ PopEvents \/ UNCHANGED visionVars
               PROVE  VisionTypeOK'
    OBVIOUS
  <1>0. /\ running \in BOOLEAN /\ halted \in BOOLEAN /\ call \in {"none", "stop", "switch"}
        /\ worker \in Workers /\ tracker \in Trackers /\ presence \in Presences
        /\ snapshot \in Snapshots /\ pending \in Seq(VisionEvents)
    BY VisionTypeParts
  <1> SUFFICES /\ running' \in BOOLEAN /\ halted' \in BOOLEAN
               /\ call' \in {"none", "stop", "switch"}
               /\ worker' \in Workers /\ tracker' \in Trackers /\ presence' \in Presences
               /\ snapshot' \in Snapshots /\ pending' \in Seq(VisionEvents)
    BY DEF VisionTypeOK, Workers, Trackers, Presences, Snapshots
  <1>1. Begun => running' \in BOOLEAN /\ halted' \in BOOLEAN /\ worker' \in Workers
    BY FirstStates DEF Begun
  <1>2. StartAnew => /\ tracker' \in Trackers /\ presence' \in Presences
                     /\ snapshot' \in Snapshots /\ pending' \in Seq(VisionEvents)
    BY FirstStates DEF StartAnew
  <1>3. CASE Start
    BY <1>0, <1>1, <1>3 DEF Start
  <1>4. CASE \E then \in {"stop", "switch"} : StopBegins(then)
    BY <1>0, <1>4 DEF StopBegins
  <1>5. CASE StopReturns
    BY <1>0, <1>5 DEF StopReturns
  <1>6. CASE SwitchRunning
    BY <1>1, <1>2, <1>6 DEF SwitchRunning
  <1>7. CASE SwitchStopped
    BY <1>0, <1>2, <1>7 DEF SwitchStopped
  <1>8. CASE MarkActivity
    <2>1. presence' \in Presences
      BY <1>0, <1>8, ZeroClock DEF MarkActivity, Presences
    <2>2. QED
      BY <1>0, <1>8, <2>1 DEF MarkActivity
  <1>9. CASE PopEvents
    BY <1>0, <1>9 DEF PopEvents
  <1>10. CASE UNCHANGED visionVars
    BY <1>0, <1>10 DEF visionVars
  <1>11. QED
    BY <1>3, <1>4, <1>5, <1>6, <1>7, <1>8, <1>9, <1>10 DEF Manager, Switch

LEMMA FramesAndTicksKeepTypes == VisionTypeOK /\ (BrowserFrame \/ VisionTick) => VisionTypeOK'
  <1> SUFFICES ASSUME VisionTypeOK, BrowserFrame \/ VisionTick PROVE VisionTypeOK'
    OBVIOUS
  <1>0. /\ running \in BOOLEAN /\ halted \in BOOLEAN /\ call \in {"none", "stop", "switch"}
        /\ worker \in Workers /\ tracker \in Trackers /\ presence \in Presences
        /\ snapshot \in Snapshots /\ pending \in Seq(VisionEvents)
    BY VisionTypeParts
  <1> SUFFICES /\ running' \in BOOLEAN /\ halted' \in BOOLEAN
               /\ call' \in {"none", "stop", "switch"}
               /\ worker' \in Workers /\ tracker' \in Trackers /\ presence' \in Presences
               /\ snapshot' \in Snapshots /\ pending' \in Seq(VisionEvents)
    BY DEF VisionTypeOK, Workers, Trackers, Presences, Snapshots
  <1>1. CASE BrowserFrame
    <2>1. PICK sees \in SUBSET People :
             /\ \E f \in [sees -> TrackIds] :
                  Assigns(sees, f, tracker) /\ tracker' = Associated(sees, f, tracker)
             /\ \/ /\ presence' = Settle(Noticed(sees # {}, presence))
                   /\ Publish(Live(tracker'), EventsOf(sees # {}, presence))
                \/ UNCHANGED << presence, snapshot, pending >>
      BY <1>1, Zenon DEF BrowserFrame
    <2>2. tracker' \in Trackers
      BY <1>0, <2>1, AssociatedType, Zenon
    <2>3. CASE UNCHANGED << presence, snapshot, pending >>
      BY <1>0, <1>1, <2>2, <2>3 DEF BrowserFrame
    <2>4. CASE /\ presence' = Settle(Noticed(sees # {}, presence))
               /\ Publish(Live(tracker'), EventsOf(sees # {}, presence))
      <3> DEFINE events == EventsOf(sees # {}, presence)
      <3>1. presence' \in Presences
        BY <1>0, <2>4, NoticedType
      <3>2. /\ snapshot' = [frame |-> TRUE, listed |-> Live(tracker')]
            /\ pending' = pending \o events
        BY <2>4, Zenon DEF Publish
      <3>3. events \in Seq(VisionEvents) /\ Live(tracker') \in SUBSET TrackIds
        BY EventsType DEF Live
      <3> HIDE DEF events
      <3>4. snapshot' \in Snapshots /\ pending' \in Seq(VisionEvents)
        BY <1>0, <3>2, <3>3 DEF Snapshots
      <3>5. QED
        BY <1>0, <1>1, <2>2, <3>1, <3>4 DEF BrowserFrame
    <2>5. QED
      BY <2>1, <2>3, <2>4
  <1>2. CASE VisionTick
    <2>1. tracker' \in Trackers
      <3> DEFINE older(t) == Aged(tracker.tracks[t])
      <3>1. tracker' = [tracker EXCEPT !.tracks = [t \in TrackIds |-> older(t)]]
        BY <1>2 DEF VisionTick
      <3>2. ASSUME NEW t \in TrackIds PROVE older(t) \in Track
        <4>1. tracker.tracks[t] \in Track
          BY <1>0 DEF Trackers
        <4>2. QED
          BY <4>1, GrownClock DEF Track, Aged
      <3> HIDE DEF older
      <3>3. QED
        BY <1>0, <3>1, <3>2 DEF Trackers
    <2>2. presence' \in Presences
      <3>1. presence' = IF presence.present
                        THEN [presence EXCEPT !.seen = Grown(@), !.idle = Grown(@)] ELSE presence
        BY <1>2 DEF VisionTick
      <3>2. QED
        BY <1>0, <3>1, GrownClock DEF Presences
    <2>3. QED
      BY <1>0, <1>2, <2>1, <2>2 DEF VisionTick
  <1>3. QED
    BY <1>1, <1>2

LEMMA VisionInitType == PresenceInit => VisionTypeOK
  <1> SUFFICES ASSUME VisionInit PROVE VisionTypeOK
    BY DEF PresenceInit
  <1>1. /\ running \in BOOLEAN /\ halted \in BOOLEAN /\ call \in {"none", "stop", "switch"}
        /\ worker \in Workers /\ tracker \in Trackers /\ presence \in Presences
        /\ snapshot \in Snapshots /\ pending \in Seq(VisionEvents)
    <2>1. /\ running = FALSE /\ halted = FALSE /\ call = "none" /\ pending = << >>
          /\ worker = NoWorker /\ tracker = NewTracker /\ presence = Absence
          /\ snapshot = NoSnapshot
      BY DEF VisionInit
    <2>2. pending \in Seq(VisionEvents)
      BY <2>1
    <2>3. /\ worker \in Workers /\ tracker \in Trackers /\ presence \in Presences
          /\ snapshot \in Snapshots
      BY <2>1, FirstStates, Zenon
    <2>4. QED
      BY <2>1, <2>2, <2>3
  <1>2. QED
    BY <1>1, VisionTypeParts

LEMMA VisionStepType == VisionTypeOK /\ [PresenceNext]_presenceVars => VisionTypeOK'
  BY PresenceMovesVision, WorkerKeepsTypes, RequestsKeepTypes, FramesAndTicksKeepTypes DEF VisionMoves

\* The types of the camera side, for any people, any number of tracks and any
\* times, under all stops, switches, browser frames and clocks.
THEOREM VisionTypeCorrect == PresenceSpec => []VisionTypeOK
  BY VisionInitType, VisionStepType, PTL DEF PresenceSpec

-----------------------------------------------------------------------------
(* The controller in the composition: what the camera tells it is a report  *)
(* it expects, so that all it was proved to do alone it does here.          *)

LEMMA ReportType ==
  ASSUME VisionTypeOK
  PROVE  Report \in Reports
  <1>0. tracker \in Trackers /\ presence \in Presences /\ snapshot \in Snapshots
    BY VisionTypeParts
  <1>1. ASSUME NEW t \in TrackIds PROVE Sighted(t) \in Sightings
    <2>1. CASE t \notin snapshot.listed
      BY <2>1 DEF Sighted, Sightings
    <2>2. CASE t \in snapshot.listed
      <3>1. tracker.tracks[t].age \in Ages
        BY <1>0, SameTracksAssumption DEF Trackers, Track, Clock, Ages
      <3> DEFINE age == tracker.tracks[t].age
                 sight == IF tracker.tracks[t].active THEN "active" ELSE "missing"
      <3>2. Sighted(t) = [sight |-> sight, age |-> age] /\ sight \in {"active", "missing"}
        BY <2>2 DEF Sighted
      <3> HIDE DEF sight, age
      <3>3. QED
        BY <3>1, <3>2 DEF Sightings, age
    <2>3. QED
      BY <2>1, <2>2
  <1>2. snapshot.frame \in BOOLEAN /\ presence.present \in BOOLEAN
    BY <1>0 DEF Snapshots, Presences
  <1>3. [t \in Tracks |-> Sighted(t)] \in [Tracks -> Sightings]
    BY <1>1, SameTracksAssumption
  <1>4. QED
    BY <1>2, <1>3, SameTracksAssumption DEF Report, Reports

LEMMA PresenceMovesController ==
  VisionTypeOK /\ IInv /\ popped \in Seq(VisionEvents) /\ [PresenceNext]_presenceVars
    => [Next]_gateVars
  <1> SUFFICES ASSUME VisionTypeOK, IInv, popped \in Seq(VisionEvents), [PresenceNext]_presenceVars
               PROVE  [Next]_gateVars
    OBVIOUS
  <1>1. CASE Camera \/ SwitchCamera \/ FrameFromBrowser \/ PopPending
    <2>1. UNCHANGED << gate, config >>
      BY <1>1, Zenon DEF Camera, SwitchCamera, FrameFromBrowser, PopPending
    <2>2. QED
      BY <2>1 DEF gateVars
  <1>2. CASE PollVision
    BY <1>2, ReportType DEF PollVision, Next
  <1>3. CASE HandleEvent
    <2>1. Head(popped) \in SystemEvents /\ SystemEvent(Head(popped))
      BY <1>3 DEF HandleEvent, VisionEvents, SystemEvents
    <2>2. QED
      BY <2>1, Zenon DEF Next
  <1>4. CASE BindVisitor
    BY <1>4, Zenon DEF BindVisitor, SelectVisitor, Next
  <1>5. CASE TakeTurn
    BY <1>5, Zenon DEF TakeTurn, Next
  <1>6. CASE Reconfigure
    <2>1. ConfigureIdentity(config.autoBind, ~config.handoff, config.grace)
      BY <1>6 DEF Reconfigure
    <2>2. config.autoBind \in BOOLEAN /\ (~config.handoff) \in BOOLEAN /\ config.grace \in Graces
      BY DEF IInv, Config
    <2> DEFINE a == config.autoBind
               h == ~config.handoff
               d == config.grace
    <2>3. a \in BOOLEAN /\ h \in BOOLEAN /\ d \in Graces /\ ConfigureIdentity(a, h, d)
      BY <2>1, <2>2
    <2> HIDE DEF a, h, d
    <2>4. QED
      BY <2>3, Zenon DEF Next
  <1>7. CASE Clockwork
    BY <1>7 DEF Clockwork, Next
  <1>8. CASE UNCHANGED presenceVars
    BY <1>8 DEF presenceVars, gateVars
  <1>9. QED
    BY <1>1, <1>2, <1>3, <1>4, <1>5, <1>6, <1>7, <1>8 DEF PresenceNext

-----------------------------------------------------------------------------
(* What the events say: courses of presence.                                *)

\* One more event is one more stretch of presence.
LEMMA CourseGrows ==
  ASSUME NEW s \in Seq(VisionEvents), NEW e \in VisionEvents,
         NEW b, NEW a \in BOOLEAN, NEW c \in BOOLEAN, Course(b, s, a),
         IF e = "long_silence" THEN c = a
         ELSE c = (e = "user_entered") /\ a = (e = "user_left")
  PROVE  Course(b, Append(s, e), c)
  <1>1. PICK p \in [0 .. Len(s) -> BOOLEAN] :
           /\ p[0] = b /\ p[Len(s)] = a
           /\ \A i \in DOMAIN s :
                IF s[i] = "long_silence" THEN p[i] = p[i - 1]
                ELSE p[i] = (s[i] = "user_entered") /\ p[i - 1] = (s[i] = "user_left")
    BY DEF Course
  <1> DEFINE n == Len(s)
             q == [i \in 0 .. n + 1 |-> IF i <= n THEN p[i] ELSE c]
             t == Append(s, e)
  <1>2. /\ n \in Nat /\ DOMAIN s = 1 .. n /\ Len(t) = n + 1 /\ DOMAIN t = 1 .. n + 1
        /\ t[n + 1] = e /\ \A i \in 1 .. n : t[i] = s[i]
    OBVIOUS
  <1>3. q \in [0 .. n + 1 -> BOOLEAN]
    OBVIOUS
  <1>4. q[0] = b /\ q[n + 1] = c /\ q[n] = a /\ \A i \in 0 .. n : q[i] = p[i]
    BY <1>1, <1>2
  <1> HIDE DEF n, q, t
  <1>5. ASSUME NEW i \in DOMAIN t
        PROVE  IF t[i] = "long_silence" THEN q[i] = q[i - 1]
               ELSE q[i] = (t[i] = "user_entered") /\ q[i - 1] = (t[i] = "user_left")
    <2>1. CASE i = n + 1
      BY <1>2, <1>4, <2>1
    <2>2. CASE i # n + 1
      <3>1. i \in 1 .. n /\ i \in 0 .. n /\ i - 1 \in 0 .. n
        BY <1>2, <2>2
      <3>2. q[i] = p[i] /\ q[i - 1] = p[i - 1] /\ t[i] = s[i]
        BY <1>2, <1>4, <3>1
      <3>3. QED
        BY <1>1, <1>2, <3>1, <3>2
    <2>3. QED
      BY <2>1, <2>2
  <1>6. Course(b, t, c)
    <2>1. q \in [0 .. Len(t) -> BOOLEAN] /\ q[0] = b /\ q[Len(t)] = c
      BY <1>2, <1>3, <1>4
    <2>2. QED
      BY <1>5, <2>1, Zenon DEF Course
  <1>7. QED
    BY <1>6 DEF t

\* What remains when the first event has been told.
LEMMA CourseGoesOn ==
  ASSUME NEW s \in Seq(VisionEvents), s # << >>, NEW b, NEW a, Course(b, s, a)
  PROVE  Course(IF Head(s) = "long_silence" THEN b ELSE Head(s) = "user_entered", Tail(s), a)
  <1>1. PICK p \in [0 .. Len(s) -> BOOLEAN] :
           /\ p[0] = b /\ p[Len(s)] = a
           /\ \A i \in DOMAIN s :
                IF s[i] = "long_silence" THEN p[i] = p[i - 1]
                ELSE p[i] = (s[i] = "user_entered") /\ p[i - 1] = (s[i] = "user_left")
    BY DEF Course
  <1> DEFINE t == Tail(s)
             n == Len(t)
             q == [i \in 0 .. n |-> p[i + 1]]
  <1>2. /\ t \in Seq(VisionEvents) /\ n \in Nat /\ n = Len(s) - 1 /\ DOMAIN t = 1 .. n
        /\ DOMAIN s = 1 .. n + 1 /\ \A i \in 1 .. n : t[i] = s[i + 1]
    BY HeadTailProperties
  <1>3. Head(s) = s[1]
    OBVIOUS
  <1> HIDE DEF t, n
  <1>4. q \in [0 .. n -> BOOLEAN] /\ q[n] = a /\ \A i \in 0 .. n : q[i] = p[i + 1]
    BY <1>1, <1>2
  <1> HIDE DEF q
  <1>5. p[1] = IF Head(s) = "long_silence" THEN b ELSE Head(s) = "user_entered"
    <2>1. 1 \in DOMAIN s
      BY <1>2
    <2>2. 1 - 1 = 0
      OBVIOUS
    <2>3. QED
      BY <1>1, <1>3, <2>1, <2>2
  <1>6. ASSUME NEW i \in DOMAIN t
        PROVE  IF t[i] = "long_silence" THEN q[i] = q[i - 1]
               ELSE q[i] = (t[i] = "user_entered") /\ q[i - 1] = (t[i] = "user_left")
    <2>1. /\ i + 1 \in DOMAIN s /\ t[i] = s[i + 1] /\ i \in Nat
          /\ q[i] = p[i + 1] /\ q[i - 1] = p[i]
      BY <1>2, <1>4
    <2>2. (i + 1) - 1 = i
      BY <2>1
    <2>3. QED
      BY <1>1, <2>1, <2>2
  <1>7. q[0] = p[1]
    BY <1>2, <1>4
  <1>8. Course(p[1], t, a)
    BY <1>2, <1>4, <1>6, <1>7 DEF Course, n
  <1>9. QED
    BY <1>5, <1>8 DEF t

LEMMA EventsAssociate ==
  \A s, t, u \in Seq(VisionEvents) : (s \o t) \o u = s \o (t \o u) /\ s \o t \in Seq(VisionEvents)
  BY ConcatAssociative, ConcatProperties

\* The events of a frame tell what it did to the debounced presence.
LEMMA CourseOfFrame ==
  ASSUME NEW s \in Seq(VisionEvents), NEW b, NEW has \in BOOLEAN, NEW p \in Presences,
         Course(b, s, p.present)
  PROVE  Course(b, s \o EventsOf(has, p), Settle(Noticed(has, p)).present)
  <1> DEFINE after  == Noticed(has, p).present
             silent == Silent(Noticed(has, p))
             u == IF Entering(has, p) THEN Append(s, "user_entered")
                  ELSE IF Leaving(has, p) THEN Append(s, "user_left") ELSE s
             v == IF silent THEN Append(u, "long_silence") ELSE u
  <1>1. Settle(Noticed(has, p)).present = after /\ after \in BOOLEAN /\ p.present \in BOOLEAN
    BY NoticedType DEF Presences
  <1>2. {"user_entered", "user_left", "long_silence"} \subseteq VisionEvents
    BY DEF VisionEvents
  <1>3. ~(Entering(has, p) /\ Leaving(has, p))
    BY DEF Entering, Leaving
  <1>4. u \in Seq(VisionEvents) /\ Course(b, u, after)
    <2>1. CASE Entering(has, p)
      <3>1. after = TRUE /\ p.present = FALSE
        BY <1>1, <2>1 DEF Noticed, Entering
      <3>2. Course(b, s, FALSE)
        BY <3>1
      <3>3. Course(b, Append(s, "user_entered"), TRUE)
        BY <1>2, <3>2, CourseGrows
      <3>4. u = Append(s, "user_entered")
        BY <1>3, <2>1
      <3>5. Append(s, "user_entered") \in Seq(VisionEvents)
        BY <1>2
      <3> HIDE DEF u, after
      <3>6. QED
        BY <3>1, <3>3, <3>4, <3>5
    <2>2. CASE ~Entering(has, p) /\ Leaving(has, p)
      <3>1. after = FALSE /\ p.present = TRUE
        BY <1>1, <2>2 DEF Noticed, Leaving
      <3>2. Course(b, s, TRUE)
        BY <3>1
      <3>3. Course(b, Append(s, "user_left"), FALSE)
        BY <1>2, <3>2, CourseGrows
      <3>4. u = Append(s, "user_left")
        BY <1>3, <2>2
      <3>5. Append(s, "user_left") \in Seq(VisionEvents)
        BY <1>2
      <3> HIDE DEF u, after
      <3>6. QED
        BY <3>1, <3>3, <3>4, <3>5
    <2>3. CASE ~Entering(has, p) /\ ~Leaving(has, p)
      <3>1. after = p.present
        BY <1>1, <2>3 DEF Noticed
      <3>2. QED
        BY <2>3, <3>1
    <2>4. QED
      BY <2>1, <2>2, <2>3
  <1> HIDE DEF after
  <1>5. Course(b, v, after)
    BY <1>1, <1>2, <1>4, CourseGrows
  <1>6. s \o EventsOf(has, p) = v
    <2> DEFINE x == IF Entering(has, p) THEN << "user_entered" >> ELSE << >>
               y == IF Leaving(has, p) THEN << "user_left" >> ELSE << >>
               z == IF silent THEN << "long_silence" >> ELSE << >>
    <2>1. EventsOf(has, p) = (x \o y) \o z
      BY DEF EventsOf
    <2>2. x \in Seq(VisionEvents) /\ y \in Seq(VisionEvents) /\ z \in Seq(VisionEvents)
      BY <1>2
    <2>3. ASSUME NEW w \in Seq(VisionEvents), NEW e \in VisionEvents
          PROVE  w \o << >> = w /\ w \o << e >> = Append(w, e)
      BY <2>3, ConcatEmptySeq, AppendIsConcat
    <2>4. (s \o x) \o y = u
      <3>1. CASE Entering(has, p)
        BY <1>2, <1>3, <1>4, <2>3, <3>1
      <3>2. CASE ~Entering(has, p)
        BY <1>2, <2>3, <3>2
      <3>3. QED
        BY <3>1, <3>2
    <2>5. u \o z = v
      BY <1>2, <1>4, <2>3
    <2> HIDE DEF x, y, z, u, v
    <2>6. \A w \in Seq(VisionEvents) : s \o (w \o z) = (s \o w) \o z
      BY <2>2, EventsAssociate
    <2>7. s \o ((x \o y) \o z) = (s \o (x \o y)) \o z
      <3>1. x \o y \in Seq(VisionEvents)
        BY <2>2, EventsAssociate
      <3>2. QED
        BY ONLY <2>6, <3>1
    <2>8. s \o (x \o y) = (s \o x) \o y
      BY <2>2, EventsAssociate
    <2>9. QED
      BY <2>1, <2>4, <2>5, <2>7, <2>8
  <1>7. QED
    BY <1>1, <1>5, <1>6

-----------------------------------------------------------------------------
(* The events on their way, from the worker's hand to the controller, are a *)
(* course from what was told to what the camera sees.                       *)

Stream ==
  /\ popped \in Seq(VisionEvents) /\ told \in BOOLEAN
  /\ worker.pc # "noticed" => worker.events = << >>
  /\ worker.pc # "gone" => running
  /\ Undisturbed => Course(told, (popped \o pending) \o worker.events, presence.present)

LEMMA DisturbingIsDisturbed ==
  ASSUME NEW kind \in {"switch", "mixed"}, Disturb(kind)
  PROVE  ~Undisturbed'
  BY DEF Disturb, Undisturbed

LEMMA StaysDisturbed == [PresenceNext]_presenceVars => (Undisturbed' => Undisturbed)
  <1>1. disturbed \subseteq disturbed' => (Undisturbed' => Undisturbed)
    BY DEF Undisturbed
  <1>2. ASSUME [PresenceNext]_presenceVars PROVE disturbed \subseteq disturbed'
    <2>1. CASE UNCHANGED disturbed
      BY <2>1
    <2>2. CASE SwitchCamera
      BY <2>2, Zenon DEF SwitchCamera, Disturb
    <2>3. CASE FrameFromBrowser
      BY <2>3, Zenon DEF FrameFromBrowser, Disturb
    <2>4. CASE Reconfigure
      BY <2>4, Zenon DEF Reconfigure
    <2>5. QED
      BY <1>2, <2>1, <2>2, <2>3, <2>4, Zenon
         DEF PresenceNext, Camera, PollVision, PopPending, HandleEvent, BindVisitor,
             TakeTurn, Clockwork, presenceVars
  <1>3. QED
    BY <1>1, <1>2

LEMMA StreamInit == PresenceInit => Stream
  <1> SUFFICES ASSUME PresenceInit PROVE Stream
    OBVIOUS
  <1>1. /\ popped = << >> /\ told = FALSE /\ pending = << >> /\ worker = NoWorker
        /\ presence = Absence
    BY DEF PresenceInit, VisionInit
  <1>2. worker.events = << >> /\ worker.pc = "gone" /\ presence.present = FALSE
    BY <1>1 DEF NoWorker, Absence
  <1>3. (popped \o pending) \o worker.events = << >>
    BY <1>1, <1>2
  <1>4. Course(FALSE, << >>, FALSE)
    <2> DEFINE p == [i \in 0 .. 0 |-> FALSE]
    <2>1. Len(<< >>) = 0 /\ DOMAIN << >> = {}
      OBVIOUS
    <2>2. p \in [0 .. 0 -> BOOLEAN] /\ p[0] = FALSE
      OBVIOUS
    <2> HIDE DEF p
    <2>3. p \in [0 .. Len(<< >>) -> BOOLEAN] /\ p[Len(<< >>)] = FALSE
      BY <2>1, <2>2
    <2>4. QED
      BY <2>1, <2>2, <2>3, Zenon DEF Course
  <1>5. popped \in Seq(VisionEvents)
    BY <1>1
  <1>6. QED
    BY <1>1, <1>2, <1>3, <1>4, <1>5 DEF Stream

LEMMA CameraKeepsStream ==
  VisionTypeOK /\ Stream /\ Camera => Stream'
  <1> SUFFICES ASSUME VisionTypeOK, Stream, Camera PROVE Stream'
    OBVIOUS
  <1>0. /\ worker \in Workers /\ presence \in Presences /\ pending \in Seq(VisionEvents)
        /\ popped \in Seq(VisionEvents) /\ worker.events \in Seq(VisionEvents)
    BY VisionTypeParts DEF Stream, Workers
  <1>1. UNCHANGED << popped, told, disturbed >>
    BY DEF Camera
  <1>2. Undisturbed' = Undisturbed
    BY <1>1 DEF Undisturbed
  <1>3. /\ NoWorker.pc = "gone" /\ NoWorker.events = << >>
        /\ AtLoop.pc = "loop" /\ AtLoop.events = << >>
    BY DEF NoWorker, AtLoop
  <1>4. CASE WorkerReads
    <2>1. /\ UNCHANGED << running, presence, pending >> /\ worker.pc = "loop"
          /\ \E sees \in SUBSET People : worker' = [AtLoop EXCEPT !.pc = "detected", !.sees = sees]
      BY <1>4, Zenon DEF WorkerReads
    <2>2. worker'.pc = "detected" /\ worker'.events = << >>
      BY <2>1 DEF AtLoop, NoWorker
    <2>3. worker.events = << >> /\ running
      BY <2>1 DEF Stream
    <2>4. QED
      BY <1>1, <1>2, <2>1, <2>2, <2>3 DEF Stream
  <1>5. CASE WorkerTracks
    <2>1. /\ UNCHANGED << running, presence, pending >> /\ worker.pc = "detected"
          /\ worker' = [worker EXCEPT !.pc = "tracked", !.listed = Live(tracker')]
      BY <1>5, Zenon DEF WorkerTracks
    <2>2. worker'.pc = "tracked" /\ worker'.events = worker.events
      BY <1>0, <2>1 DEF Workers
    <2>3. worker.events = << >> /\ running
      BY <2>1 DEF Stream
    <2>4. QED
      BY <1>1, <1>2, <2>1, <2>2, <2>3 DEF Stream
  <1>6. CASE WorkerNotices
    <2> DEFINE has    == worker.sees # {}
               events == EventsOf(has, presence)
    <2>1. /\ UNCHANGED << running, pending >> /\ worker.pc = "tracked"
          /\ presence' = Settle(Noticed(has, presence))
          /\ worker' = [worker EXCEPT !.pc = "noticed", !.sees = {}, !.events = events]
      BY <1>6 DEF WorkerNotices
    <2>2. worker.events = << >> /\ running
      BY <2>1 DEF Stream
    <2>3. (popped \o pending) \o worker.events = popped \o pending
          /\ popped \o pending \in Seq(VisionEvents)
      BY <1>0, <2>2, EventsAssociate, ConcatEmptySeq
    <2>4. ASSUME Undisturbed
          PROVE  Course(told, (popped \o pending) \o events, presence'.present)
      <3>1. Course(told, popped \o pending, presence.present)
        BY <2>3, <2>4 DEF Stream
      <3>2. QED
        BY <1>0, <2>1, <2>3, <3>1, CourseOfFrame
    <2> HIDE DEF events
    <2>5. worker'.pc = "noticed" /\ worker'.events = events
      BY <1>0, <2>1 DEF Workers
    <2>6. QED
      BY <1>1, <1>2, <2>1, <2>2, <2>4, <2>5 DEF Stream
  <1>7. CASE WorkerPublishes
    <2>1. /\ UNCHANGED << running, presence >> /\ worker.pc = "noticed"
          /\ pending' = pending \o worker.events /\ worker' = AtLoop
      BY <1>7 DEF WorkerPublishes, Publish
    <2>2. pending' \in Seq(VisionEvents)
          /\ popped \o pending' = (popped \o pending) \o worker.events
      BY <1>0, <2>1, EventsAssociate
    <2>3. (popped \o pending') \o << >> = popped \o pending'
      BY <1>0, <2>2, EventsAssociate, ConcatEmptySeq
    <2>4. QED
      BY <1>1, <1>2, <1>3, <2>1, <2>2, <2>3 DEF Stream
  <1>8. CASE WorkerEnds
    <2>1. /\ UNCHANGED << presence, pending >> /\ worker.pc # "noticed" /\ worker' = NoWorker
      BY <1>8 DEF WorkerEnds
    <2>2. worker.events = << >>
      BY <2>1 DEF Stream
    <2>3. QED
      BY <1>1, <1>2, <1>3, <2>1, <2>2 DEF Stream
  <1>9. CASE Start
    <2>1. /\ UNCHANGED << presence, pending >> /\ ~running
          /\ (running' = TRUE /\ worker' = AtLoop) \/ (running' = FALSE /\ worker' = NoWorker)
      BY <1>9 DEF Start, Begun
    <2>2. worker.pc = "gone" /\ worker.events = << >>
      BY <2>1 DEF Stream
    <2>3. QED
      BY <1>1, <1>2, <1>3, <2>1, <2>2 DEF Stream
  <1>10. CASE StopReturns
    <2>1. UNCHANGED << presence, pending, worker >> /\ worker.pc = "gone"
      BY <1>10 DEF StopReturns
    <2>2. QED
      BY <1>1, <1>2, <2>1 DEF Stream
  <1>11. CASE \E then \in {"stop", "switch"} : StopBegins(then)
    <2>1. UNCHANGED << presence, pending, worker, running >>
      BY <1>11, Zenon DEF StopBegins
    <2>2. QED
      BY <1>1, <1>2, <2>1 DEF Stream
  <1>12. QED
    BY <1>4, <1>5, <1>6, <1>7, <1>8, <1>9, <1>10, <1>11 DEF Camera, Worker, Manager

LEMMA FrameKeepsStream ==
  VisionTypeOK /\ Stream /\ (SwitchCamera \/ FrameFromBrowser) => Stream'
  <1> SUFFICES ASSUME VisionTypeOK, Stream, SwitchCamera \/ FrameFromBrowser PROVE Stream'
    OBVIOUS
  <1>0. /\ worker \in Workers /\ presence \in Presences /\ pending \in Seq(VisionEvents)
        /\ popped \in Seq(VisionEvents)
    BY VisionTypeParts DEF Stream
  <1>1. UNCHANGED << popped, told >>
    BY DEF SwitchCamera, FrameFromBrowser
  <1>2. CASE SwitchCamera
    <2>1. ~Undisturbed'
      BY <1>2, DisturbingIsDisturbed DEF SwitchCamera
    <2>2. CASE SwitchRunning
      <3>1. (running' = TRUE /\ worker' = AtLoop) \/ (running' = FALSE /\ worker' = NoWorker)
        BY <2>2 DEF SwitchRunning, Begun
      <3>2. worker'.events = << >> /\ (worker'.pc # "gone" => running')
        BY <3>1 DEF AtLoop, NoWorker
      <3>3. QED
        BY <1>1, <2>1, <3>2 DEF Stream
    <2>3. CASE SwitchStopped
      <3>1. UNCHANGED << running, worker >>
        BY <2>3 DEF SwitchStopped
      <3>2. QED
        BY <1>1, <2>1, <3>1 DEF Stream
    <2>4. QED
      BY <1>2, <2>2, <2>3 DEF SwitchCamera, Switch
  <1>3. CASE FrameFromBrowser
    <2>1. UNCHANGED << running, worker >>
      BY <1>3 DEF FrameFromBrowser, BrowserFrame
    <2>2. CASE worker.pc # "gone"
      <3>1. ~Undisturbed'
        BY <1>3, <2>2, DisturbingIsDisturbed DEF FrameFromBrowser
      <3>2. QED
        BY <1>1, <2>1, <3>1 DEF Stream
    <2>3. CASE worker.pc = "gone" /\ UNCHANGED << presence, pending >>
      <3>1. disturbed' = disturbed
        BY <1>3, <2>3 DEF FrameFromBrowser
      <3>2. QED
        BY <1>1, <2>1, <2>3, <3>1 DEF Stream, Undisturbed
    <2>4. CASE /\ worker.pc = "gone"
               /\ \E sees \in SUBSET People :
                    /\ presence' = Settle(Noticed(sees # {}, presence))
                    /\ pending'  = pending \o EventsOf(sees # {}, presence)
      <3>1. PICK sees \in SUBSET People :
              /\ presence' = Settle(Noticed(sees # {}, presence))
              /\ pending'  = pending \o EventsOf(sees # {}, presence)
        BY <2>4
      <3> DEFINE has    == sees # {}
                 events == EventsOf(has, presence)
      <3>2. disturbed' = disturbed
        BY <1>3, <2>4 DEF FrameFromBrowser
      <3>3. worker.events = << >>
        BY <2>4 DEF Stream
      <3>4. events \in Seq(VisionEvents)
        BY EventsType
      <3>5. ASSUME Undisturbed PROVE Course(told, (popped \o pending) \o events, presence'.present)
        <4>1. popped \o pending \in Seq(VisionEvents)
          BY <1>0, EventsAssociate
        <4>2. Course(told, popped \o pending, presence.present)
          BY <3>3, <3>5, <4>1, ConcatEmptySeq DEF Stream
        <4>3. QED
          BY <1>0, <3>1, <4>1, <4>2, CourseOfFrame
      <3>6. pending' = pending \o events
        BY <3>1
      <3> HIDE DEF events
      <3>7. popped \o pending' = (popped \o pending) \o events
            /\ popped \o pending' \in Seq(VisionEvents)
        BY <1>0, <3>4, <3>6, EventsAssociate
      <3>8. (popped \o pending') \o << >> = popped \o pending'
        BY <3>7, ConcatEmptySeq
      <3>9. Undisturbed' = Undisturbed
        BY <3>2 DEF Undisturbed
      <3>10. QED
        BY <1>1, <2>1, <2>4, <3>3, <3>5, <3>7, <3>8, <3>9 DEF Stream
    <2>5. \/ UNCHANGED << presence, pending >>
          \/ \E sees \in SUBSET People :
               /\ presence' = Settle(Noticed(sees # {}, presence))
               /\ pending'  = pending \o EventsOf(sees # {}, presence)
      <3>1. PICK sees \in SUBSET People :
               \/ /\ presence' = Settle(Noticed(sees # {}, presence))
                  /\ Publish(Live(tracker'), EventsOf(sees # {}, presence))
               \/ UNCHANGED << presence, snapshot, pending >>
        BY <1>3, Zenon DEF FrameFromBrowser, BrowserFrame
      <3>2. QED
        BY <3>1, Zenon DEF Publish
    <2>6. QED
      BY <2>2, <2>3, <2>4, <2>5
  <1>4. QED
    BY <1>2, <1>3

LEMMA DispatcherKeepsStream ==
  VisionTypeOK /\ Stream /\ (PopPending \/ HandleEvent) => Stream'
  <1> SUFFICES ASSUME VisionTypeOK, Stream, PopPending \/ HandleEvent PROVE Stream'
    OBVIOUS
  <1>0. /\ worker \in Workers /\ pending \in Seq(VisionEvents)
        /\ popped \in Seq(VisionEvents) /\ worker.events \in Seq(VisionEvents)
    BY VisionTypeParts DEF Stream, Workers
  <1>1. UNCHANGED << disturbed, running, worker, presence >>
    BY DEF PopPending, PopEvents, HandleEvent, visionVars
  <1>2. Undisturbed' = Undisturbed
    BY <1>1 DEF Undisturbed
  <1>3. CASE PopPending
    <2>1. popped = << >> /\ popped' = pending /\ pending' = << >> /\ told' = told
      BY <1>3 DEF PopPending, PopEvents
    <2>2. popped' \o pending' = popped \o pending
      BY <1>0, <2>1, ConcatEmptySeq
    <2>3. QED
      BY <1>0, <1>1, <1>2, <2>1, <2>2 DEF Stream
  <1>4. CASE HandleEvent
    <2>1. /\ popped # << >> /\ popped' = Tail(popped) /\ pending' = pending
          /\ told' = IF Head(popped) = "long_silence" THEN told ELSE Head(popped) = "user_entered"
      BY <1>4 DEF HandleEvent, visionVars
    <2> DEFINE rest == pending \o worker.events
               all  == (popped \o pending) \o worker.events
    <2>2. rest \in Seq(VisionEvents)
      BY <1>0, EventsAssociate
    <2>3. all = popped \o rest
      BY <1>0, EventsAssociate
    <2>4. popped' \in Seq(VisionEvents)
      BY <1>0, <2>1, HeadTailProperties
    <2>5. (popped' \o pending') \o worker'.events = popped' \o rest
      BY <1>0, <1>1, <2>1, <2>4, EventsAssociate
    <2> HIDE DEF rest, all
    <2>6. all \in Seq(VisionEvents) /\ all # << >> /\ Head(all) = Head(popped)
          /\ Tail(all) = popped' \o rest
      BY <1>0, <2>1, <2>2, <2>3, <2>4
    <2>7. told' \in BOOLEAN
      BY <2>1 DEF Stream
    <2>8. ASSUME Undisturbed PROVE Course(told', popped' \o rest, presence.present)
      <3>1. Course(told, all, presence.present)
        BY <2>8 DEF Stream, all
      <3>2. QED
        BY <2>1, <2>6, <3>1, CourseGoesOn
    <2>9. QED
      BY <1>1, <1>2, <2>4, <2>5, <2>7, <2>8 DEF Stream
  <1>5. QED
    BY <1>3, <1>4

LEMMA OthersKeepStream ==
  VisionTypeOK /\ Stream /\ (PollVision \/ BindVisitor \/ Reconfigure \/ TakeTurn \/ Clockwork
                           \/ UNCHANGED presenceVars) => Stream'
  <1> SUFFICES ASSUME VisionTypeOK, Stream,
                      PollVision \/ BindVisitor \/ Reconfigure \/ TakeTurn \/ Clockwork
                        \/ UNCHANGED presenceVars
               PROVE  Stream'
    OBVIOUS
  <1>1. UNCHANGED << popped, told, running, worker, pending >>
    BY Zenon DEF PollVision, BindVisitor, Reconfigure, TakeTurn, Clockwork, presenceVars, visionVars,
                 MarkActivity, VisionTick
  <1>2. presence'.present = presence.present
    <2>1. presence \in Presences
      BY VisionTypeParts
    <2>2. CASE presence' = presence
      BY <2>2
    <2>3. CASE TakeTurn
      BY <2>1, <2>3 DEF TakeTurn, MarkActivity, Presences
    <2>4. CASE Clockwork
      <3>1. presence' = IF presence.present
                        THEN [presence EXCEPT !.seen = Grown(@), !.idle = Grown(@)] ELSE presence
        BY <2>4 DEF Clockwork, VisionTick
      <3>2. QED
        BY <2>1, <3>1 DEF Presences
    <2>5. QED
      BY <2>2, <2>3, <2>4, Zenon DEF PollVision, BindVisitor, Reconfigure, presenceVars, visionVars
  <1>3. Undisturbed' => Undisturbed
    BY StaysDisturbed, Zenon DEF PresenceNext
  <1>4. QED
    BY <1>1, <1>2, <1>3 DEF Stream

LEMMA StreamStep == VisionTypeOK /\ Stream /\ [PresenceNext]_presenceVars => Stream'
  BY CameraKeepsStream, FrameKeepsStream, DispatcherKeepsStream, OthersKeepStream DEF PresenceNext

\* No event of the camera is lost, doubled or out of order on its way to the
\* controller, and together they lead to what the camera sees now, for any people,
\* times and number of pending events, under stops and restarts of the worker.
THEOREM EventsAreTold == PresenceSpec => []EventsTellPresence
  <1>1. VisionTypeOK /\ Stream => EventsTellPresence
    <2> SUFFICES ASSUME VisionTypeOK, Stream, worker.pc # "noticed", Undisturbed
                 PROVE  Course(told, popped \o pending, presence.present)
      BY DEF EventsTellPresence
    <2>1. /\ worker.events = << >>
          /\ Course(told, (popped \o pending) \o worker.events, presence.present)
      BY DEF Stream
    <2>2. popped \in Seq(VisionEvents) /\ pending \in Seq(VisionEvents)
      BY VisionTypeParts DEF Stream
    <2>3. (popped \o pending) \o << >> = popped \o pending
      BY <2>2, EventsAssociate, ConcatEmptySeq
    <2>4. QED
      BY <2>1, <2>3
  <1>2. QED
    BY <1>1, VisionTypeCorrect, StreamInit, StreamStep, PTL DEF PresenceSpec

\* The controller fed by the camera is the controller: every behaviour of the
\* composition is, seen from the controller, one that VisitorGating specifies.
THEOREM CameraDrivesTheController == PresenceSpec => Spec
  <1>1. PresenceInit => Init
    BY DEF PresenceInit
  <1>2. VisionTypeOK /\ Stream /\ IInv /\ [PresenceNext]_presenceVars => [Next]_gateVars
    BY PresenceMovesController DEF Stream
  <1>3. QED
    BY <1>1, <1>2, VisionTypeCorrect, StreamInit, StreamStep, InitInv, NextInv, PTL
       DEF PresenceSpec, Spec

-----------------------------------------------------------------------------
(* What the other methods leave of the locked track.                        *)

Follows(w, s) == w.track = s.track /\ w.presence = s.presence /\ w.unseen = s.unseen

LEMMA TurnKeepsTrack ==
  ASSUME NEW s \in Gate, NEW i \in BOOLEAN
  PROVE  Follows(BeforeTurn(s, i), s)
  <1> DEFINE e == ExpireCandidate(s)
             n == EnterTurn(e, i)
             t == [n EXCEPT !.intent = "confirmed_by_input", !.event = "dialogue_turn"]
  <1>1. e \in Gate /\ Follows(e, s)
    <2>1. CASE Expired(s)
      <3> DEFINE c == DropCandidate(s)
                 d == [c EXCEPT !.identity = IdentityOf(s.primary),
                                !.confirm  = Confirmation("expired", s.candidate)]
      <3>1. c \in Gate /\ Follows(c, s)
        BY DropCandidateType, DropCandidateIs DEF Follows
      <3>2. /\ IdentityOf(s.primary) \in IdentityStates
            /\ Confirmation("expired", s.candidate)
                 \in [status: ConfirmStates, who: Visitors \union {None}]
        BY Names DEF Confirmation, ConfirmStates, Gate
      <3> HIDE DEF c
      <3>3. \A j \in IdentityStates,
               a \in [status: ConfirmStates, who: Visitors \union {None}] :
              LET x == [c EXCEPT !.identity = j, !.confirm = a]
              IN  x \in Gate /\ Follows(x, s)
        BY <3>1 DEF Gate, Follows
      <3>4. d \in Gate /\ Follows(d, s)
        BY <3>2, <3>3
      <3>5. e = Mark(d, "observe_only", "candidate_expired")
        BY <2>1 DEF ExpireCandidate, c
      <3> HIDE DEF d
      <3>6. Mark(d, "observe_only", "candidate_expired") \in Gate
        BY <3>4, MarkType DEF Decisions, EventNames
      <3>7. QED
        BY <3>4, <3>5, <3>6 DEF Mark, Gate, Follows
    <2>2. CASE ~Expired(s)
      BY <2>2 DEF ExpireCandidate, Follows
    <2>3. QED
      BY <2>1, <2>2
  <1> HIDE DEF e
  <1>2. DOMAIN n = DOMAIN e /\ Follows(n, e)
    BY <1>1 DEF EnterTurn, Gate, Follows
  <1> HIDE DEF n
  <1>3. DOMAIN t = DOMAIN n /\ Follows(t, n)
    BY <1>1, <1>2 DEF Gate, Follows
  <1> HIDE DEF t
  <1>4. Follows(CountUnconfirmed(t), t)
    BY <1>1, <1>2, <1>3 DEF CountUnconfirmed, Gate, Follows
  <1>5. BeforeTurn(s, i) = IF Expired(s) THEN t ELSE CountUnconfirmed(t)
    BY DEF BeforeTurn, t, n, e
  <1>6. QED
    BY <1>1, <1>2, <1>3, <1>4, <1>5 DEF Follows

LEMMA EventKeepsTrack ==
  ASSUME gate \in Gate, NEW e, SystemEvent(e)
  PROVE  Follows(gate', gate)
  <1>1. CASE e = "user_left"
    <2> DEFINE d == DropCandidate(gate)
    <2>1. d \in Gate /\ Follows(d, gate)
      BY DropCandidateType, DropCandidateIs DEF Follows
    <2> HIDE DEF d
    <2>2. gate' = Mark([d EXCEPT !.runtime = "idle", !.intent = "unconfirmed"], "observe_only", e)
      BY <1>1 DEF SystemEvent, d
    <2>3. QED
      BY <2>1, <2>2 DEF Mark, Gate, Follows
  <1>2. CASE e # "user_left"
    BY <1>2 DEF SystemEvent, Mark, Gate, Follows
  <1>3. QED
    BY <1>1, <1>2

\* A visitor chosen by the developer has no track yet.
LEMMA BindDropsTrack ==
  ASSUME gate \in Gate, BindVisitor
  PROVE  gate'.track = NoTrack /\ gate'.presence # "left"
  <1>1. PICK v \in Visitors \union {None} : gate' = SetPrimaryVisitor(gate, v)
    BY DEF BindVisitor
  <1> DEFINE b == Bind(gate, v)
  <1>2. b \in Gate /\ b.track = NoTrack /\ b.presence = PresenceOf(v)
    BY BindType, BindIs
  <1>3. PresenceOf(v) # "left"
    BY DEF PresenceOf
  <1> HIDE DEF b
  <1>4. gate' = Mark([b EXCEPT !.confirm = NoConfirmation],
                     IF v = None THEN "visitor_cleared" ELSE "visitor_bound", "visitor_selection")
    BY <1>1 DEF SetPrimaryVisitor, b
  <1>5. QED
    BY <1>2, <1>3, <1>4 DEF Mark, Gate

\* After a poll the time of a listed track is the tracker's own; that of another
\* one is left alone, and so is the history.
LEMMA PollUnseen ==
  ASSUME gate \in Gate, VisionTypeOK, UpdatePrimaryPresence(Report), gate'.track # NoTrack
  PROVE  \/ /\ Tracking(Report) /\ gate'.track \in snapshot.listed
            /\ gate'.unseen = tracker.tracks[gate'.track].age
         \/ /\ ~(Tracking(Report) /\ gate'.track \in snapshot.listed)
            /\ gate'.track = gate.track /\ gate'.unseen = gate.unseen
  <1>0. ASSUME NEW t \in TrackIds
        PROVE  /\ t \in snapshot.listed => Report.list[t] # Absent
                                          /\ Report.list[t].age = tracker.tracks[t].age
               /\ t \notin snapshot.listed => Report.list[t] = Absent
    <2>1. Report.list[t] = Sighted(t)
      BY DEF Report
    <2>2. QED
      BY <2>1 DEF Sighted, Absent
  <1>1. CASE PollRelease(Report)
    <2> DEFINE d == DropTrack(DropCandidate(gate), "left")
    <2>1. d \in Gate /\ d.track = NoTrack
      BY DropCandidateType, DropTrackType, DropTrackIs DEF PresenceStates
    <2> HIDE DEF d
    <2>2. gate'.track = NoTrack
      BY <1>1, <2>1 DEF PollRelease, Mark, Gate, d
    <2>3. QED
      BY <2>2
  <1>2. CASE PollNoPrimary(Report)
    BY <1>2 DEF PollNoPrimary, DropTrack, Gate
  <1>3. CASE PollHandoffOff(Report) \/ PollNoFrame(Report)
    BY <1>3 DEF PollHandoffOff, PollNoFrame, Tracking, Gate
  <1>4. CASE PollLock(Report)
    <2>1. PICK t \in Tracks :
             /\ Active(Report) = {t}
             /\ gate' = [gate EXCEPT !.track = t, !.unseen = Report.list[t].age, !.presence = "present"]
      BY <1>4 DEF PollLock
    <2>2. t \in TrackIds /\ Report.list[t].sight = "active"
      BY <2>1, SameTracksAssumption DEF Active
    <2>3. t \in snapshot.listed /\ Report.list[t].age = tracker.tracks[t].age
      BY <1>0, <2>2 DEF Absent
    <2>4. gate'.track = t /\ gate'.unseen = Report.list[t].age
      BY <2>1 DEF Gate
    <2>5. QED
      BY <1>4, <2>3, <2>4 DEF PollLock
  <1>5. CASE PollUnlocked(Report)
    BY <1>5 DEF PollUnlocked, Gate
  <1>6. CASE PollSeen(Report) \/ PollMissing(Report)
    <2>1. gate.track \in TrackIds
      BY <1>6, SameTracksAssumption DEF PollSeen, PollMissing, Gate
    <2>2. gate'.track = gate.track /\ gate'.unseen = SeenAge(Report)
      BY <1>6 DEF PollSeen, PollMissing, Gate
    <2>3. Tracking(Report)
      BY <1>6 DEF PollSeen, PollMissing
    <2>4. QED
      BY <1>0, <2>1, <2>2, <2>3 DEF SeenAge
  <1>7. QED
    BY <1>1, <1>2, <1>3, <1>4, <1>5, <1>6 DEF UpdatePrimaryPresence

\* A poll keeps the track, forgets it or locks one that the snapshot lists; and
\* it releases only a track the camera does not call active.
LEMMA PollTrack ==
  ASSUME gate \in Gate, VisionTypeOK, UpdatePrimaryPresence(Report)
  PROVE  /\ gate'.track \in {gate.track, NoTrack} \union snapshot.listed
         /\ Releases => PollRelease(Report)
  <1>1. CASE PollRelease(Report)
    <2> DEFINE d == DropTrack(DropCandidate(gate), "left")
    <2>1. d \in Gate /\ d.track = NoTrack
      BY DropCandidateType, DropTrackType, DropTrackIs DEF PresenceStates
    <2> HIDE DEF d
    <2>2. gate'.track = NoTrack
      BY <1>1, <2>1 DEF PollRelease, Mark, Gate, d
    <2>3. QED
      BY <1>1, <2>2
  <1>2. CASE PollNoPrimary(Report)
    BY <1>2 DEF PollNoPrimary, DropTrack, Gate, Releases
  <1>3. CASE PollHandoffOff(Report) \/ PollNoFrame(Report)
    BY <1>3 DEF PollHandoffOff, PollNoFrame, Gate, Releases
  <1>4. CASE PollLock(Report)
    <2>1. PICK t \in Tracks :
             /\ Active(Report) = {t}
             /\ gate' = [gate EXCEPT !.track = t, !.unseen = Report.list[t].age, !.presence = "present"]
      BY <1>4 DEF PollLock
    <2>2. Report.list[t].sight = "active"
      BY <2>1 DEF Active
    <2>3. Report.list[t] = Sighted(t)
      BY SameTracksAssumption DEF Report
    <2>4. t \in snapshot.listed
      BY <2>2, <2>3 DEF Sighted, Absent
    <2>5. gate'.track = t /\ gate'.presence = "present"
      BY <2>1 DEF Gate
    <2>6. QED
      BY <2>4, <2>5 DEF Releases
  <1>5. CASE PollUnlocked(Report) \/ PollSeen(Report) \/ PollMissing(Report)
    BY <1>5 DEF PollUnlocked, PollSeen, PollMissing, Gate, Releases
  <1>6. QED
    BY <1>1, <1>2, <1>3, <1>4, <1>5 DEF UpdatePrimaryPresence

LEMMA TrackMoves ==
  ASSUME VisionTypeOK, IInv, [PresenceNext]_presenceVars
  PROVE  /\ \/ gate'.track \in {gate.track, NoTrack}
            \/ PollVision /\ gate'.track \in snapshot.listed
         /\ \/ gate'.track = NoTrack
            \/ gate'.track = gate.track /\ gate'.unseen = gate.unseen
            \/ PollVision \/ Clockwork
         /\ Releases => PollVision /\ PollRelease(Report)
  <1>0. gate \in Gate
    BY DEF IInv, Sound
  <1>1. CASE gate' = gate
    BY <1>1 DEF Releases
  <1>2. CASE PollVision
    BY <1>0, <1>2, PollTrack DEF PollVision
  <1>3. CASE HandleEvent
    BY <1>0, <1>3, EventKeepsTrack DEF HandleEvent, Follows, Releases
  <1>4. CASE BindVisitor
    BY <1>0, <1>4, BindDropsTrack DEF Releases
  <1>5. CASE TakeTurn
    BY <1>0, <1>5, TurnKeepsTrack DEF TakeTurn, Turn, Follows, Releases
  <1>6. CASE Clockwork
    <2>1. gate' = [gate EXCEPT !.candAge = Older(@),
                               !.unseen  = IF gate.track = NoTrack THEN @ ELSE Older(@)]
      BY <1>6 DEF Clockwork, Tick
    <2>2. gate'.track = gate.track /\ gate'.presence = gate.presence
      BY <1>0, <2>1 DEF Gate
    <2>3. QED
      BY <1>6, <2>2 DEF Releases
  <1>7. QED
    BY <1>1, <1>2, <1>3, <1>4, <1>5, <1>6, Zenon
       DEF PresenceNext, Camera, SwitchCamera, FrameFromBrowser, PopPending, Reconfigure,
           ConfigureIdentity, presenceVars

-----------------------------------------------------------------------------
(* The tracks.  A number once given is never given again, and a track that  *)
(* was given up stays so and stays older than max_missing_seconds.  Hence a *)
(* locked track that the snapshot does not list has been given up.          *)

Given(trk) == 1 .. trk.next - 1

GivenUp(track) == ~track.live /\ track.age > MissingTicks

TracksKept(trk) ==
  /\ Live(trk) \subseteq Given(trk)
  /\ \A t \in Given(trk) : t \in TrackIds /\ trk.tracks[t].who # Nobody
  /\ \A t \in Given(trk) \ Live(trk) : t \in TrackIds /\ GivenUp(trk.tracks[t])

\* From one tracker to a later one.
After(trk, new) ==
  /\ Given(trk) \subseteq Given(new)
  /\ (Given(trk) \ Live(trk)) \intersect Live(new) = {}

LEMMA AssociatedTrack ==
  ASSUME NEW trk, NEW sees, NEW f, NEW t \in TrackIds
  PROVE  LET new == Associated(sees, f, trk).tracks[t]
         IN  /\ (\E p \in sees : f[p] = t) =>
                  new.live /\ new.age = 0 /\ new.who \in sees
             /\ (~\E p \in sees : f[p] = t) =>
                  new = [trk.tracks[t] EXCEPT !.active = FALSE,
                           !.live = @ /\ trk.tracks[t].age <= MissingTicks]
  <1>1. CASE \E p \in sees : f[p] = t
    <2>1. (CHOOSE p \in sees : f[p] = t) \in sees
      BY <1>1
    <2>2. QED
      BY <1>1, <2>1 DEF Associated
  <1>2. CASE ~\E p \in sees : f[p] = t
    BY <1>2 DEF Associated
  <1>3. QED
    BY <1>1, <1>2

LEMMA AssociatedKept ==
  ASSUME NEW trk \in Trackers, NEW sees \in SUBSET People,
         NEW f \in [sees -> TrackIds], Assigns(sees, f, trk), TracksKept(trk)
  PROVE  TracksKept(Associated(sees, f, trk)) /\ After(trk, Associated(sees, f, trk))
  <1> DEFINE new == {f[p] : p \in sees} \ Live(trk)
             n   == Cardinality(new)
             nxt == Associated(sees, f, trk)
             matched(t) == \E p \in sees : f[p] = t
  <1>1. n \in Nat /\ trk.next + n \in 1 .. MaxTrack + 1 /\ new = trk.next .. trk.next + n - 1
    BY NewNumbers
  <1>2. nxt.next = trk.next + n
    BY DEF Associated
  <1>3. trk.next \in 1 .. MaxTrack + 1
    BY DEF Trackers
  <1>4. \A t \in TrackIds : matched(t) <=> t \in {f[p] : p \in sees}
    OBVIOUS
  <1>5. \A t \in TrackIds : matched(t) => t \in Live(trk) \/ t \in new
    BY <1>4
  <1>6. \A t \in new : t \in TrackIds /\ matched(t) /\ t \notin Live(trk)
    OBVIOUS
  <1>7. ASSUME NEW t \in TrackIds
        PROVE  /\ matched(t) => nxt.tracks[t].live /\ nxt.tracks[t].who \in People
               /\ ~matched(t) =>
                    /\ nxt.tracks[t].who = trk.tracks[t].who
                    /\ nxt.tracks[t].age = trk.tracks[t].age
                    /\ nxt.tracks[t].live <=>
                         (trk.tracks[t].live /\ trk.tracks[t].age <= MissingTicks)
    <2>1. trk.tracks[t] \in Track
      BY DEF Trackers
    <2>2. CASE matched(t)
      BY <2>2, AssociatedTrack
    <2>3. CASE ~matched(t)
      <3>1. nxt.tracks[t] = [trk.tracks[t] EXCEPT !.active = FALSE,
                               !.live = @ /\ trk.tracks[t].age <= MissingTicks]
        BY <2>3 DEF Associated
      <3> HIDE DEF nxt, matched
      <3>2. QED
        BY <2>1, <2>3, <3>1 DEF Track
    <2>4. QED
      BY <2>2, <2>3
  <1>8. \A t : t \in Live(nxt) <=> t \in TrackIds /\ nxt.tracks[t].live
    BY DEF Live
  <1>9. \A t : t \in Live(trk) <=> t \in TrackIds /\ trk.tracks[t].live
    BY DEF Live
  <1>10. Given(trk) \subseteq Given(nxt)
    <2> HIDE DEF nxt, new, n
    <2>1. QED
      BY <1>1, <1>2, <1>3 DEF Given
  <1>11. Given(nxt) = Given(trk) \union new /\ Given(nxt) \subseteq TrackIds
    <2> HIDE DEF nxt, new, n
    <2>1. QED
      BY <1>1, <1>2, <1>3, VisionAssumption DEF Given, TrackIds
  <1> HIDE DEF nxt, new, n, matched
  <1>12. Live(nxt) \subseteq Given(nxt)
    <2> SUFFICES ASSUME NEW t \in Live(nxt) PROVE t \in Given(nxt)
      OBVIOUS
    <2>1. t \in TrackIds /\ nxt.tracks[t].live
      BY <1>8
    <2>2. t \in Live(trk) \/ t \in new
      BY <1>5, <1>7, <1>9, <2>1
    <2>3. QED
      BY <1>11, <2>2 DEF TracksKept
  <1>13. ASSUME NEW t \in Given(nxt) \ Live(nxt)
         PROVE  t \in TrackIds /\ GivenUp(nxt.tracks[t])
    <2>1. t \in TrackIds /\ ~nxt.tracks[t].live /\ ~matched(t)
      BY <1>7, <1>8, <1>11
    <2>2. t \in Given(trk)
      BY <1>6, <1>11, <2>1
    <2>3. trk.tracks[t] \in Track /\ trk.tracks[t].age \in Clock
      BY <2>1 DEF Trackers, Track
    <2>4. trk.tracks[t].age > MissingTicks
      <3>1. CASE t \in Live(trk)
        <4>1. ~(trk.tracks[t].age <= MissingTicks)
          BY <1>7, <1>9, <2>1, <3>1
        <4>2. QED
          BY <2>3, <4>1, VisionAssumption DEF Clock
      <3>2. CASE t \notin Live(trk)
        BY <2>2, <3>2 DEF TracksKept, GivenUp
      <3>3. QED
        BY <3>1, <3>2
    <2>5. QED
      BY <1>7, <2>1, <2>4 DEF GivenUp
  <1>14. (Given(trk) \ Live(trk)) \intersect Live(nxt) = {}
    <2> SUFFICES ASSUME NEW t \in Given(trk), t \notin Live(trk), t \in Live(nxt) PROVE FALSE
      OBVIOUS
    <2>1. t \in TrackIds /\ nxt.tracks[t].live
      BY <1>8
    <2>2. matched(t)
      BY <1>7, <1>9, <2>1
    <2>3. t \in new
      BY <1>5, <2>1, <2>2
    <2>4. QED
      BY <1>1, <1>3, <2>3 DEF Given
  <1>15. ASSUME NEW t \in Given(nxt)
         PROVE  t \in TrackIds /\ nxt.tracks[t].who # Nobody
    <2>1. t \in TrackIds
      BY <1>11
    <2>2. CASE matched(t)
      BY <1>7, <2>1, <2>2, PeopleAssumption
    <2>3. CASE ~matched(t)
      BY <1>6, <1>7, <1>11, <2>1, <2>3 DEF TracksKept
    <2>4. QED
      BY <2>1, <2>2, <2>3
  <1>16. QED
    BY <1>10, <1>12, <1>13, <1>14, <1>15 DEF TracksKept, After, nxt

\* What a frame makes of one track: matched, it is fresh and kept; unmatched, it is
\* as old as before, and dropped only when it is older than max_missing_seconds.
LEMMA AssociatedAge ==
  ASSUME NEW trk \in Trackers, NEW sees \in SUBSET People,
         NEW f \in [sees -> TrackIds], NEW t \in TrackIds
  PROVE  LET new == Associated(sees, f, trk).tracks[t]
         IN  \/ new.live /\ new.age = 0
             \/ /\ new.age = trk.tracks[t].age
                /\ new.live \/ ~trk.tracks[t].live \/ trk.tracks[t].age > MissingTicks
  <1> DEFINE old == trk.tracks[t]
             new == Associated(sees, f, trk).tracks[t]
  <1>1. old \in Track
    BY DEF Trackers
  <1>2. CASE \E p \in sees : f[p] = t
    BY <1>2, AssociatedTrack
  <1>3. CASE ~\E p \in sees : f[p] = t
    <2>1. new = [old EXCEPT !.active = FALSE, !.live = @ /\ old.age <= MissingTicks]
      BY <1>3 DEF Associated
    <2> HIDE DEF new, old
    <2>2. new.age = old.age /\ (new.live \/ ~old.live \/ ~(old.age <= MissingTicks))
      BY <1>1, <2>1 DEF Track
    <2>3. old.age \in Clock
      BY <1>1 DEF Track
    <2>4. QED
      BY <2>2, <2>3, VisionAssumption DEF Clock, new, old
  <1>4. QED
    BY <1>2, <1>3

LEMMA NewTrackerKept == TracksKept(NewTracker)
  BY VisionAssumption DEF TracksKept, NewTracker, NoTrackYet, Live, Given

\* A tick makes tracks older and gives none up.
LEMMA TickKept ==
  ASSUME tracker \in Trackers, VisionTick, TracksKept(tracker)
  PROVE  /\ TracksKept(tracker') /\ After(tracker, tracker')
         /\ Live(tracker') = Live(tracker)
  <1>1. tracker' = [tracker EXCEPT !.tracks = [t \in TrackIds |-> Aged(tracker.tracks[t])]]
    BY DEF VisionTick
  <1>2. tracker'.next = tracker.next /\ \A t \in TrackIds : tracker'.tracks[t] = Aged(tracker.tracks[t])
    BY <1>1 DEF Trackers
  <1>3. ASSUME NEW t \in TrackIds
        PROVE  /\ tracker'.tracks[t].live = tracker.tracks[t].live
               /\ tracker'.tracks[t].who = tracker.tracks[t].who
               /\ GivenUp(tracker.tracks[t]) => GivenUp(tracker'.tracks[t])
    <2>1. tracker.tracks[t] \in Track
      BY DEF Trackers
    <2> DEFINE a == tracker.tracks[t]
    <2> HIDE DEF a
    <2>2. a \in Track /\ a.age \in Clock
      BY <2>1 DEF a, Track
    <2>3. /\ Aged(a).live = a.live /\ Aged(a).who = a.who
          /\ Aged(a).age \in Clock /\ Aged(a).age >= a.age
      BY <2>2, GrownClock, VisionAssumption DEF Aged, Track, Clock
    <2>4. GivenUp(a) => GivenUp(Aged(a))
      BY <2>2, <2>3, VisionAssumption DEF GivenUp, Clock
    <2>5. QED
      BY <1>2, <2>3, <2>4 DEF a
  <1>4. Live(tracker') = Live(tracker)
    BY <1>3 DEF Live
  <1>5. Given(tracker') = Given(tracker)
    BY <1>2 DEF Given
  <1>6. QED
    BY <1>3, <1>4, <1>5 DEF TracksKept, After

\* What the camera's side keeps while it is not disturbed.
CameraFollows ==
  /\ TracksKept(tracker)
  /\ snapshot.listed \subseteq Given(tracker)
  /\ worker.listed \subseteq Given(tracker)
  /\ worker.pc \in {"tracked", "noticed"} => worker.listed = Live(tracker)

Gone(trk) == Given(trk) \ Live(trk)

\* The locked track is listed, or was given up.
Followed ==
  Undisturbed =>
    /\ CameraFollows
    /\ gate.track # NoTrack => gate.track \in snapshot.listed \union Gone(tracker)

\* What moves the camera's side while it is not disturbed, but for the clock.
CameraMoves ==
  \/ Worker \/ Manager \/ (BrowserFrame /\ worker.pc = "gone")
  \/ MarkActivity \/ PopEvents \/ UNCHANGED visionVars

UndisturbedMoves == CameraMoves \/ VisionTick

LEMMA UndisturbedStep ==
  ASSUME [PresenceNext]_presenceVars, Undisturbed'
  PROVE  CameraMoves \/ Clockwork
  <1>1. CASE SwitchCamera
    BY <1>1, DisturbingIsDisturbed DEF SwitchCamera
  <1>2. CASE FrameFromBrowser
    <2>1. worker.pc = "gone"
      BY <1>2, DisturbingIsDisturbed DEF FrameFromBrowser
    <2>2. QED
      BY <1>2, <2>1 DEF FrameFromBrowser, CameraMoves
  <1>3. CASE Camera
    BY <1>3 DEF Camera, CameraMoves
  <1>4. CASE PollVision \/ HandleEvent \/ BindVisitor \/ Reconfigure
    BY <1>4, Zenon DEF PollVision, HandleEvent, BindVisitor, Reconfigure, CameraMoves
  <1>5. CASE PopPending \/ TakeTurn
    BY <1>5, Zenon DEF PopPending, TakeTurn, CameraMoves
  <1>6. CASE UNCHANGED presenceVars
    BY <1>6 DEF presenceVars, CameraMoves
  <1>7. QED
    BY <1>1, <1>2, <1>3, <1>4, <1>5, <1>6 DEF PresenceNext

LEMMA CameraFollowsStep ==
  ASSUME VisionTypeOK, CameraFollows, UndisturbedMoves
  PROVE  /\ CameraFollows'
         /\ snapshot.listed \union Gone(tracker) \subseteq snapshot'.listed \union Gone(tracker')
  <1>0. /\ worker \in Workers /\ tracker \in Trackers /\ snapshot \in Snapshots
    BY VisionTypeParts
  <1>1. /\ NoWorker.pc = "gone" /\ NoWorker.listed = {}
        /\ AtLoop.pc = "loop" /\ AtLoop.listed = {}
    BY DEF NoWorker, AtLoop
  <1>2. After(tracker, tracker') => /\ Given(tracker) \subseteq Given(tracker')
                                    /\ Gone(tracker) \subseteq Gone(tracker')
    BY DEF After, Gone
  \* Steps that leave tracker and snapshot alone.
  <1>3. ASSUME UNCHANGED << tracker, snapshot >>,
               \/ worker'.listed = {} /\ worker'.pc \notin {"tracked", "noticed"}
               \/ /\ worker'.listed = worker.listed
                  /\ worker'.pc \in {"tracked", "noticed"} => worker.pc \in {"tracked", "noticed"}
        PROVE  /\ CameraFollows'
               /\ snapshot.listed \union Gone(tracker) \subseteq snapshot'.listed \union Gone(tracker')
    BY <1>3 DEF CameraFollows
  <1>4. CASE WorkerReads
    <2>1. UNCHANGED << tracker, snapshot >>
          /\ \E sees \in SUBSET People : worker' = [AtLoop EXCEPT !.pc = "detected", !.sees = sees]
      BY <1>4, Zenon DEF WorkerReads
    <2>2. worker'.listed = {} /\ worker'.pc = "detected"
      BY <2>1 DEF AtLoop, NoWorker
    <2>3. QED
      BY <1>3, <2>1, <2>2
  <1>5. CASE WorkerTracks
    <2>1. PICK f \in [worker.sees -> TrackIds] :
             Assigns(worker.sees, f, tracker) /\ tracker' = Associated(worker.sees, f, tracker)
      BY <1>5, Zenon DEF WorkerTracks
    <2>2. worker.sees \in SUBSET People
      BY <1>0 DEF Workers
    <2>3. TracksKept(tracker') /\ After(tracker, tracker')
      BY <1>0, <2>1, <2>2, AssociatedKept, Zenon DEF CameraFollows
    <2>4. snapshot' = snapshot /\ worker'.listed = Live(tracker')
      BY <1>0, <1>5 DEF WorkerTracks, Workers
    <2>5. Live(tracker') \subseteq Given(tracker')
      BY <2>3 DEF TracksKept
    <2>6. QED
      BY <1>2, <2>3, <2>4, <2>5 DEF CameraFollows
  <1>6. CASE WorkerNotices
    <2> DEFINE events == EventsOf(worker.sees # {}, presence)
    <2>1. /\ UNCHANGED << tracker, snapshot >> /\ worker.pc = "tracked"
          /\ worker' = [worker EXCEPT !.pc = "noticed", !.sees = {}, !.events = events]
      BY <1>6 DEF WorkerNotices
    <2> HIDE DEF events
    <2>2. worker'.listed = worker.listed /\ worker'.pc = "noticed"
      BY <1>0, <2>1 DEF Workers
    <2>3. QED
      BY <1>3, <2>1, <2>2
  <1>7. CASE WorkerPublishes
    <2>1. /\ tracker' = tracker /\ worker' = AtLoop /\ worker.pc = "noticed"
          /\ snapshot' = [frame |-> TRUE, listed |-> worker.listed]
      BY <1>7 DEF WorkerPublishes, Publish
    <2>2. snapshot'.listed = Live(tracker) /\ Live(tracker) \subseteq Given(tracker)
      BY <2>1 DEF CameraFollows, TracksKept
    <2>3. Gone(tracker) \union Live(tracker) = Given(tracker)
      BY <2>2 DEF Gone
    <2>4. QED
      BY <1>1, <2>1, <2>2, <2>3 DEF CameraFollows
  <1>8. CASE WorkerEnds
    BY <1>1, <1>3, <1>8 DEF WorkerEnds
  <1>9. CASE Start
    <2>1. UNCHANGED << tracker, snapshot >> /\ worker' \in {AtLoop, NoWorker}
      BY <1>9 DEF Start, Begun
    <2>2. QED
      BY <1>1, <1>3, <2>1
  <1>10. CASE StopReturns \/ (\E then \in {"stop", "switch"} : StopBegins(then))
             \/ MarkActivity \/ PopEvents \/ UNCHANGED visionVars
    <2>1. UNCHANGED << tracker, snapshot, worker >>
      BY <1>10, Zenon DEF StopReturns, StopBegins, MarkActivity, PopEvents, visionVars
    <2>2. QED
      BY <1>3, <2>1
  <1>11. CASE BrowserFrame /\ worker.pc = "gone"
    <2>1. PICK sees \in SUBSET People :
             /\ \E f \in [sees -> TrackIds] :
                  Assigns(sees, f, tracker) /\ tracker' = Associated(sees, f, tracker)
             /\ \/ Publish(Live(tracker'), EventsOf(sees # {}, presence))
                \/ snapshot' = snapshot
      BY <1>11, Zenon DEF BrowserFrame
    <2>2. TracksKept(tracker') /\ After(tracker, tracker')
      BY <1>0, <2>1, AssociatedKept, Zenon DEF CameraFollows
    <2>3. worker' = worker
      BY <1>11 DEF BrowserFrame
    <2>4. CASE snapshot' = snapshot
      BY <1>2, <1>11, <2>2, <2>3, <2>4 DEF CameraFollows
    <2>5. CASE Publish(Live(tracker'), EventsOf(sees # {}, presence))
      <3>1. snapshot' = [frame |-> TRUE, listed |-> Live(tracker')]
        BY <2>5, Zenon DEF Publish
      <3>2. snapshot'.listed = Live(tracker') /\ Live(tracker') \subseteq Given(tracker')
        BY <2>2, <3>1 DEF TracksKept
      <3>3. Gone(tracker') \union Live(tracker') = Given(tracker')
        BY <3>2 DEF Gone
      <3>4. Given(tracker) \subseteq Given(tracker')
        BY <1>2, <2>2
      <3>5. CameraFollows'
        BY <1>11, <2>2, <2>3, <3>2, <3>4 DEF CameraFollows
      <3>6. snapshot.listed \union Gone(tracker) \subseteq Given(tracker)
        BY DEF CameraFollows, Gone
      <3>7. QED
        BY <3>2, <3>3, <3>4, <3>5, <3>6
    <2>6. QED
      BY <2>1, <2>4, <2>5
  <1>12. CASE VisionTick
    <2>1. UNCHANGED << worker, snapshot >> /\ worker.pc \in {"loop", "gone"}
      BY <1>12 DEF VisionTick
    <2>2. TracksKept(tracker') /\ After(tracker, tracker')
      BY <1>0, <1>12, TickKept DEF CameraFollows
    <2>3. QED
      BY <1>2, <2>1, <2>2 DEF CameraFollows
  <1>13. QED
    BY <1>4, <1>5, <1>6, <1>7, <1>8, <1>9, <1>10, <1>11, <1>12
       DEF UndisturbedMoves, CameraMoves, Worker, Manager

LEMMA FollowedInit == PresenceInit => Followed
  <1> SUFFICES ASSUME PresenceInit PROVE Followed
    OBVIOUS
  <1>1. tracker = NewTracker /\ worker = NoWorker /\ snapshot = NoSnapshot /\ gate.track = NoTrack
    BY DEF PresenceInit, VisionInit, Init, NewStatus
  <1>2. worker.listed = {} /\ worker.pc = "gone" /\ snapshot.listed = {}
    BY <1>1 DEF NoWorker, NoSnapshot
  <1>3. QED
    BY <1>1, <1>2, NewTrackerKept DEF Followed, CameraFollows

LEMMA FollowedStep ==
  VisionTypeOK /\ IInv /\ Followed /\ [PresenceNext]_presenceVars => Followed'
  <1> SUFFICES ASSUME VisionTypeOK, IInv, Followed, [PresenceNext]_presenceVars, Undisturbed'
               PROVE  /\ CameraFollows'
                      /\ gate'.track # NoTrack =>
                            gate'.track \in snapshot'.listed \union Gone(tracker')
    BY DEF Followed
  <1>1. /\ CameraFollows
        /\ gate.track # NoTrack => gate.track \in snapshot.listed \union Gone(tracker)
    BY StaysDisturbed DEF Followed
  <1>2. /\ CameraFollows'
        /\ snapshot.listed \union Gone(tracker) \subseteq snapshot'.listed \union Gone(tracker')
    BY <1>1, UndisturbedStep, CameraFollowsStep DEF UndisturbedMoves, Clockwork
  <1>3. gate'.track \in {gate.track, NoTrack} \/ gate'.track \in snapshot.listed
    BY TrackMoves
  <1>4. QED
    BY <1>1, <1>2, <1>3

\* The controller's time of the locked track is not ahead of the tracker's, unless
\* the track was matched since the last poll that found it: then the tracker keeps
\* it, or has dropped it only when no poll had found it for too long.
Watched ==
  /\ unpolled \in 0 .. MissingTicks + 1
  /\ Undisturbed /\ gate.track # NoTrack =>
       \/ gate.unseen <= LockedTrack.age
       \/ LockedTrack.live /\ LockedTrack.age <= unpolled
       \/ unpolled > MissingTicks

LEMMA WatchedInit == PresenceInit => Watched
  <1> SUFFICES ASSUME PresenceInit PROVE Watched
    OBVIOUS
  <1>1. unpolled = 0 /\ gate.track = NoTrack
    BY DEF PresenceInit, Init, NewStatus
  <1>2. QED
    BY <1>1, VisionAssumption DEF Watched

\* Nothing but a tick makes a track older, and nothing but too old an age drops it.
LEMMA TrackAges ==
  ASSUME VisionTypeOK, CameraMoves, NEW t \in TrackIds
  PROVE  \/ tracker'.tracks[t].live /\ tracker'.tracks[t].age = 0
         \/ /\ tracker'.tracks[t].age = tracker.tracks[t].age
            /\ \/ tracker'.tracks[t].live \/ ~tracker.tracks[t].live
               \/ tracker.tracks[t].age > MissingTicks
  <1>0. worker \in Workers /\ tracker \in Trackers
    BY VisionTypeParts
  <1>1. ASSUME NEW sees \in SUBSET People, NEW f \in [sees -> TrackIds],
               tracker' = Associated(sees, f, tracker)
        PROVE  \/ tracker'.tracks[t].live /\ tracker'.tracks[t].age = 0
               \/ /\ tracker'.tracks[t].age = tracker.tracks[t].age
                  /\ \/ tracker'.tracks[t].live \/ ~tracker.tracks[t].live
                     \/ tracker.tracks[t].age > MissingTicks
    BY <1>0, <1>1, AssociatedAge
  <1>2. CASE tracker' = tracker
    BY <1>2
  <1>3. CASE WorkerTracks
    <2>1. worker.sees \in SUBSET People
      BY <1>0 DEF Workers
    <2>2. PICK f \in [worker.sees -> TrackIds] : tracker' = Associated(worker.sees, f, tracker)
      BY <1>3, Zenon DEF WorkerTracks
    <2>3. QED
      BY <1>1, <2>1, <2>2
  <1>4. CASE BrowserFrame
    <2>1. PICK sees \in SUBSET People :
            \E f \in [sees -> TrackIds] : tracker' = Associated(sees, f, tracker)
      BY <1>4, Zenon DEF BrowserFrame
    <2>2. QED
      BY <1>1, <2>1
  <1>5. QED
    BY <1>2, <1>3, <1>4, Zenon
       DEF CameraMoves, Worker, WorkerReads, WorkerNotices, WorkerPublishes, WorkerEnds,
           Manager, Start, StopReturns, StopBegins, MarkActivity, PopEvents, visionVars

\* Only a tick adds to the history, and only a poll that finds the track clears it.
LEMMA UnpolledMoves ==
  ASSUME [PresenceNext]_presenceVars, ~PollVision, ~Clockwork
  PROVE  unpolled' = unpolled
  BY Zenon DEF PresenceNext, Camera, SwitchCamera, FrameFromBrowser, PopPending, HandleEvent,
               BindVisitor, TakeTurn, Reconfigure, presenceVars

LEMMA TickWatched ==
  ASSUME VisionTypeOK, IInv, Followed, Watched, Clockwork, Undisturbed'
  PROVE  Watched'
  <1>1. tracker \in Trackers /\ gate \in Gate /\ Undisturbed
    BY VisionTypeParts DEF IInv, Sound, Clockwork, Undisturbed
  <1>2. gate' = [gate EXCEPT !.candAge = Older(@),
                             !.unseen  = IF gate.track = NoTrack THEN @ ELSE Older(@)]
    BY DEF Clockwork, Tick
  <1>3. /\ gate'.track = gate.track
        /\ gate.track # NoTrack => gate'.unseen = Older(gate.unseen)
    BY <1>1, <1>2 DEF Gate
  <1>4. /\ unpolled \in 0 .. MissingTicks + 1 /\ MissingTicks \in Nat
        /\ unpolled' = IF Keeps(gate.track) /\ unpolled <= MissingTicks
                       THEN unpolled + 1 ELSE unpolled
    BY VisionAssumption DEF Watched, Clockwork
  <1>5. unpolled' \in 0 .. MissingTicks + 1 /\ unpolled' >= unpolled
    BY <1>4
  <1>6. ASSUME gate.track # NoTrack
        PROVE  \/ gate'.unseen <= LockedTrack'.age
               \/ LockedTrack'.live /\ LockedTrack'.age <= unpolled'
               \/ unpolled' > MissingTicks
    <2> DEFINE a == tracker.tracks[gate.track]
    <2>1. gate.track \in Given(tracker) /\ TracksKept(tracker)
      BY <1>1, <1>6 DEF Followed, CameraFollows, Gone
    <2>2. gate.track \in TrackIds /\ a.who # Nobody
      BY <2>1 DEF TracksKept
    <2>3. a \in Track
      BY <1>1, <2>2 DEF Trackers
    <2>4. LockedTrack' = Aged(a)
      <3>1. tracker' = [tracker EXCEPT !.tracks = [t \in TrackIds |-> Aged(tracker.tracks[t])]]
        BY DEF Clockwork, VisionTick
      <3>2. tracker'.tracks[gate.track] = Aged(a)
        BY <1>1, <2>2, <3>1 DEF Trackers
      <3>3. QED
        BY <1>3, <3>2 DEF LockedTrack
    <2>5. LockedTrack = a /\ (Keeps(gate.track) <=> a.live)
      BY <2>2 DEF LockedTrack, Keeps, Live
    <2> HIDE DEF a
    <2>6. Aged(a).live = a.live /\ Aged(a).age = Grown(a.age) /\ a.age \in Clock
      BY <2>2, <2>3 DEF Aged, Track
    <2>7. gate.unseen \in Ages
      BY <1>1 DEF Gate
    <2>8. /\ gate.unseen <= a.age => Older(gate.unseen) <= Grown(a.age)
          /\ Grown(a.age) <= a.age + 1
      BY <2>6, <2>7, VisionAssumption, AgeAssumption, SameTracksAssumption
         DEF Older, Grown, Clock, Ages
    <2>9. CASE gate.unseen <= a.age
      BY <1>3, <1>6, <2>4, <2>6, <2>8, <2>9
    <2>10. CASE a.live /\ a.age <= unpolled /\ unpolled <= MissingTicks
      <3>1. unpolled' = unpolled + 1
        BY <1>4, <2>5, <2>10
      <3>2. Grown(a.age) <= unpolled + 1
        BY <1>4, <2>6, <2>8, <2>10, GrownClock DEF Clock
      <3>3. QED
        BY <2>4, <2>6, <2>10, <3>1, <3>2
    <2>11. CASE unpolled > MissingTicks
      BY <1>4, <1>5, <2>11
    <2>12. QED
      BY <1>1, <1>4, <1>6, <2>5, <2>9, <2>10, <2>11 DEF Watched
  <1>7. QED
    BY <1>3, <1>5, <1>6 DEF Watched

LEMMA PollWatched ==
  ASSUME VisionTypeOK, IInv, Watched, PollVision
  PROVE  Watched'
  <1>1. gate \in Gate /\ UpdatePrimaryPresence(Report) /\ tracker \in Trackers
    BY VisionTypeParts DEF IInv, Sound, PollVision
  <1>2. /\ tracker' = tracker /\ disturbed' = disturbed
        /\ unpolled' = IF Tracking(Report) /\ gate'.track \in snapshot.listed
                       THEN 0 ELSE unpolled
    BY DEF PollVision, visionVars
  <1>3. unpolled' \in 0 .. MissingTicks + 1
    BY <1>2, VisionAssumption DEF Watched
  <1>4. CASE gate'.track = NoTrack
    BY <1>3, <1>4 DEF Watched
  <1>5. CASE /\ gate'.track # NoTrack
             /\ Tracking(Report) /\ gate'.track \in snapshot.listed
             /\ gate'.unseen = tracker.tracks[gate'.track].age
    <2>1. gate'.track \in TrackIds
      BY <1>5, VisionTypeParts DEF Snapshots
    <2>2. tracker.tracks[gate'.track].age \in Clock
      BY <1>1, <2>1 DEF Trackers, Track
    <2>3. gate'.unseen <= LockedTrack'.age
      BY <1>2, <1>5, <2>2, VisionAssumption DEF LockedTrack, Clock
    <2>4. QED
      BY <1>3, <2>3 DEF Watched
  <1>6. CASE /\ gate'.track # NoTrack
             /\ ~(Tracking(Report) /\ gate'.track \in snapshot.listed)
             /\ gate'.track = gate.track /\ gate'.unseen = gate.unseen
    <2>1. unpolled' = unpolled /\ LockedTrack' = LockedTrack /\ (Undisturbed' => Undisturbed)
      BY <1>2, <1>6 DEF LockedTrack, Undisturbed
    <2>2. QED
      BY <1>3, <1>6, <2>1 DEF Watched
  <1>7. QED
    BY <1>1, <1>4, <1>5, <1>6, PollUnseen

LEMMA WatchedStep ==
  VisionTypeOK /\ IInv /\ Followed /\ Watched /\ [PresenceNext]_presenceVars => Watched'
  <1> SUFFICES ASSUME VisionTypeOK, IInv, Followed, Watched, [PresenceNext]_presenceVars
               PROVE  Watched'
    OBVIOUS
  <1>1. CASE PollVision
    BY <1>1, PollWatched
  <1>2. CASE Clockwork
    <2>1. Undisturbed' = Undisturbed
      BY <1>2 DEF Clockwork, Undisturbed
    <2>2. CASE Undisturbed'
      BY <1>2, <2>2, TickWatched
    <2>3. CASE ~Undisturbed'
      <3>1. unpolled' \in 0 .. MissingTicks + 1
        BY <1>2, VisionAssumption DEF Clockwork, Watched
      <3>2. QED
        BY <2>3, <3>1 DEF Watched
    <2>4. QED
      BY <2>2, <2>3
  <1>3. CASE ~PollVision /\ ~Clockwork
    <2>1. unpolled' = unpolled
      BY <1>3, UnpolledMoves
    <2>2. SUFFICES ASSUME Undisturbed', gate'.track # NoTrack
                   PROVE  \/ gate'.unseen <= LockedTrack'.age
                          \/ LockedTrack'.live /\ LockedTrack'.age <= unpolled'
                          \/ unpolled' > MissingTicks
      BY <2>1 DEF Watched
    <2>3. Undisturbed /\ CameraMoves
      BY <1>3, <2>2, StaysDisturbed, UndisturbedStep
    <2>4. gate'.track = gate.track /\ gate'.unseen = gate.unseen
      BY <1>3, <2>2, TrackMoves
    <2>5. gate.track \in TrackIds
      BY <2>2, <2>4, SameTracksAssumption DEF IInv, Sound, Gate
    <2> DEFINE a == tracker.tracks[gate.track]
               b == tracker'.tracks[gate.track]
    <2>6. \/ b.live /\ b.age = 0
          \/ b.age = a.age /\ (b.live \/ ~a.live \/ a.age > MissingTicks)
      BY <2>3, <2>5, TrackAges
    <2>7. LockedTrack = a /\ LockedTrack' = b
      BY <2>4 DEF LockedTrack
    <2>8. a.age \in Nat /\ unpolled \in Nat /\ MissingTicks \in Nat
      <3>1. tracker.tracks[gate.track] \in Track
        BY <2>5, VisionTypeParts DEF Trackers
      <3>2. QED
        BY <3>1, VisionAssumption DEF Track, Clock, Watched
    <2>9. \/ gate.unseen <= a.age
          \/ a.live /\ a.age <= unpolled
          \/ unpolled > MissingTicks
      BY <2>2, <2>3, <2>4, <2>7 DEF Watched
    <2> HIDE DEF a, b
    <2>10. QED
      BY <2>1, <2>4, <2>6, <2>7, <2>8, <2>9
  <1>4. QED
    BY <1>1, <1>2, <1>3

\* A release is due: the track it takes the visitor away for is old enough by the
\* tracker's own clock, or it was dropped unwatched.
LEMMA ReleaseStep ==
  ASSUME VisionTypeOK, IInv, Followed, Watched, [PresenceNext]_presenceVars,
         Releases, Undisturbed
  PROVE  \/ LockedTrack.age >= config.grace
         \/ ~Keeps(gate.track) /\ unpolled > MissingTicks
  <1>1. PollRelease(Report)
    BY TrackMoves
  <1>2. /\ gate.track # NoTrack
        /\ LostTooLong(SeenAge(Report))
    BY <1>1 DEF PollRelease
  <1>3. gate.track \in TrackIds
    BY <1>2, SameTracksAssumption DEF IInv, Sound, Gate
  <1>4. Report.list[gate.track] = Sighted(gate.track)
    BY <1>3, SameTracksAssumption DEF Report
  <1>5. CASE gate.track \in snapshot.listed
    <2>1. /\ Sighted(gate.track) # Absent
          /\ Sighted(gate.track).age = LockedTrack.age
      BY <1>5 DEF Sighted, Absent, LockedTrack
    <2>2. SeenAge(Report) = LockedTrack.age
      BY <1>4, <2>1 DEF SeenAge
    <2>3. QED
      BY <1>2, <2>2 DEF LostTooLong
  <1>6. CASE gate.track \notin snapshot.listed
    <2>1. gate.track \in Gone(tracker) /\ TracksKept(tracker)
      BY <1>2, <1>6 DEF Followed, CameraFollows
    <2>2. ~Keeps(gate.track) /\ ~LockedTrack.live
      BY <2>1 DEF Gone, TracksKept, Keeps, GivenUp, LockedTrack
    <2>3. SeenAge(Report) = gate.unseen
      BY <1>4, <1>6 DEF SeenAge, Sighted
    <2>4. gate.unseen >= config.grace
      BY <1>2, <2>3 DEF LostTooLong
    <2>5. gate.unseen <= LockedTrack.age \/ unpolled > MissingTicks
      BY <1>2, <2>2 DEF Watched
    <2>6. gate.unseen \in Int /\ config.grace \in Int /\ LockedTrack.age \in Int
      <3>1. LockedTrack \in Track
        BY <1>3, VisionTypeParts DEF Trackers, LockedTrack
      <3>2. LockedTrack.age \in Clock /\ gate.unseen \in Ages /\ config.grace \in Graces
        BY <3>1 DEF IInv, Sound, Gate, Config, Track
      <3>3. gate.unseen \in Int /\ LockedTrack.age \in Int
        BY <3>2, AgeAssumption, VisionAssumption DEF Ages, Clock
      <3>4. config.grace \in 0 .. AgeCap
        BY <3>2, AgeAssumption
      <3>5. QED
        BY <3>3, <3>4
    <2>7. QED
      BY <2>2, <2>4, <2>5, <2>6
  <1>7. QED
    BY <1>5, <1>6

\* No visitor is released before time: whatever the poll reads and whenever it comes,
\* the locked track was last matched a grace period ago by the tracker's clock, for
\* any people, numbers and times, also with the handoff switched off and on meanwhile;
\* unless the tracker dropped a track that no poll had found for max_missing_seconds.
THEOREM ReleasesAreDue == PresenceSpec => ReleaseIsDue
  <1>1. VisionTypeOK /\ IInv /\ Followed /\ Watched /\ [PresenceNext]_presenceVars =>
          [ Releases /\ Undisturbed =>
              \/ LockedTrack.age >= config.grace
              \/ ~Keeps(gate.track) /\ unpolled > MissingTicks ]_presenceVars
    BY ReleaseStep
  <1>2. PresenceInit => VisionTypeOK /\ Stream /\ IInv /\ Followed /\ Watched
    BY VisionInitType, StreamInit, InitInv, FollowedInit, WatchedInit DEF PresenceInit
  <1>3. VisionTypeOK /\ Stream /\ IInv /\ Followed /\ Watched /\ [PresenceNext]_presenceVars
          => (VisionTypeOK /\ Stream /\ IInv /\ Followed /\ Watched)'
    <2>1. VisionTypeOK /\ Stream /\ IInv /\ [PresenceNext]_presenceVars => [Next]_gateVars
      BY PresenceMovesController DEF Stream
    <2>2. QED
      BY <2>1, VisionStepType, StreamStep, NextInv, FollowedStep, WatchedStep
  <1>4. QED
    BY <1>1, <1>2, <1>3, PTL DEF PresenceSpec, ReleaseIsDue

=============================================================================
