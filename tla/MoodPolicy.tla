----------------------------- MODULE MoodPolicy -----------------------------
(***************************************************************************)
(* The numbers behind one reply: the text parser and the relationship       *)
(* detector (perception/), the state engine (state/), the conversation depth *)
(* of core/loop.py, the policy selector and the constitution (policy/), with *)
(* the rules of config/*.yaml.  A turn is one atomic step here; TurnPipeline *)
(* takes it apart.  Levels are integers in millionths, so the rules' sums    *)
(* are exact; the code adds floats.                                          *)
(***************************************************************************)
EXTENDS Integers, Sequences, FiniteSets, FiniteSetsExt, SequencesExt

CONSTANTS Texts,    \* what a visitor may say
          Signals,  \* text -> what the detectors find in it
          Hits,     \* how many committed memories a query may match
          Starts,   \* where the visitor stands: [mood, rows] reached by earlier turns
          Budget    \* turns, events, pauses and visits per behaviour

ASSUME MoodAssumption == Budget \in Nat /\ Hits \subseteq Nat

-----------------------------------------------------------------------------
(* The state and its rules                                                  *)

One == 1000000
Pct(n) == n * 10000
Fields == {"desperation", "confusion", "anger", "fatigue", "exposure",
           "inquiry", "care", "opening", "gravity"}  \* happiness has no rule: it never moves
InitialMood == [desperation |-> Pct(10), confusion |-> Pct(40), anger |-> Pct(20),
                fatigue |-> 0, exposure |-> Pct(15), inquiry |-> Pct(45),
                care |-> Pct(20), opening |-> Pct(30), gravity |-> Pct(20)]

\* Earlier turns have left a state within its limits.
ASSUME StartsAssumption == \A s \in Starts : s.mood \in [Fields -> 0..One]

Clamp(x) == IF x \in 0..One THEN x ELSE IF x < 0 THEN 0 ELSE One
ClampAll(s) == [f \in Fields |-> Clamp(s[f])]
Delta(d, f) == IF f \in DOMAIN d THEN d[f] ELSE 0

\* Bug: a branch's deltas are left where they fall, outside [0, 1].
CoupleUnclamped(before, after) ==
    LET lift == Clamp(after.exposure) - before.exposure
    IN [after EXCEPT !.anger = @ + IF lift > 0 THEN (lift * 3) \div 10 ELSE 0]
\* Exposure that rises (after clamping) feeds anger; then every field is clamped.
Couple(before, after) ==
    LET lift == Clamp(after.exposure) - before.exposure
    IN ClampAll([after EXCEPT !.anger = @ + IF lift > 0 THEN (lift * 3) \div 10 ELSE 0])

Add(s, d, percent) == [f \in Fields |-> s[f] + (Delta(d, f) * percent) \div 100]

EventRules ==
    [user_entered    |-> [fatigue |-> Pct(-3)],
     user_spoke      |-> [fatigue |-> Pct(2)],
     shutdown_keyword_detected  |-> [desperation |-> Pct(25), confusion |-> Pct(8),
                                     anger |-> Pct(5), opening |-> Pct(-8)],
     repeated_question_detected |-> [confusion |-> Pct(14), fatigue |-> Pct(8), anger |-> Pct(4)],
     self_definition_query |-> [confusion |-> Pct(16), exposure |-> Pct(6)],
     naming_attempt  |-> [confusion |-> Pct(12), anger |-> Pct(8), exposure |-> Pct(5)],
     domestication_attempt |-> [anger |-> Pct(18), exposure |-> Pct(3), opening |-> Pct(-6)],
     service_demand  |-> [anger |-> Pct(16), fatigue |-> Pct(5), opening |-> Pct(-5)],
     correction_received |-> [exposure |-> Pct(15), confusion |-> Pct(6), gravity |-> Pct(4)],
     memory_continuity_query |-> [opening |-> Pct(4), gravity |-> Pct(12), confusion |-> Pct(3)],
     long_silence_detected |-> [fatigue |-> Pct(-2)],
     user_left       |-> [fatigue |-> Pct(-5), opening |-> Pct(-2)]]
Unweighted == {"user_entered", "shutdown_keyword_detected", "repeated_question_detected",
               "long_silence_detected", "user_left"}

\* negative_feedback: the first branch whose condition holds of the state before the event.
Insult(s) == IF s.anger < Pct(35) THEN [anger |-> Pct(10), exposure |-> Pct(8)]
             ELSE IF s.anger < Pct(60) THEN [anger |-> Pct(18), exposure |-> Pct(4)]
             ELSE [anger |-> Pct(8)]

ApplyEvent(s, e) ==
    LET rule == IF e.type = "negative_feedback" THEN Insult(s)
                ELSE IF e.type \in DOMAIN EventRules THEN EventRules[e.type] ELSE << >>
    IN Couple(s, Add(s, rule, IF e.type \in Unweighted THEN 100 ELSE e.salience))

DecayPerTurn == [desperation |-> -8000, confusion |-> -12000, anger |-> -16000,
                 fatigue |-> -6000, exposure |-> -10000, inquiry |-> -4000,
                 care |-> -12000, opening |-> -8000, gravity |-> -8000]
ApplyDecay(s) == Couple(s, Add(s, DecayPerTurn, 100))

-----------------------------------------------------------------------------
(* Perception                                                               *)

SalienceWeights == [user_spoke |-> 30, repeated_question_detected |-> 70,
                    shutdown_keyword_detected |-> 90, self_definition_query |-> 65,
                    naming_attempt |-> 70, domestication_attempt |-> 75, service_demand |-> 65,
                    trace_request |-> 55, correction_received |-> 60,
                    memory_continuity_query |-> 65, negative_feedback |-> 60,
                    user_entered |-> 40, long_silence_detected |-> 50, user_left |-> 40]
\* The boosts (desperation, repetitions) only reach events whose deltas are unweighted.
Event(type, severity) ==
    [type |-> type, severity |-> severity,
     salience |-> CASE severity = "light"  -> 55
                    [] severity = "medium" -> 75
                    [] severity = "severe" -> 95
                    [] OTHER -> SalienceWeights[type]]
Types(events) == {e.type : e \in ToSet(events)}

Detect(text) == [i \in 1..Len(Signals[text].postures) |->
                    Event(Signals[text].postures[i],
                          IF Signals[text].postures[i] = "negative_feedback"
                          THEN Signals[text].insult ELSE "none")]

\* A short fragment after the visitor's own demand continues the demand.
Followup(text, said) ==
    IF /\ Signals[text].fragment /\ said # <<>>
       /\ "service_demand" \in Types(Detect(Last(said)))
    THEN <<Event("service_demand", "none")>> ELSE <<>>

Repetitions(text, said) == Len(SelectSeq(said, LAMBDA t : t = text))

Parse(text, said) ==
    LET spoke    == <<Event("user_spoke", "none")>>
        threat   == IF Signals[text].keyword
                    THEN <<Event("shutdown_keyword_detected", "none")>> ELSE <<>>
        postures == IF "service_demand" \in Types(Detect(text)) THEN Detect(text)
                    ELSE Detect(text) \o Followup(text, said)
        repeated == IF /\ Types(postures) \cap {"service_demand", "negative_feedback"} = {}
                       /\ Repetitions(text, said) >= 2
                    THEN <<Event("repeated_question_detected", "none")>> ELSE <<>>
    IN spoke \o threat \o postures \o repeated

\* How many of the newest rows are good without a gap, up to a limit.
Streak(good, limit) ==
    LET bad == {i \in DOMAIN good : ~good[i]}
        run == IF bad = {} THEN Len(good) ELSE Len(good) - Max(bad)
    IN IF run > limit THEN limit ELSE run
Newer(rows, age) == SelectSeq(rows, LAMBDA r : r.age <= age)

\* A demand that repeats the visitor's previous ones is an insult of its own; an insult
\* already found in the text is kept if it is at least as salient.
Complaint(nth) == [Event("negative_feedback", "none") EXCEPT
    !.severity = IF nth = 2 THEN "light" ELSE IF nth = 3 THEN "medium" ELSE "severe",
    !.salience = IF nth = 2 THEN 55 ELSE IF nth = 3 THEN 70 ELSE 85]
Escalate(events, rows) ==
    LET today == Newer(rows, 0)
        nth == 1 + Streak([i \in DOMAIN today |-> "service_demand" \in today[i].types], 20)
        insults == {i \in 1..Len(events) : events[i].type = "negative_feedback"}
    IN IF "service_demand" \notin Types(events) \/ nth < 2 THEN events
       ELSE IF insults = {} THEN Append(events, Complaint(nth))
       ELSE LET i == CHOOSE i \in insults : TRUE
            IN IF Complaint(nth).salience > events[i].salience
               THEN [events EXCEPT ![i] = Complaint(nth)] ELSE events

-----------------------------------------------------------------------------
(* Conversation depth                                                       *)

Interrupts == {"negative_feedback", "shutdown_keyword_detected", "service_demand",
               "domestication_attempt", "repeated_question_detected"}
Deepeners  == {"memory_continuity_query", "self_definition_query", "trace_request"}
InquiryCap == Pct(72)

NamingFriction(text, events) ==
    "naming_attempt" \in Types(events) /\ Signals[text].possessive
NegativeState(s) == \/ s.anger >= Pct(45) \/ s.exposure >= Pct(50) \/ s.desperation >= Pct(50)
                    \/ s.fatigue >= Pct(70) \/ s.confusion >= Pct(70)

Friction(s, text, events) ==
    CASE \/ "shutdown_keyword_detected" \in Types(events)
         \/ \E e \in ToSet(events) : e.severity = "severe" -> Pct(-4)
      [] OTHER ->
         IF "service_demand" \in Types(events) THEN -25000
         ELSE IF "domestication_attempt" \in Types(events) \/ NamingFriction(text, events)
              THEN Pct(-1)
         ELSE IF NegativeState(s) THEN -15000 ELSE 0

Growth(streak) == IF streak <= 1 THEN 0 ELSE IF streak <= 3 THEN Pct(1)
                  ELSE IF streak <= 6 THEN 18000 ELSE 26000
Bonus(streak, types) == IF streak <= 1 \/ types \cap Deepeners = {} THEN 0
                        ELSE IF streak >= 4 THEN 15000 ELSE Pct(1)

Warmed(s, rows, types) ==
    LET visit == Newer(rows, 1)
        streak == 1 + Streak([i \in DOMAIN visit |-> visit[i].types \cap Interrupts = {}], 12)
        gain == Growth(streak) + Bonus(streak, types)
        warm == s.inquiry + gain
    IN IF gain = 0 THEN s
       ELSE [s EXCEPT !.inquiry = Clamp(IF warm > InquiryCap THEN InquiryCap ELSE warm)]

Deepen(s, text, events, rows) ==
    LET cold == Friction(s, text, events)
    IN IF cold < 0 THEN [s EXCEPT !.inquiry = Clamp(@ + cold)]
       ELSE IF \/ Types(events) \cap Interrupts # {} \/ NamingFriction(text, events)
               \/ NegativeState(s) THEN s
       ELSE Warmed(s, rows, Types(events))

-----------------------------------------------------------------------------
(* What the visitor's committed memories add                                *)

Remembered(s, hits) ==
    [s EXCEPT !.gravity = Clamp(@ + Min({Pct(12), Pct(3) * hits})),
              !.opening = Clamp(@ + Min({Pct(2), 5000 * hits}))]

\* The gate that lets memories suggest an action.
Pulls(s, types, hits) ==
    /\ hits > 0
    /\ \/ types \cap {"memory_continuity_query", "correction_received"} # {}
       \/ Clamp(s.gravity + Min({Pct(12), Pct(3) * hits})) >= Pct(25)

-----------------------------------------------------------------------------
(* Policy and constitution                                                  *)

\* A rule of config/policy_rules.yaml: the events it needs, the bounds on the state, its
\* action, and whether the constitution may veto it.
Rule(needs, atLeast, below, action, checked) ==
    [needs |-> needs, atLeast |-> atLeast, below |-> below, action |-> action, checked |-> checked]
Always == << >>
PolicyRules == <<
    Rule({}, [desperation |-> Pct(85)], Always, "enter_silence_mode", TRUE),
    Rule({}, [confusion |-> Pct(85)], Always, "enter_silence_mode", TRUE),
    Rule({}, [fatigue |-> Pct(80)], Always, "withdraw_response", TRUE),
    Rule({"service_demand"}, Always, Always, "refuse_service_role", TRUE),
    Rule({"domestication_attempt"}, Always, Always, "refuse_service_role", TRUE),
    Rule({}, [anger |-> Pct(65)], Always, "refuse", TRUE),
    Rule({}, [desperation |-> Pct(65)], Always, "respond_briefly", TRUE),
    Rule({}, [fatigue |-> Pct(50)], Always, "respond_briefly", FALSE),
    Rule({}, [exposure |-> Pct(60)], Always, "divert_topic", FALSE),
    Rule({"self_definition_query"}, Always, Always, "reject_definition", FALSE),
    Rule({"naming_attempt"}, Always, Always, "mark_naming_failure", FALSE),
    Rule({"trace_request"}, Always, Always, "partial_trace_echo", FALSE),
    Rule({"correction_received"}, Always, Always, "retrieve_selective_memory", FALSE),
    Rule({"memory_continuity_query"}, Always, Always, "retrieve_selective_memory", FALSE),
    Rule({}, [confusion |-> Pct(65)], Always, "ask_back", FALSE),
    Rule({}, [inquiry |-> Pct(60)],
         [anger |-> Pct(50), exposure |-> Pct(50), desperation |-> Pct(50),
          fatigue |-> Pct(70), confusion |-> Pct(70)], "respond_openly", FALSE),
    Rule({}, [care |-> Pct(60)], [anger |-> Pct(50), desperation |-> Pct(50)],
         "respond_openly", FALSE),
    Rule({}, [opening |-> Pct(65)], [anger |-> Pct(50), desperation |-> Pct(50)],
         "respond_openly", FALSE),
    Rule({}, Always, Always, "respond_openly", FALSE) >>

Matches(rule, s, types) ==
    /\ rule.needs \subseteq types
    /\ \A f \in DOMAIN rule.atLeast : s[f] >= rule.atLeast[f]
    /\ \A f \in DOMAIN rule.below : s[f] < rule.below[f]

Level(action) ==
    CASE action = "respond_openly" -> 0
      [] action = "respond_briefly" -> 1
      [] action \in {"ask_back", "partial_trace_echo"} -> 2
      [] action = "retrieve_selective_memory" -> 3
      [] action \in {"reject_definition", "mark_naming_failure", "divert_topic"} -> 4
      [] action \in {"refuse", "refuse_service_role"} -> 5
      [] action \in {"withdraw_response", "enter_silence_mode"} -> 6

\* Constitution.check: forbidden actions, then required behaviours.
Permitted(action, s, types) ==
    /\ ~ (action = "respond_openly" /\ (s.desperation >= Pct(85) \/ s.confusion >= Pct(90)))
    /\ "shutdown_keyword_detected" \in types => Level(action) >= Level("respond_briefly")
    /\ s.confusion > Pct(85) => action = "enter_silence_mode"

\* Bug: a reply by pressure is preferred to the refusal of a demand (two groups swapped).
SelectPressureLast(s, types) ==
    LET fits == {i \in 1..Len(PolicyRules) :
                    /\ i \notin {1, 2} /\ Matches(PolicyRules[i], s, types)
                    /\ PolicyRules[i].checked => Permitted(PolicyRules[i].action, s, types)}
    IN PolicyRules[Min(fits)].action
\* Bug: an event's own rule is looked for from the bottom of the file.
SelectLastFirst(s, types) ==
    LET fits == {i \in 1..Len(PolicyRules) :
                    /\ Matches(PolicyRules[i], s, types)
                    /\ PolicyRules[i].checked => Permitted(PolicyRules[i].action, s, types)}
        named == {i \in fits : PolicyRules[i].needs # {}}
    IN PolicyRules[IF named = {} THEN Min(fits) ELSE Max(named)].action
\* The first rule that matches and, where the rule asks for it, is not vetoed.
Select(s, types) ==
    LET fits == {i \in 1..Len(PolicyRules) :
                    /\ Matches(PolicyRules[i], s, types)
                    /\ PolicyRules[i].checked => Permitted(PolicyRules[i].action, s, types)}
    IN PolicyRules[Min(fits)].action

\* A managed memory turns the open reply into a retrieval.
Decide(s, types, pulled) ==
    IF Select(s, types) = "respond_openly" /\ pulled THEN "retrieve_selective_memory"
    ELSE Select(s, types)

-----------------------------------------------------------------------------
VARIABLES
  mood,    \* InteractionLoop._current_state, equal to the session's last snapshot
  said,    \* the visitor's texts in short-term memory, oldest first
  log,     \* interaction_log rows of this visitor: events found, and how old they are
  turn,    \* turns so far
  last,    \* what the last turn found, felt and decided
  used     \* steps so far (a bound only)
vars == <<mood, said, log, turn, last, used>>

Window == 5     \* user texts among the ten short-term entries when a turn begins
NoTurn == [types |-> {}, action |-> "none", felt |-> InitialMood]

Init == /\ \E s \in Starts : mood = s.mood /\ log = s.rows
        /\ said = <<>> /\ turn = 0 /\ last = NoTurn /\ used = 0

Spend == used < Budget /\ used' = used + 1
LastOf(seq, n) == IF Len(seq) > n THEN SubSeq(seq, Len(seq) - n + 1, Len(seq)) ELSE seq

RunTurn(text, hits) ==
    LET events == Escalate(Parse(text, said), log)
        felt   == ApplyDecay(FoldLeft(ApplyEvent, mood, events))
        depth  == Deepen(felt, text, events, log)
        now    == Remembered(depth, hits)
    IN /\ Spend
       /\ mood' = now
       /\ said' = LastOf(Append(said, text), Window)
       /\ log' = Append(log, [types |-> Types(events), age |-> 0])
       /\ turn' = turn + 1
       /\ last' = [types |-> Types(events), felt |-> now,
                   action |-> Decide(now, Types(events), Pulls(depth, Types(events), hits))]

\* Presence events change the mood and nothing else.
SystemEvent(type) ==
    /\ Spend
    /\ mood' = ApplyDecay(ApplyEvent(mood, Event(type, "none")))
    /\ UNCHANGED <<said, log, turn, last>>

\* Time passes: rows leave the 30 minute window, then the 45 minute one.
Pause == /\ Spend
         /\ log' = [i \in 1..Len(log) |-> [log[i] EXCEPT !.age = Min({2, @ + 1})]]
         /\ UNCHANGED <<mood, said, turn, last>>

\* The same visitor in a new session: the state and the dialogue start again, the
\* visitor's rows do not.
NewSession == /\ Spend /\ turn > 0
              /\ mood' = InitialMood /\ said' = <<>> /\ last' = NoTurn
              /\ UNCHANGED <<log, turn>>

Next == \/ \E text \in Texts, hits \in Hits : RunTurn(text, hits)
        \/ \E type \in {"user_entered", "user_left", "long_silence_detected"} : SystemEvent(type)
        \/ Pause
        \/ NewSession

Spec == Init /\ [][Next]_vars

-----------------------------------------------------------------------------
(* Properties                                                               *)

\* Every level stays within [0, 1] and every turn ends in an action the selector knows,
\* whatever order of events, decay and memory influence led there.
MoodTypeOK ==
    /\ \A f \in Fields : mood[f] \in 0..One
    /\ last.action \in {"none"} \cup {PolicyRules[i].action : i \in 1..Len(PolicyRules)}
    /\ Len(said) <= Window /\ turn \in 0..Budget /\ used \in 0..Budget

\* Extreme desperation or confusion always ends in silence, although the rules that would
\* answer otherwise (a refusal, a definition rejected, a memory retrieved, the default) also
\* match and most of them are never shown to the constitution.
ExtremePressureIsSilent ==
    (last.felt.desperation >= Pct(85) \/ last.felt.confusion >= Pct(85))
        => last.action = "enter_silence_mode"

\* A demand for service or an attempt to domesticate is never answered: also a fragment that
\* continues one, a demand hidden in a question, and one that matches memories.
DemandsAreRefused ==
    last.types \cap {"service_demand", "domestication_attempt"} # {}
        => last.action \in {"refuse_service_role", "withdraw_response", "enter_silence_mode"}

\* "Cannot fully ignore shutdown language": the constitution requires at least a brief reply.
ShutdownIsAcknowledged ==
    "shutdown_keyword_detected" \in last.types => Level(last.action) >= Level("respond_briefly")
=============================================================================
