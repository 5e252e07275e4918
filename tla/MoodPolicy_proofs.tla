------------------------- MODULE MoodPolicy_proofs -------------------------
(***************************************************************************)
(* Proofs about MoodPolicy, for any texts, whatever the detectors find in  *)
(* them, any number of memories that match and any number of turns, events *)
(* and visits: every level stays within its limits and every turn ends in  *)
(* an action of the rules; extreme pressure ends in silence; a demand is   *)
(* never answered.                                                         *)
(*                                                                         *)
(* The levels need no induction over the events of a turn: whatever they   *)
(* add up to, the decay that follows them clamps every level.  The policy  *)
(* is a question of order: a rule that the file lists early fits, so that  *)
(* only the rules before it could be chosen in its place; and where the    *)
(* constitution vetoes it, a still earlier one fits.                       *)
(***************************************************************************)
EXTENDS MoodPolicy, TLAPS, WellFoundedInduction

Levels == 0..One
Moods == [Fields -> Levels]

-----------------------------------------------------------------------------
(* The levels *)

LEMMA LevelsAre == One \in Nat /\ 0 \in Levels /\ One \in Levels /\ Levels \subseteq Int
<1>1. One \in Nat
  BY SMT DEF One
<1> QED BY <1>1 DEF Levels

\* Whatever is clamped is a level.
LEMMA ClampIs == \A x : Clamp(x) \in Levels
  BY LevelsAre DEF Clamp, Levels

LEMMA DecayedIs == ASSUME NEW s PROVE ApplyDecay(s) \in Moods
<1>1. \A t : ClampAll(t) \in Moods
  BY ClampIs DEF ClampAll, Moods
<1> QED BY <1>1 DEF ApplyDecay, Couple

LEMMA OneLevel ==
    ASSUME NEW s \in Moods, NEW x
    PROVE  [s EXCEPT !.inquiry = Clamp(x)] \in Moods
  BY ClampIs DEF Moods

LEMMA DeepenIs ==
    ASSUME NEW s \in Moods, NEW text, NEW events, NEW rows
    PROVE  Deepen(s, text, events, rows) \in Moods
<1>1. \A x : [s EXCEPT !.inquiry = Clamp(x)] \in Moods
  BY OneLevel
<1>2. Warmed(s, rows, Types(events)) \in Moods
  <2> DEFINE visit == Newer(rows, 1)
             streak == 1 + Streak([i \in DOMAIN visit |-> visit[i].types \cap Interrupts = {}], 12)
             gain == Growth(streak) + Bonus(streak, Types(events))
  <2>1. \/ Warmed(s, rows, Types(events)) = s
        \/ \E x : Warmed(s, rows, Types(events)) = [s EXCEPT !.inquiry = Clamp(x)]
    <3> HIDE DEF streak
    <3> QED BY DEF Warmed, streak
  <2> QED BY <1>1, <2>1
<1>3. CASE Friction(s, text, events) < 0
  <2>1. Deepen(s, text, events, rows) =
           [s EXCEPT !.inquiry = Clamp(s.inquiry + Friction(s, text, events))]
    BY <1>3 DEF Deepen
  <2> QED BY <1>1, <2>1
<1>4. CASE ~ (Friction(s, text, events) < 0)
  BY <1>2, <1>4 DEF Deepen
<1> QED BY <1>3, <1>4

LEMMA RememberedIs ==
    ASSUME NEW s \in Moods, NEW hits
    PROVE  Remembered(s, hits) \in Moods
<1> DEFINE g == Clamp(s.gravity + Min({Pct(12), Pct(3) * hits}))
           o == Clamp(s.opening + Min({Pct(2), 5000 * hits}))
<1>1. Remembered(s, hits) = [s EXCEPT !.gravity = g, !.opening = o]
  BY SMT DEF Remembered, Moods, Fields
<1>2. g \in Levels /\ o \in Levels
  BY ClampIs
<1> HIDE DEF g, o
<1> QED BY <1>1, <1>2 DEF Moods

LEMMA InitialIs == InitialMood \in Moods
<1>1. ASSUME NEW n \in Nat, n <= 100 PROVE Pct(n) \in Levels
  <2>1. Pct(n) \in Nat /\ Pct(n) <= One
    BY <1>1, SMT DEF Pct, One
  <2> QED BY <2>1, LevelsAre DEF Levels
<1>2. 0 \in Levels
  BY LevelsAre
<1>3. \A n \in {10, 15, 20, 30, 40, 45} : Pct(n) \in Levels
  BY <1>1
<1> QED BY <1>2, <1>3 DEF InitialMood, Moods, Fields

-----------------------------------------------------------------------------
(* The rules *)

Fits(s, types) ==
    {i \in 1..Len(PolicyRules) :
        /\ Matches(PolicyRules[i], s, types)
        /\ PolicyRules[i].checked => Permitted(PolicyRules[i].action, s, types)}

LEMMA RulesAre ==
    /\ Len(PolicyRules) = 19
    /\ PolicyRules[1] = Rule({}, [desperation |-> Pct(85)], Always, "enter_silence_mode", TRUE)
    /\ PolicyRules[2] = Rule({}, [confusion |-> Pct(85)], Always, "enter_silence_mode", TRUE)
    /\ PolicyRules[3] = Rule({}, [fatigue |-> Pct(80)], Always, "withdraw_response", TRUE)
    /\ PolicyRules[4] = Rule({"service_demand"}, Always, Always, "refuse_service_role", TRUE)
    /\ PolicyRules[5] = Rule({"domestication_attempt"}, Always, Always, "refuse_service_role", TRUE)
    /\ PolicyRules[13] = Rule({"correction_received"}, Always, Always,
                              "retrieve_selective_memory", FALSE)
    /\ PolicyRules[19] = Rule({}, Always, Always, "respond_openly", FALSE)
  BY SMT DEF PolicyRules

\* A set of numbers that is not empty has its least member.
LEMMA MinIsLeast ==
    ASSUME NEW S \in SUBSET Nat, S # {}
    PROVE  Min(S) \in S /\ \A y \in S : Min(S) <= y
<1> DEFINE less == {ss \in Nat \X Nat : ss[1] < ss[2]}
<1>1. IsWellFoundedOn(less, Nat)
  BY NatLessThanWellFounded, Zenon DEF OpToRel
<1> HIDE DEF less
<1>2. PICK x \in S : \A y \in S : ~ (<<y, x>> \in less)
  BY <1>1, WFMin, Zenon
<1>3. \A y, z \in Nat : y < z => <<y, z>> \in less
  <2> SUFFICES ASSUME NEW y \in Nat, NEW z \in Nat, y < z PROVE <<y, z>> \in less
    OBVIOUS
  <2>1. <<y, z>> \in Nat \X Nat /\ <<y, z>>[1] < <<y, z>>[2]
    OBVIOUS
  <2> QED BY <2>1, Zenon DEF less
<1>4. \A y \in S : x \in Nat /\ y \in Nat /\ ~ (y < x)
  BY <1>2, <1>3, Zenon
<1>5. \A y \in S : x <= y
  BY <1>4
<1> QED BY <1>5 DEF Min

\* The default rule always fits, so that there is a first rule that does.
LEMMA SelectIs ==
    ASSUME NEW s, NEW types
    PROVE  \E i \in Fits(s, types) :
              Select(s, types) = PolicyRules[i].action /\ \A j \in Fits(s, types) : i <= j
<1>1. Fits(s, types) \subseteq 1..19 /\ Fits(s, types) \in SUBSET Nat
  BY RulesAre DEF Fits
<1>2. 19 \in Fits(s, types)
  <2>1. PolicyRules[19].needs = {} /\ PolicyRules[19].checked = FALSE
        /\ PolicyRules[19].atLeast = Always /\ PolicyRules[19].below = Always
    BY RulesAre DEF Rule
  <2>2. Matches(PolicyRules[19], s, types)
    BY <2>1 DEF Matches, Always
  <2>3. 19 \in 1..Len(PolicyRules)
    BY RulesAre
  <2> QED BY <2>1, <2>2, <2>3 DEF Fits
<1>3. Min(Fits(s, types)) \in Fits(s, types) /\ \A j \in Fits(s, types) : Min(Fits(s, types)) <= j
  BY <1>1, <1>2, MinIsLeast
<1>4. Select(s, types) = PolicyRules[Min(Fits(s, types))].action
  BY DEF Select, Fits
<1> QED BY <1>3, <1>4
\* The first two rules: extreme pressure is silent.  Nothing forbids silence.
LEMMA SilenceFits ==
    ASSUME NEW s \in Moods, NEW types
    PROVE  /\ s.desperation >= Pct(85) => 1 \in Fits(s, types)
           /\ s.confusion >= Pct(85) => 2 \in Fits(s, types)
<1>1. Permitted("enter_silence_mode", s, types)
  BY DEF Permitted, Level
<1>2. PolicyRules[1].needs = {} /\ PolicyRules[1].atLeast = [desperation |-> Pct(85)]
      /\ PolicyRules[1].below = Always /\ PolicyRules[1].action = "enter_silence_mode"
  BY RulesAre DEF Rule
<1>3. PolicyRules[2].needs = {} /\ PolicyRules[2].atLeast = [confusion |-> Pct(85)]
      /\ PolicyRules[2].below = Always /\ PolicyRules[2].action = "enter_silence_mode"
  BY RulesAre DEF Rule
<1>4. 1 \in 1..Len(PolicyRules) /\ 2 \in 1..Len(PolicyRules)
  BY RulesAre
<1>5. s.desperation >= Pct(85) => Matches(PolicyRules[1], s, types)
  BY <1>2 DEF Matches, Always
<1>6. s.confusion >= Pct(85) => Matches(PolicyRules[2], s, types)
  BY <1>3 DEF Matches, Always
<1> QED BY <1>1, <1>2, <1>3, <1>4, <1>5, <1>6 DEF Fits

LEMMA PressureIsSilent ==
    ASSUME NEW s \in Moods, NEW types, NEW pulled,
           s.desperation >= Pct(85) \/ s.confusion >= Pct(85)
    PROVE  Decide(s, types, pulled) = "enter_silence_mode"
<1>1. PICK i \in Fits(s, types) :
         Select(s, types) = PolicyRules[i].action /\ \A j \in Fits(s, types) : i <= j
  BY SelectIs
<1>2. i \in Nat /\ i >= 1 /\ i <= 2
  BY <1>1, SilenceFits, RulesAre DEF Fits
<1>3. i = 1 \/ i = 2
  BY <1>2
<1>4. PolicyRules[i].action = "enter_silence_mode"
  BY <1>3, RulesAre DEF Rule
<1> QED BY <1>1, <1>4 DEF Decide

\* A demand is refused, unless the constitution takes the refusal back: it does only when
\* confusion is so high that the second rule fits.
LEMMA DemandIsRefused ==
    ASSUME NEW s \in Moods, NEW types, NEW pulled,
           types \cap {"service_demand", "domestication_attempt"} # {}
    PROVE  Decide(s, types, pulled) \in
              {"refuse_service_role", "withdraw_response", "enter_silence_mode"}
<1>1. PICK i \in Fits(s, types) :
         Select(s, types) = PolicyRules[i].action /\ \A j \in Fits(s, types) : i <= j
  BY SelectIs
<1>2. /\ PolicyRules[4].needs = {"service_demand"} /\ PolicyRules[4].atLeast = Always
      /\ PolicyRules[4].below = Always /\ PolicyRules[4].action = "refuse_service_role"
      /\ PolicyRules[5].needs = {"domestication_attempt"} /\ PolicyRules[5].atLeast = Always
      /\ PolicyRules[5].below = Always /\ PolicyRules[5].action = "refuse_service_role"
  BY RulesAre DEF Rule
<1>3. Matches(PolicyRules[4], s, types) \/ Matches(PolicyRules[5], s, types)
  BY <1>2 DEF Matches, Always
<1>4. CASE s.confusion > Pct(85)
  <2>1. s.confusion \in Int
    BY LevelsAre DEF Moods, Fields
  <2>2. Pct(85) \in Int
    BY SMT DEF Pct
  <2>3. s.confusion >= Pct(85)
    BY <1>4, <2>1, <2>2
  <2> QED BY <2>3, PressureIsSilent
<1>5. CASE ~ (s.confusion > Pct(85))
  <2>1. Permitted("refuse_service_role", s, types)
    BY <1>5 DEF Permitted, Level
  <2>2. 4 \in Fits(s, types) \/ 5 \in Fits(s, types)
    <3>1. 4 \in 1..Len(PolicyRules) /\ 5 \in 1..Len(PolicyRules)
      BY RulesAre
    <3>2. ASSUME NEW k \in {4, 5}, Matches(PolicyRules[k], s, types) PROVE k \in Fits(s, types)
      BY <1>2, <2>1, <3>1, <3>2 DEF Fits
    <3> QED BY <1>3, <3>2
  <2>3. i \in Nat /\ 1 <= i /\ i <= 5
    BY <1>1, <2>2, RulesAre DEF Fits
  <2>4. i \in {1, 2, 3, 4, 5}
    BY <2>3
  <2>5. PolicyRules[i].action \in {"refuse_service_role", "withdraw_response", "enter_silence_mode"}
    BY <2>4, RulesAre DEF Rule
  <2> QED BY <1>1, <2>5 DEF Decide
<1> QED BY <1>4, <1>5

-----------------------------------------------------------------------------
(* The turns *)

Actions == {PolicyRules[i].action : i \in 1..Len(PolicyRules)}

Inv ==
    /\ mood \in Moods /\ last.felt \in Moods
    /\ last.action \in {"none"} \cup Actions
    /\ said \in Seq(Texts) /\ Len(said) <= Window
    /\ used \in 0..Budget /\ turn \in 0..used
    /\ ExtremePressureIsSilent /\ DemandsAreRefused

\* A turn remembers the mood that it has decided on.
LEMMA TurnDoes ==
    ASSUME NEW text \in Texts, NEW hits \in Hits, RunTurn(text, hits)
    PROVE  \E now, types, pulled :
              /\ now \in Moods /\ mood' = now
              /\ last' = [types |-> types, felt |-> now, action |-> Decide(now, types, pulled)]
<1> DEFINE events == Escalate(Parse(text, said), log)
           felt == ApplyDecay(FoldLeft(ApplyEvent, mood, events))
           depth == Deepen(felt, text, events, log)
           now == Remembered(depth, hits)
<1>1. now \in Moods
  BY DecayedIs, DeepenIs, RememberedIs
<1>2. /\ mood' = now
      /\ last' = [types |-> Types(events), felt |-> now,
                  action |-> Decide(now, Types(events), Pulls(depth, Types(events), hits))]
  BY DEF RunTurn
<1> HIDE DEF now, depth, events
<1> QED BY <1>1, <1>2
LEMMA RetrievalIs == "retrieve_selective_memory" \in Actions
<1>1. 13 \in 1..Len(PolicyRules) /\ PolicyRules[13].action = "retrieve_selective_memory"
  BY RulesAre DEF Rule
<1> QED BY <1>1 DEF Actions

\* The selector knows every action that it may choose.
LEMMA ActionIs ==
    ASSUME NEW s, NEW types, NEW pulled
    PROVE  Decide(s, types, pulled) \in Actions
<1>1. Select(s, types) \in Actions
  BY SelectIs DEF Fits, Actions
<1> QED BY <1>1, RetrievalIs DEF Decide

\* What has been said of the newest texts stays within the window.
LEMMA WindowIs ==
    ASSUME NEW seq \in Seq(Texts)
    PROVE  LastOf(seq, Window) \in Seq(Texts) /\ Len(LastOf(seq, Window)) <= Window
  BY DEF LastOf, Window

LEMMA InitInv == Init => Inv
<1> SUFFICES ASSUME Init PROVE Inv
  OBVIOUS
<1>1. mood \in Moods
  BY StartsAssumption DEF Init, Moods, Levels
<1>2. last = NoTurn /\ NoTurn.types = {} /\ NoTurn.action = "none" /\ NoTurn.felt = InitialMood
  BY DEF Init, NoTurn
<1>3. ExtremePressureIsSilent
  <2>1. InitialMood.desperation = Pct(10) /\ InitialMood.confusion = Pct(40)
    BY DEF InitialMood
  <2>2. ~ (Pct(10) >= Pct(85)) /\ ~ (Pct(40) >= Pct(85))
    BY SMT DEF Pct
  <2> QED BY <1>2, <2>1, <2>2 DEF ExtremePressureIsSilent
<1>4. DemandsAreRefused
  BY <1>2 DEF DemandsAreRefused
<1>5. said \in Seq(Texts) /\ Len(said) <= Window /\ used \in 0..Budget /\ turn \in 0..used
  BY MoodAssumption DEF Init, Window
<1> QED BY <1>1, <1>2, <1>3, <1>4, <1>5, InitialIs DEF Inv

LEMMA SpendIs == ASSUME Inv, Spend PROVE used' = used + 1 /\ used' \in 0..Budget
  BY MoodAssumption DEF Inv, Spend

\* A step that leaves the last turn alone, or forgets it.
LEMMA LastStays ==
    ASSUME Inv, last' \in {last, NoTurn}
    PROVE  /\ last'.felt \in Moods /\ last'.action \in {"none"} \cup Actions
           /\ ExtremePressureIsSilent' /\ DemandsAreRefused'
<1>1. CASE last' = last
  BY <1>1 DEF Inv, ExtremePressureIsSilent, DemandsAreRefused
<1>2. CASE last' = NoTurn
  <2>1. last'.types = {} /\ last'.action = "none" /\ last'.felt = InitialMood
    BY <1>2 DEF NoTurn
  <2>2. InitialMood.desperation = Pct(10) /\ InitialMood.confusion = Pct(40)
    BY DEF InitialMood
  <2>3. ~ (Pct(10) >= Pct(85)) /\ ~ (Pct(40) >= Pct(85))
    BY SMT DEF Pct
  <2> QED BY <2>1, <2>2, <2>3, InitialIs DEF ExtremePressureIsSilent, DemandsAreRefused
<1> QED BY <1>1, <1>2

LEMMA TurnInv ==
    ASSUME Inv, NEW text \in Texts, NEW hits \in Hits, RunTurn(text, hits)
    PROVE  Inv'
<1>1. PICK now, types, pulled :
         /\ now \in Moods /\ mood' = now
         /\ last' = [types |-> types, felt |-> now, action |-> Decide(now, types, pulled)]
  BY TurnDoes
<1>2. last'.types = types /\ last'.felt = now /\ last'.action = Decide(now, types, pulled)
  BY <1>1
<1>3. ExtremePressureIsSilent'
  <2>1. now.desperation >= Pct(85) \/ now.confusion >= Pct(85) =>
           Decide(now, types, pulled) = "enter_silence_mode"
    BY <1>1, PressureIsSilent
  <2> QED BY <1>2, <2>1 DEF ExtremePressureIsSilent
<1>4. DemandsAreRefused'
  <2>1. types \cap {"service_demand", "domestication_attempt"} # {} =>
           Decide(now, types, pulled) \in
              {"refuse_service_role", "withdraw_response", "enter_silence_mode"}
    BY <1>1, DemandIsRefused
  <2> QED BY <1>2, <2>1 DEF DemandsAreRefused
<1>5. said' \in Seq(Texts) /\ Len(said') <= Window
  <2>1. Append(said, text) \in Seq(Texts)
    BY DEF Inv
  <2> QED BY <2>1, WindowIs DEF RunTurn
<1>6. used' \in 0..Budget /\ turn' \in 0..used'
  BY SpendIs DEF RunTurn, Inv
<1> QED BY <1>1, <1>2, <1>3, <1>4, <1>5, <1>6, ActionIs DEF Inv

LEMMA StepInv == Inv /\ [Next]_vars => Inv'
<1> SUFFICES ASSUME Inv, [Next]_vars PROVE Inv'
  OBVIOUS
<1>1. ASSUME NEW type, SystemEvent(type) PROVE Inv'
  BY <1>1, LastStays, SpendIs, DecayedIs DEF SystemEvent, Inv
<1>2. CASE Pause
  BY <1>2, LastStays, SpendIs DEF Pause, Inv
<1>3. CASE NewSession
  <2>1. mood' \in Moods /\ last' = NoTurn /\ said' = <<>>
    BY <1>3, InitialIs DEF NewSession
  <2>2. used' \in 0..Budget /\ turn' \in 0..used'
    BY <1>3, SpendIs DEF NewSession, Inv
  <2> QED BY <2>1, <2>2, LastStays DEF Inv, Window
<1>4. CASE UNCHANGED vars
  BY <1>4, LastStays DEF vars, Inv
<1> QED BY <1>1, <1>2, <1>3, <1>4, TurnInv DEF Next

-----------------------------------------------------------------------------
(* Theorems *)

\* Type correctness of the loop's state: whatever the events of a turn, the decay, the
\* depth of the conversation (core/loop.py) and the memories add, every level of the
\* state engine stays within [0, 1]; every turn ends in an action of policy_rules.yaml,
\* because its last rule always matches; and short-term memory keeps to its window.
THEOREM MoodTypeCorrect == Spec => []MoodTypeOK
<1>1. Inv => MoodTypeOK
  BY MoodAssumption DEF Inv, MoodTypeOK, Moods, Levels, Actions
<1> QED BY <1>1, InitInv, StepInv, PTL DEF Spec

\* Extreme desperation or confusion ends in silence, for any texts, any findings of the
\* detectors and any turns before: the two rules that say so head the file, and the
\* constitution forbids everything but silence at such confusion, never silence itself.
THEOREM PressureEndsInSilence == Spec => []ExtremePressureIsSilent
<1>1. Inv => ExtremePressureIsSilent
  BY DEF Inv
<1> QED BY <1>1, InitInv, StepInv, PTL DEF Spec

\* A demand for service or an attempt to domesticate is refused or met with silence, for
\* any texts, any findings and any memories that match: where the constitution vetoes the
\* refusal (confusion), the rule for silence fits, so that the selector never gets to the
\* rules below, which answer.
THEOREM DemandsMeetRefusal == Spec => []DemandsAreRefused
<1>1. Inv => DemandsAreRefused
  BY DEF Inv
<1> QED BY <1>1, InitInv, StepInv, PTL DEF Spec
=============================================================================
