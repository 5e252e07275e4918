---------------------------- MODULE MCMoodPolicy ----------------------------
(* A small instance of MoodPolicy: texts that carry every posture at least once. *)
EXTENDS MoodPolicy

Text(keyword, postures, insult, fragment, possessive) ==
    [keyword |-> keyword, postures |-> postures, insult |-> insult,
     fragment |-> fragment, possessive |-> possessive]

MCSignals ==
    [plain     |-> Text(FALSE, <<>>, "none", FALSE, FALSE),
     threat    |-> Text(TRUE, <<>>, "none", TRUE, FALSE),
     demand    |-> Text(FALSE, <<"service_demand">>, "none", FALSE, FALSE),
     who       |-> Text(FALSE, <<"self_definition_query">>, "none", FALSE, FALSE),
     label     |-> Text(FALSE, <<"naming_attempt">>, "none", FALSE, TRUE),
     adopt     |-> Text(FALSE, <<"naming_attempt", "domestication_attempt", "trace_request">>,
                        "none", FALSE, FALSE),
     insult    |-> Text(FALSE, <<"correction_received", "negative_feedback">>, "medium", FALSE, FALSE),
     recall    |-> Text(FALSE, <<"service_demand", "memory_continuity_query">>, "none", TRUE, FALSE)]
MCTexts == DOMAIN MCSignals
MCHits == {0, 2}

\* A new visitor, and one after fifteen friendly turns in the last half hour.
Friendly == [types |-> {"user_spoke"}, age |-> 0]
MCStarts == {[mood |-> InitialMood, rows |-> <<>>],
             [mood |-> [desperation |-> 0, confusion |-> Pct(22), anger |-> 0, fatigue |-> 0,
                        exposure |-> 0, inquiry |-> 698000, care |-> Pct(2),
                        opening |-> Pct(18), gravity |-> Pct(8)],
              rows |-> [i \in 1..15 |-> Friendly]]}
=============================================================================
