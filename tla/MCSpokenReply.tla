--------------------------- MODULE MCSpokenReply ---------------------------
(* Three deltas in all attempts of a turn, one more than is ever spoken.      *)
EXTENDS SpokenReply

AllKinds == {"plain", "brief", "gap", "echo", "harsh", "claim",
             "foreign", "denial", "part"}
SomeWholes == {<<"plain">>, <<"echo", "other">>, <<"denial", "plain">>}
=============================================================================
