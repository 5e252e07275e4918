-------------------------- MODULE MCSessionHandoff --------------------------
(* The API runtime and its gating controller, for TLC: one visitor, one       *)
(* person track, and the requests each configuration names.                   *)
EXTENDS SessionHandoff

\* What the controller reports and no step reads.
Reported == {"decision", "event", "confirm", "identity"}

\* States that differ only in what is reported, or in the rows of sessions that
\* nothing refers to, count as one.
View == << [f \in DOMAIN gate \ Reported |-> gate[f]], config, app,
           [s \in Sessions \ Unused |-> rows[s]],
           profiles, lock, queue, turn, capturing, absentee >>

\* Where a property asks whether such a session is open, and where only faces are
\* matched, which are asked about: auto_bind_high_confidence is not looked at then.
AskingView == << [f \in DOMAIN gate \ Reported |-> gate[f]],
                 config.handoff, config.grace, app,
                 [s \in Sessions \ Unused |-> rows[s]], [s \in Unused |-> rows[s].open],
                 profiles, lock, queue, turn, capturing, absentee >>
=============================================================================
