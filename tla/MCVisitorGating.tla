-------------------------- MODULE MCVisitorGating --------------------------
(* The gating controller alone, for TLC: two visitors, two person tracks, a  *)
(* grace period of zero or one tick, one session after the first.            *)
EXTENDS VisitorGating, TLC

Symmetry == Permutations(Visitors) \union Permutations(Tracks)

\* States that differ only in the last decision and event, which the controller
\* reports and never reads, count as one.  The properties read them only in the
\* state a step leads to.
View == << [f \in DOMAIN gate \ {"decision", "event"} |-> gate[f]], config >>
=============================================================================
