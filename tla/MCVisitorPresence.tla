-------------------------- MODULE MCVisitorPresence -------------------------
(* The camera and the gating controller, for TLC: one person, one visitor,    *)
(* two track numbers.  Visitor and person are independent: who is bound is    *)
(* not who is seen.                                                           *)
EXTENDS VisitorPresence

\* What the debounced presence still depends on.
Debounced == IF presence.present THEN << TRUE, presence.seen, presence.idle >>
                                 ELSE << FALSE, presence.run >>

\* How long the dispatcher did not look, while there is a track to look at.
Unlooked == IF gate.track = NoTrack THEN 0 ELSE unpolled

\* The controller and the histories, as long as a property claims anything of them.  The
\* camera is blind to them: once it was switched or two sources sent frames, which of the
\* two does not matter as at most one thing disturbs a behaviour, all that counts is how
\* many events are still to be handled.
Claimed == IF Undisturbed
           THEN << gate.primary, gate.track, gate.unseen, gate.presence, config,
                   popped, pending, told, Unlooked, disturbed >>
           ELSE << Len(popped), Len(pending) >>

\* Tracks that the tracker or the snapshots may still refer to, or a locked one.
Referred == Live(tracker) \union snapshot.listed \union worker.listed
              \union (IF Undisturbed THEN {gate.track} ELSE {})

\* What tells states apart here: not the dialogue side of the controller, not
\* tracks nobody refers to, not the stop flag of a worker that has ended.
View == << running, halted /\ running, call, worker, Debounced, snapshot,
           tracker.next, [t \in Referred \intersect TrackIds |-> tracker.tracks[t]],
           Claimed >>
=============================================================================
