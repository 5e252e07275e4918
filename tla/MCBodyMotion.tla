---------------------------- MODULE MCBodyMotion ----------------------------
(* A small instance of BodyMotion: one turn and one test at a time, a one-line buffer. *)
EXTENDS BodyMotion

Calm == [anger |-> 10, fatigue |-> 10, desperation |-> 10, exposure |-> 10, confusion |-> 10]
MCMoods == {[state |-> [Calm EXCEPT !.fatigue = 80], action |-> "none"]}
MCTests == {"WITHDRAW", "REACQUIRE"}
MCApiCommands == {"arm", "motors off"}
=============================================================================
