-------------------------- MODULE OrderedDelivery --------------------------
(***************************************************************************)
(* What a one-way stream of this system promises, whatever carries it.     *)
(* Items are numbered as they are said; the listener hears them in that    *)
(* order and never twice.  If MayLose is FALSE nothing is skipped, and a   *)
(* stream that completes has told everything.  A stream that is cut has    *)
(* told a prefix, if nothing may be lost, and says so by not completing.   *)
(*                                                                         *)
(* SpokenReply (the sentences of a progressive reply) and SpeechInput (the *)
(* audio frames of a transcription) are shown to implement it.             *)
(***************************************************************************)
EXTENDS Naturals, Sequences

CONSTANT MayLose            \* TRUE or FALSE: may the carrier drop an item?

VARIABLES said,             \* how many items have been said
          heard,            \* the numbers of the items heard, in order
          outcome           \* "open", "complete" or "cut"

vars == <<said, heard, outcome>>

Last == IF heard = <<>> THEN 0 ELSE heard[Len(heard)]

Init == said = 0 /\ heard = <<>> /\ outcome = "open"

\* A speaker does not notice that nobody listens any more.
Say == /\ outcome # "complete"
       /\ said' = said + 1
       /\ UNCHANGED <<heard, outcome>>

Hear(i) == /\ outcome = "open"
           /\ i \in Last + 1 .. said
           /\ MayLose \/ i = Last + 1
           /\ heard' = Append(heard, i)
           /\ UNCHANGED <<said, outcome>>

Complete == /\ outcome = "open"
            /\ MayLose \/ Last = said
            /\ outcome' = "complete"
            /\ UNCHANGED <<said, heard>>

Cut == /\ outcome = "open"
       /\ outcome' = "cut"
       /\ UNCHANGED <<said, heard>>

Next == Say \/ (\E i \in 1 .. said : Hear(i)) \/ Complete \/ Cut

Spec == Init /\ [][Next]_vars

-----------------------------------------------------------------------------
TypeOK == /\ said \in Nat
          /\ heard \in Seq(1 .. said)
          /\ outcome \in {"open", "complete", "cut"}

\* The order of the items survives the carrier: heard numbers only grow.
InOrder == \A i, j \in 1 .. Len(heard) : i < j => heard[i] < heard[j]

\* Without loss, what is heard is a prefix of what is said, and all of it
\* once the stream is complete.
NothingSkipped ==
    ~MayLose => /\ \A i \in 1 .. Len(heard) : heard[i] = i
                /\ outcome = "complete" => Len(heard) = said
=============================================================================
